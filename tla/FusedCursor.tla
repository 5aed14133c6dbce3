----------------------------- MODULE FusedCursor -----------------------------
(***************************************************************************)
(* cursor.rs: the single-pass push parser.  It keeps no index; `pos`       *)
(* counts the tokens consumed.  A container of scalars is parsed by the    *)
(* flat loop of enter_container in registers of its own (`flat`: omark and *)
(* ocnt, or amark and acnt); only a nested container moves the current     *)
(* registers (mark, cnt, kind) to a frame and the flat ones into their     *)
(* place.  The main loop goes on with a container after its first nested   *)
(* child.  One action per next_significant!, with the sink call it leads   *)
(* to, which the sink may refuse.                                          *)
(*                                                                         *)
(* A definition named Slip_X is X with a plausible bug in it; no other     *)
(* definition uses it.                                                     *)
(***************************************************************************)
EXTENDS FlatSink, Integers

CONSTANTS Docs,             \* the documents parsed: sequences of tokens
          CheckpointEvery,  \* elements between array checkpoints (256)
          Options           \* the ParseOptions the callers use

ASSUME DocsAssumption == Docs \subseteq Seq(Token)
ASSUME CheckpointAssumption == CheckpointEvery \in Nat \ {0}
ASSUME OptionsAssumption ==
    Options \subseteq [allow_nan: BOOLEAN, allow_trailing_comma: BOOLEAN]

VARIABLES doc, opts, pos, stack, mark, cnt, kind, flat, pc, outcome, errorAt

cursorVars == <<doc, opts, pos, stack, mark, cnt, kind, flat, pc, outcome, errorAt>>
vars == <<doc, opts, pos, stack, mark, cnt, kind, flat, pc, outcome, errorAt,
          open, vals, calls>>

(* usize::MAX: the mark of no sink's value stack.                          *)
ROOT_MARK == -1

Strict == [allow_nan |-> FALSE, allow_trailing_comma |-> FALSE]

(* The Frame enum; a root frame has neither mark nor count.                *)
Frames == [kind: Kinds \cup {"root"}, mark: Nat, cnt: Nat]

RootFrame == [kind |-> "root", mark |-> 0, cnt |-> 0]
EmptyFlat == [kind |-> "array", mark |-> 0, cnt |-> 0]

Slip_CurrentFrame == [kind |-> kind, mark |-> mark, cnt |-> cnt]  \* no root frame

CurrentFrame ==
    IF mark = ROOT_MARK THEN RootFrame ELSE [kind |-> kind, mark |-> mark, cnt |-> cnt]

Running(at) == outcome = "parsing" /\ pc = at

(* next_significant!, when a token is left.                                *)
Reading(at) == Running(at) /\ pos < Len(doc)
Tok == doc[pos + 1]

ScalarTok == Tok \in Accepted(opts.allow_nan)
ErrorTok  == Tok \notin Openers \cup Accepted(opts.allow_nan)

(* A sentinel mark says the value just completed was the document's.       *)
AtRoot == pc = "main" /\ mark = ROOT_MARK

Return(result, offset) ==
    /\ outcome' = result
    /\ errorAt' = offset
    /\ pc' = "idle"

Fail(error) ==
    /\ Return(error, pos + 1)
    /\ UNCHANGED <<doc, opts, pos, stack, mark, cnt, kind, flat, sinkVars>>

Continue(at) ==
    /\ pc' = at
    /\ UNCHANGED <<outcome, errorAt>>

RefusedBy(c) ==
    /\ SinkRefuses(c)
    /\ Return("sink_error", 0)

Consume == pos' = pos + 1 /\ UNCHANGED <<doc, opts>>

-----------------------------------------------------------------------------
(* parse_with: the frame stack is cleared and the registers stand for the  *)
(* root pseudo-container.                                                  *)
Start ==
    /\ outcome = "none"
    /\ doc' \in Docs
    /\ opts' \in Options
    /\ stack' = <<>>
    /\ mark' = ROOT_MARK
    /\ pc' = "root"
    /\ outcome' = "parsing"
    /\ UNCHANGED <<pos, cnt, kind, flat, errorAt, sinkVars>>

(* The caller has used the result and drops the sink; the Buffers, with    *)
(* the frames the parse left in them, are kept for the next call.          *)
Collect ==
    /\ outcome \notin {"none", "parsing"}
    /\ doc' = <<>> /\ opts' = Strict /\ pos' = 0
    /\ mark' = ROOT_MARK /\ cnt' = 0 /\ kind' = "array" /\ flat' = EmptyFlat
    /\ outcome' = "none" /\ errorAt' = 0
    /\ SinkStart
    /\ UNCHANGED <<stack, pc>>

(* next_significant! at the end of the input.  The main loop looks at the  *)
(* token after an array's comma only to find a trailing one.               *)
UnexpectedEnd ==
    /\ outcome = "parsing"
    /\ pc # "finish" /\ ~ AtRoot
    /\ pc = "next" => opts.allow_trailing_comma
    /\ pos = Len(doc)
    /\ Return("unexpected_end", pos + 1)
    /\ UNCHANGED <<doc, opts, pos, stack, mark, cnt, kind, flat, sinkVars>>

(* finish!: anything left over is an error.                                *)
Finish ==
    /\ outcome = "parsing"
    /\ pc = "finish" \/ AtRoot
    /\ IF pos < Len(doc) THEN Return("trailing_characters", pos + 1) ELSE Return("ok", 0)
    /\ UNCHANGED <<doc, opts, pos, stack, mark, cnt, kind, flat, sinkVars>>

-----------------------------------------------------------------------------
(* The flat loop.                                                          *)

(* The top of 'attempt: begin_* and mark() for the opener just consumed.   *)
Attempt ==
    \/ /\ SinkBegin(KindOf(Tok))
       /\ flat' = [kind |-> KindOf(Tok), mark |-> vals, cnt |-> 0]
       /\ Continue("flat")
    \/ RefusedBy(BeginCall(KindOf(Tok))) /\ UNCHANGED flat

Slip_Descend(c) ==  \* the child not counted
    /\ Consume
    /\ stack' = Append(stack, CurrentFrame)
    /\ mark' = flat.mark /\ cnt' = flat.cnt /\ kind' = flat.kind
    /\ Attempt

(* A nested container, the `c`-th value of the flat one: the current       *)
(* registers go to a frame and the flat ones become current.               *)
Descend(c) ==
    /\ Consume
    /\ stack' = Append(stack, CurrentFrame)
    /\ mark' = flat.mark /\ cnt' = c /\ kind' = flat.kind
    /\ Attempt

Slip_FlatEnd ==  \* ended with the registers of the main loop
    /\ Consume
    /\ UNCHANGED <<stack, mark, cnt, kind, flat>>
    /\ \/ SinkEnd(kind, mark, cnt) /\ Continue("main")
       \/ RefusedBy(EndCall(kind, mark, cnt))

FlatEnd ==
    /\ Consume
    /\ UNCHANGED <<stack, mark, cnt, kind, flat>>
    /\ \/ SinkEnd(flat.kind, flat.mark, flat.cnt) /\ Continue("main")
       \/ RefusedBy(EndCall(flat.kind, flat.mark, flat.cnt))

(* The value of the flat container's `c`-th element or pair.               *)
FlatElement(c) ==
    \/ Tok \in Openers /\ Descend(c)
    \/ /\ ScalarTok
       /\ Consume
       /\ UNCHANGED <<stack, mark, cnt, kind>>
       /\ \/ SinkScalar(Tok) /\ flat' = [flat EXCEPT !.cnt = c] /\ Continue("separator")
          \/ RefusedBy(ScalarCall(Tok)) /\ UNCHANGED flat
    \/ ErrorTok /\ Fail(ValueError(Tok))

(* emit_key!, up to the colon looked for at `next`.                        *)
EmitKey(next) ==
    \/ /\ Tok \in KeyText
       /\ Consume
       /\ UNCHANGED <<stack, mark, cnt, kind, flat>>
       /\ \/ SinkKey(Tok) /\ Continue(next)
          \/ RefusedBy(KeyCall(Tok))
    \/ Tok = "badstr" /\ Fail("scalar_error")
    \/ Tok \notin Quoted /\ Fail("expected")

Slip_FlatMayClose == TRUE  \* a trailing comma always allowed

(* Whether a closer may come here: at once, or after a trailing comma.     *)
FlatMayClose == flat.cnt = 0 \/ opts.allow_trailing_comma
FlatCloses   == Tok = CloserOf(flat.kind) /\ FlatMayClose

Flat ==
    /\ Reading("flat")
    /\ \/ FlatCloses /\ FlatEnd
       \/ ~ FlatCloses /\ flat.kind = "object" /\ EmitKey("colon")
       \/ ~ FlatCloses /\ flat.kind = "array" /\ FlatElement(flat.cnt + 1)

FlatColon ==
    /\ Reading("colon")
    /\ \/ /\ Tok = ":"
          /\ Consume
          /\ flat' = [flat EXCEPT !.cnt = @ + 1]
          /\ Continue("value")
          /\ UNCHANGED <<stack, mark, cnt, kind, sinkVars>>
       \/ Tok # ":" /\ Fail("expected")

FlatValue == Reading("value") /\ FlatElement(flat.cnt)

Slip_CheckpointDue(count) == count = CheckpointEvery  \* the first time only
CheckpointDue(count) == count % CheckpointEvery = 0

(* A comma calls the checkpoint of an array once a multiple of the period  *)
(* has been accepted, before what follows the comma is looked at.          *)
FlatComma ==
    /\ Consume
    /\ UNCHANGED <<stack, mark, cnt, kind, flat>>
    /\ \/ /\ flat.kind = "object" \/ ~ CheckpointDue(flat.cnt)
          /\ Continue("flat") /\ UNCHANGED sinkVars
       \/ /\ flat.kind = "array" /\ CheckpointDue(flat.cnt)
          /\ \/ SinkCheckpoint(flat.mark) /\ Continue("flat")
             \/ RefusedBy(CheckpointCall(flat.mark))

FlatSeparator ==
    /\ Reading("separator")
    /\ \/ Tok = "," /\ FlatComma
       \/ Tok = CloserOf(flat.kind) /\ FlatEnd
       \/ Tok \notin {",", CloserOf(flat.kind)} /\ Fail("expected")

-----------------------------------------------------------------------------
Root ==
    /\ Reading("root")
    /\ \/ /\ Tok \in Openers
          /\ Consume
          /\ stack' = Append(stack, RootFrame)
          /\ UNCHANGED <<mark, cnt, kind>>
          /\ Attempt
       \/ /\ ScalarTok
          /\ Consume
          /\ UNCHANGED <<stack, mark, cnt, kind, flat>>
          /\ \/ SinkScalar(Tok) /\ Continue("finish")
             \/ RefusedBy(ScalarCall(Tok))
       \/ ErrorTok /\ Fail(ValueError(Tok))

-----------------------------------------------------------------------------
(* The main loop: a value of the current container has just been completed.*)

(* end_* with the registers, then the parent's frame is popped.            *)
MainEnd ==
    /\ Consume
    /\ UNCHANGED flat
    /\ \/ /\ SinkEnd(kind, mark, cnt)
          /\ stack' = Pop(stack)
          /\ IF Top(stack).kind = "root"
             THEN UNCHANGED <<mark, cnt, kind>> /\ Continue("finish")
             ELSE /\ mark' = Top(stack).mark
                  /\ cnt' = Top(stack).cnt
                  /\ kind' = Top(stack).kind
                  /\ Continue("main")
       \/ RefusedBy(EndCall(kind, mark, cnt)) /\ UNCHANGED <<stack, mark, cnt, kind>>

MainComma ==
    /\ Consume
    /\ Continue(IF kind = "object" THEN "key" ELSE "next")
    /\ UNCHANGED <<stack, mark, cnt, kind, flat, sinkVars>>

Main ==
    /\ Reading("main") /\ ~ AtRoot
    /\ \/ Tok = "," /\ MainComma
       \/ Tok = CloserOf(kind) /\ MainEnd
       \/ Tok \notin {",", CloserOf(kind)} /\ Fail("expected")

Slip_TrailingComma ==  \* the closer looked at again and again
    /\ opts.allow_trailing_comma
    /\ Tok = CloserOf(kind)
    /\ Continue(pc)
    /\ UNCHANGED <<doc, opts, pos, stack, mark, cnt, kind, flat, sinkVars>>

(* A trailing comma: the closer is left for the main loop to read again.   *)
TrailingComma ==
    /\ opts.allow_trailing_comma
    /\ Tok = CloserOf(kind)
    /\ Continue("main")
    /\ UNCHANGED <<doc, opts, pos, stack, mark, cnt, kind, flat, sinkVars>>

MainKey ==
    /\ Reading("key")
    /\ \/ TrailingComma
       \/ ~ (opts.allow_trailing_comma /\ Tok = "}") /\ EmitKey("main_colon")

Slip_MainColon ==  \* the pair not counted
    /\ Reading("main_colon")
    /\ \/ /\ Tok = ":"
          /\ Consume
          /\ Continue("main_value")
          /\ UNCHANGED <<stack, mark, cnt, kind, flat, sinkVars>>
       \/ Tok # ":" /\ Fail("expected")

MainColon ==
    /\ Reading("main_colon")
    /\ \/ /\ Tok = ":"
          /\ Consume
          /\ cnt' = cnt + 1
          /\ Continue("main_value")
          /\ UNCHANGED <<stack, mark, kind, flat, sinkVars>>
       \/ Tok # ":" /\ Fail("expected")

(* After an array's comma: the checkpoint, when a multiple of the period   *)
(* has been accepted, then the next element is counted.                    *)
CountElement ==
    /\ UNCHANGED <<doc, opts, pos, stack, mark, kind, flat>>
    /\ \/ /\ ~ CheckpointDue(cnt)
          /\ cnt' = cnt + 1 /\ Continue("main_value") /\ UNCHANGED sinkVars
       \/ /\ CheckpointDue(cnt)
          /\ \/ SinkCheckpoint(mark) /\ cnt' = cnt + 1 /\ Continue("main_value")
             \/ RefusedBy(CheckpointCall(mark)) /\ UNCHANGED cnt

MainNext ==
    /\ Running("next")
    /\ \/ pos < Len(doc) /\ TrailingComma
       \/ /\ opts.allow_trailing_comma => pos < Len(doc) /\ Tok # "]"
          /\ CountElement

MainValue ==
    /\ Reading("main_value")
    /\ \/ /\ Tok \in Openers
          /\ Consume
          /\ UNCHANGED <<stack, mark, cnt, kind>>
          /\ Attempt
       \/ /\ ScalarTok
          /\ Consume
          /\ UNCHANGED <<stack, mark, cnt, kind, flat>>
          /\ \/ SinkScalar(Tok) /\ Continue("main")
             \/ RefusedBy(ScalarCall(Tok))
       \/ ErrorTok /\ Fail(ValueError(Tok))

-----------------------------------------------------------------------------
Init ==
    /\ doc = <<>> /\ opts = Strict /\ pos = 0
    /\ stack = <<>>
    /\ mark = ROOT_MARK /\ cnt = 0 /\ kind = "array" /\ flat = EmptyFlat
    /\ pc = "idle"
    /\ outcome = "none" /\ errorAt = 0
    /\ open = <<>> /\ vals = 0 /\ calls = <<>>

Step ==
    \/ UnexpectedEnd \/ Finish
    \/ Root
    \/ Flat \/ FlatColon \/ FlatValue \/ FlatSeparator
    \/ Main \/ MainKey \/ MainColon \/ MainNext \/ MainValue

Next == Start \/ Step \/ Collect

Spec == Init /\ [][Next]_vars

(* The parser is a function call: once entered it runs until it returns.   *)
FairSpec == Spec /\ WF_vars(Step)

-----------------------------------------------------------------------------
Pcs == {"idle", "root", "flat", "colon", "value", "separator", "main", "key",
        "main_colon", "next", "main_value", "finish"}

InFlatLoop == outcome = "parsing" /\ pc \in {"flat", "colon", "value", "separator"}
InMainLoop ==
    /\ outcome = "parsing"
    /\ pc \in {"main", "key", "main_colon", "next", "main_value"}
    /\ ~ AtRoot

(* Types of the cursor's registers, frames and of the sink's containers.   *)
TypeOK ==
    /\ doc \in Seq(Token)
    /\ opts \in [allow_nan: BOOLEAN, allow_trailing_comma: BOOLEAN]
    /\ pos \in 0 .. Len(doc)
    /\ stack \in Seq(Frames)
    /\ mark \in Nat \cup {ROOT_MARK} /\ cnt \in Nat /\ kind \in Kinds
    /\ flat \in [kind: Kinds, mark: Nat, cnt: Nat]
    /\ pc \in Pcs
    /\ outcome \in {"none", "parsing", "ok", "sink_error"} \cup ParseErrors
    /\ errorAt \in Nat
    /\ SinkTypeOK

(* "The matching end_* receives that mark back along with the element/pair *)
(* count" (driver.rs 16-17): wherever a closer may be the next token, the  *)
(* registers of the loop the cursor is in are what the sink itself saw of  *)
(* the innermost open container.                                           *)
Describes(k, m, c) ==
    /\ open # <<>>
    /\ k = Top(open).kind
    /\ m = Top(open).mark
    /\ c = Top(open).len
    /\ k = "object" => c = Top(open).keys

MarkCountContract ==
    /\ InFlatLoop /\ pc \in {"flat", "separator"} =>
           Describes(flat.kind, flat.mark, flat.cnt)
    /\ InMainLoop /\ pc \in {"main", "key"} => Describes(kind, mark, cnt)

(* The expect("frame stack underflow") never fires: in the flat loop the   *)
(* sink has as many containers open as there are frames, in the main loop  *)
(* one less, the second root frame of a nested document included.          *)
NoUnderflow ==
    /\ InFlatLoop => Len(stack) = Len(open) /\ (mark = ROOT_MARK <=> Len(stack) = 1)
    /\ InMainLoop => Len(stack) = Len(open) + 1 /\ open # <<>>
    /\ InFlatLoop \/ InMainLoop =>
           \A i \in DOMAIN stack : stack[i].kind = "root" <=> i <= 2

(* What makes both hold.  A frame with mark and count is the one of a      *)
(* container two levels up the stack from it: it holds the count of its    *)
(* values with the one being parsed.  In the flat loop so do the current   *)
(* registers, for the parent of the flat container.                        *)
Registers == [kind |-> kind, mark |-> mark, cnt |-> cnt]

AncestorOf(r, c) ==
    /\ r.kind = c.kind /\ r.mark = c.mark
    /\ r.cnt = c.len + 1
    /\ r.kind = "object" => r.cnt = c.keys

FrameChain ==
    /\ InFlatLoop \/ InMainLoop =>
           \A i \in 3 .. Len(stack) : AncestorOf(stack[i], open[i - 2])
    /\ InFlatLoop /\ Len(open) > 1 => AncestorOf(Registers, open[Len(open) - 1])

(* The registers of the loop the cursor is in hold the mark and the count  *)
(* of the innermost container, a value that must follow already counted.   *)
CurrentOf(r, c) ==
    /\ r.kind = c.kind /\ r.mark = c.mark
    /\ r.cnt = IF pc \in {"value", "main_value"} THEN c.len + 1 ELSE c.len
    /\ r.kind = "object" =>
          c.keys = IF pc \in {"colon", "value", "main_colon", "main_value"} THEN c.len + 1
                                                                          ELSE c.len
    /\ pc \in {"colon", "value", "key", "main_colon"} => r.kind = "object"
    /\ pc = "next" => r.kind = "array"

Innermost ==
    /\ InFlatLoop => open # <<>> /\ CurrentOf(flat, Top(open))
    /\ InMainLoop => CurrentOf(Registers, Top(open))

(* A value of the innermost container has just been accepted, or its comma *)
(* read with nothing asked of the sink since.                              *)
AfterValue == pc \in {"separator", "main", "key", "next"}

(* The marks grow with the depth, and a value just accepted is on the      *)
(* value stack, above the mark of its container.                           *)
MarksOrdered ==
    InFlatLoop \/ InMainLoop =>
        /\ \A i \in 1 .. Len(open) - 1 : open[i].mark <= open[i + 1].mark
        /\ Top(open).mark <= vals
        /\ AfterValue => Top(open).mark < vals

(* No container is open before the root value and after it.                *)
OutsideContainers ==
    /\ outcome = "none" => open = <<>> /\ calls = <<>> /\ vals = 0 /\ pos = 0
    /\ outcome = "parsing" <=> pc # "idle"
    /\ outcome = "parsing" /\ pc = "root" =>
           open = <<>> /\ calls = <<>> /\ stack = <<>> /\ vals = 0 /\ mark = ROOT_MARK
    /\ outcome = "parsing" /\ (pc = "finish" \/ AtRoot) => open = <<>> /\ calls # <<>>

(* The frames, whatever an earlier parse left in them: of their types, and *)
(* one for each container of the sink (cursor.rs 227-251), with what it    *)
(* takes for every step to keep them so.                                   *)
CInv ==
    /\ TypeOK
    /\ NoUnderflow
    /\ FrameChain
    /\ Innermost
    /\ MarksOrdered
    /\ OutsideContainers

(* array_checkpoint bounds the pending state of a sink that spills         *)
(* (driver.rs 139-141): of an array, the value stack never holds more than *)
(* one period of elements.                                                 *)
PendingBounded ==
    Spills => \A i \in DOMAIN open :
        open[i].kind = "array" => ValuesUpTo(i) - open[i].mark <= CheckpointEvery

(* Why: of the elements accepted only those since the last multiple of the *)
(* period are held, all of a period until the comma that spills them.      *)
SinceCheckpoint(count) == count % CheckpointEvery

HeldByCount ==
    Spills /\ (InFlatLoop \/ InMainLoop) =>
        \A i \in DOMAIN open :
            open[i].kind = "array" =>
                \/ ValuesUpTo(i) - open[i].mark <= SinceCheckpoint(open[i].len)
                \/ /\ i = Len(open) /\ AfterValue /\ SinceCheckpoint(open[i].len) = 0
                   /\ vals - open[i].mark <= CheckpointEvery

PInv == PendingBounded /\ HeldByCount

(* "The sink returned an error; parsing stopped immediately" (driver.rs    *)
(* 178), the calls come in a legal order with the arguments of the         *)
(* container they close, and success means one complete value.             *)
Protocol == INSTANCE SinkProtocol
ImplementsSinkProtocol == Protocol!Spec

(* Whatever the document and the options, the parse returns: the main loop *)
(* that reads a closer again after a trailing comma does not read it for   *)
(* ever.                                                                   *)
Returns == (outcome = "parsing") ~> (outcome # "parsing")
=============================================================================
