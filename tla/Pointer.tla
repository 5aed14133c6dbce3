------------------------------ MODULE Pointer -------------------------------
(***************************************************************************)
(* pointer_*: one pointer resolved (pointer.rs 81-97, 173-219, 601-703).   *)
(* The walk goes down one container per token and never comes back up: it  *)
(* stops at the first miss, and reads nothing past the value found.        *)
(*                                                                         *)
(* A definition named Slip_X is X with a plausible bug in it; no other     *)
(* definition uses it.                                                     *)
(***************************************************************************)
EXTENDS PointerTokens

CONSTANTS Docs, Pointers, Options

VARIABLES doc, ptr, opts,
          i,            \* the next token
          level,        \* tokens of the pointer used up
          kind,         \* of the container walked at this level
          ahead,        \* elements still to step over in an array
          match,
          pc, outcome, errorAt

vars == <<doc, ptr, opts, i, level, kind, ahead, match, pc, outcome, errorAt>>

inputs == <<doc, ptr, opts>>

NoDoc  == [tokens |-> <<>>, names |-> <<>>]
Strict == [allow_nan |-> FALSE, allow_trailing_comma |-> FALSE]

Tape == doc.tokens
Tok  == At(doc.tokens, i)
Raw  == ptr[level + 1]

Walking(at) == outcome = "walking" /\ pc = at

-----------------------------------------------------------------------------
Return(result, found, at) ==
    /\ outcome' = result /\ match' = found /\ errorAt' = at
    /\ pc' = "idle"
    /\ UNCHANGED <<inputs, i, level, kind, ahead>>

Fail(error, at) == Return(error, NoMatch, at)
Miss            == Return("ok", NoMatch, 0)

Go(at, next) ==
    /\ i' = at /\ pc' = next
    /\ UNCHANGED <<inputs, match, outcome, errorAt>>

(* The value at `at` is this level's match.                                *)
Matched(at) ==
    /\ Go(at, IF level + 1 = Len(ptr) THEN "target" ELSE "descend")
    /\ level' = level + 1
    /\ UNCHANGED <<kind, ahead>>

Begin(d, p, o) ==
    /\ outcome = "none"
    /\ doc' = d /\ ptr' = p /\ opts' = o
    /\ IF p = Malformed
       THEN outcome' = "invalid_pointer" /\ pc' = "idle"
       ELSE outcome' = "walking" /\ pc' = IF p = <<>> THEN "target" ELSE "descend"
    /\ UNCHANGED <<i, level, kind, ahead, match, errorAt>>

Start == \E d \in Docs, p \in Pointers, o \in Options : Begin(d, p, o)

(* The host is done with the result.                                       *)
Collect ==
    /\ outcome \notin {"none", "walking"}
    /\ doc' = NoDoc /\ ptr' = <<>> /\ opts' = Strict
    /\ i' = 1 /\ level' = 0 /\ kind' = "array" /\ ahead' = 0
    /\ match' = NoMatch /\ pc' = "idle" /\ outcome' = "none" /\ errorAt' = 0

-----------------------------------------------------------------------------
(* The next token of the pointer; a scalar cannot be descended into.       *)
Descend ==
    /\ Walking("descend")
    /\ \/ Tok = "end" /\ Fail("unexpected_end", i)
       \/ Tok \notin Openers \cup {"end"} /\ Miss
       \/ /\ Tok = "{" /\ At(Tape, i + 1) # "}"
          /\ Go(i + 1, "member") /\ kind' = "object"
          /\ UNCHANGED <<level, ahead>>
       \/ /\ Tok = "[" /\ Index[Raw] # NoIndex /\ At(Tape, i + 1) # "]"
          /\ Go(i + 1, "element") /\ kind' = "array" /\ ahead' = Index[Raw]
          /\ UNCHANGED level
       \/ Tok = "{" /\ At(Tape, i + 1) = "}" /\ Miss
       \/ Tok = "[" /\ (Index[Raw] = NoIndex \/ At(Tape, i + 1) = "]") /\ Miss

Slip_Member ==  \* a key that is not UTF-8 taken for a match
    IF Tape[i] = "wtf8" \/ KeyIs(Tape, doc.names, i, Raw) THEN Matched(i + 2)
    ELSE Go(i + 2, "skip") /\ UNCHANGED <<level, kind, ahead>>

Member ==
    IF KeyIs(Tape, doc.names, i, Raw) THEN Matched(i + 2)
    ELSE Go(i + 2, "skip") /\ UNCHANGED <<level, kind, ahead>>

ObjectMember ==
    /\ Walking("member")
    /\ \/ TrailingClose(Tape, i, opts, "}") /\ Miss
       \/ Tok \notin Quoted /\ ~ TrailingClose(Tape, i, opts, "}") /\ Fail("expected", i)
       \/ Tok = "badstr" /\ Fail("scalar_error", i)
       \/ Tok \in KeyText /\ At(Tape, i + 1) # ":" /\ Fail("expected", i + 1)
       \/ Tok \in KeyText /\ At(Tape, i + 1) = ":" /\ Member

ArrayElement ==
    /\ Walking("element")
    /\ \/ ahead = 0 /\ Matched(i)
       \/ /\ ahead > 0
          /\ Go(i, "skip") /\ UNCHANGED <<level, kind, ahead>>

(* A member that is not the one: value_end.                                *)
Skip ==
    /\ Walking("skip")
    /\ LET fault == ValueFault(Tape, i, opts)
       IN  IF fault = "none"
           THEN Go(ValueEnd(Tape, i) + 1, "after") /\ UNCHANGED <<level, kind, ahead>>
           ELSE Fail(fault, FaultAt(Tape, i, fault))

Slip_AfterElement ==  \* no look at what follows the comma
    Go(i + 1, "element") /\ ahead' = ahead - 1 /\ UNCHANGED <<level, kind>>

AfterElement ==
    IF TrailingClose(Tape, i + 1, opts, "]") THEN Miss
    ELSE Go(i + 1, "element") /\ ahead' = ahead - 1 /\ UNCHANGED <<level, kind>>

After ==
    /\ Walking("after")
    /\ \/ Tok = CloserOf(kind) /\ Miss
       \/ Tok = "," /\ kind = "array" /\ AfterElement
       \/ Tok = "," /\ kind = "object" /\ Go(i + 1, "member") /\ UNCHANGED <<level, kind, ahead>>
       \/ Tok = "end" /\ Fail("unexpected_end", i)
       \/ Tok \notin {",", "end", CloserOf(kind)} /\ Fail("expected", i)

(* The value found is validated as far as value_end does; for the empty    *)
(* pointer it must be a complete document.                                 *)
Target ==
    /\ Walking("target")
    /\ LET fault == ValueFault(Tape, i, opts)
           end   == ValueEnd(Tape, i)
       IN  IF fault # "none" THEN Fail(fault, FaultAt(Tape, i, fault))
           ELSE IF ptr = <<>> /\ end < Len(Tape) THEN Fail("trailing_characters", end + 1)
           ELSE Return("ok", <<i, end>>, 0)

-----------------------------------------------------------------------------
Init ==
    /\ doc = NoDoc /\ ptr = <<>> /\ opts = Strict
    /\ i = 1 /\ level = 0 /\ kind = "array" /\ ahead = 0
    /\ match = NoMatch /\ pc = "idle" /\ outcome = "none" /\ errorAt = 0

Step == Descend \/ ObjectMember \/ ArrayElement \/ Skip \/ After \/ Target

Next == Start \/ Step \/ Collect

Spec == Init /\ [][Next]_vars
=============================================================================
