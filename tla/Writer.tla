------------------------------- MODULE Writer -------------------------------
(***************************************************************************)
(* writer.rs: the streaming push writer.  Its whole knowledge of the       *)
(* grammar is three registers: depth, first and after_key.  The host that  *)
(* drives it keeps the record of FlatSink (open, vals, calls): the writer  *)
(* is the dual of a sink, and the host makes the calls a sink receives.    *)
(*                                                                         *)
(* `out` is the sequence of the tokens and layout strings written.  The    *)
(* layout fields of WriteOptions are user-supplied whitespace; `cfg` is    *)
(* the set of the ones that are not empty.                                 *)
(*                                                                         *)
(* The writer validates nothing: the host may also make calls that are not *)
(* legal, after which the text is its own affair.                          *)
(*                                                                         *)
(* A definition named Slip_X is X with a plausible bug in it; no other     *)
(* definition uses it.                                                     *)
(***************************************************************************)
EXTENDS FlatSink

CONSTANTS Layouts,      \* the layouts hosts write with: sets of layout fields
          Texts,        \* the scalars they write
          MaxCalls,     \* bound on the calls of one host
          MaxMisuses    \* bound on the calls that are not legal

LayoutFields == {"indent", "space", "space_before", "object_nl", "array_nl"}

Pieces == Token \cup LayoutFields

ASSUME LayoutsAssumption == Layouts \subseteq SUBSET LayoutFields
(* A &str holds no lone surrogate; what value_raw splices in is a number.  *)
ASSUME TextsAssumption == Texts \subseteq {"str", "num", "lit"}

VARIABLES cfg, out, depth, first, after_key,
          misuses,      \* illegal calls made so far
          caught        \* whether the host has caught a panic of float()

writerVars == <<cfg, out, depth, first, after_key>>
vars == <<cfg, out, depth, first, after_key, misuses, caught, open, vals, calls>>

-----------------------------------------------------------------------------
(* Layout.  A compact writer skips every layout write.                     *)

Compact == cfg = {}
Field(name) == IF name \in cfg /\ ~ Compact THEN <<name>> ELSE <<>>
Indent(levels) ==
    IF "indent" \in cfg /\ ~ Compact THEN [i \in 1 .. levels |-> "indent"] ELSE <<>>
Comma == IF first THEN <<>> ELSE <<",">>

(* value_prefix: what is owed before a value.  After a key nothing is, and *)
(* `first` stays as the key left it.                                       *)
ValuePrefix ==
    IF after_key \/ depth = 0 THEN <<>>
    ELSE Comma \o Field("array_nl") \o Indent(depth)

FirstAfterPrefix == IF after_key THEN first ELSE FALSE

KeyPrefix == Comma \o Field("object_nl") \o Indent(depth)
KeySuffix == Field("space_before") \o <<":">> \o Field("space")

(* null, boolean, int, float, str and value_raw.                           *)
WriteScalar(t) ==
    /\ out' = out \o ValuePrefix \o <<t>>
    /\ first' = FirstAfterPrefix
    /\ after_key' = FALSE
    /\ UNCHANGED <<cfg, depth>>

WriteKey(t) ==
    /\ out' = out \o KeyPrefix \o <<t>> \o KeySuffix
    /\ first' = FALSE
    /\ after_key' = TRUE
    /\ UNCHANGED <<cfg, depth>>

Opener(kind) == IF kind = "object" THEN "{" ELSE "["

WriteBegin(kind) ==
    /\ out' = out \o ValuePrefix \o <<Opener(kind)>>
    /\ depth' = depth + 1
    /\ first' = TRUE
    /\ after_key' = FALSE
    /\ UNCHANGED cfg

(* saturating_sub(1).                                                      *)
Outer == IF depth = 0 THEN 0 ELSE depth - 1

Newline(kind) == IF kind = "array" THEN "array_nl" ELSE "object_nl"

Slip_BeforeCloser(kind) ==  \* the indentation of the members
    IF first \/ Newline(kind) \notin cfg THEN <<>>
    ELSE Field(Newline(kind)) \o Indent(depth)

(* The layout before the closer of a container that has members; without a *)
(* newline configured it is not indented either.                           *)
BeforeCloser(kind) ==
    IF first \/ Newline(kind) \notin cfg THEN <<>>
    ELSE Field(Newline(kind)) \o Indent(Outer)

Slip_WriteEnd(kind) ==  \* `first` left as the child had it
    /\ out' = out \o BeforeCloser(kind) \o <<CloserOf(kind)>>
    /\ depth' = Outer
    /\ UNCHANGED <<cfg, first, after_key>>

WriteEnd(kind) ==
    /\ out' = out \o BeforeCloser(kind) \o <<CloserOf(kind)>>
    /\ depth' = Outer
    /\ first' = FALSE
    /\ UNCHANGED <<cfg, after_key>>

-----------------------------------------------------------------------------
(* The host.                                                               *)

Legal == misuses = 0
MayCall == Len(calls) < MaxCalls
LegalCall == Legal /\ MayCall /\ UNCHANGED <<misuses, caught>>

Scalar(t) == LegalCall /\ ValueExpected /\ SinkScalar(t) /\ WriteScalar(t)
Key(t)    == LegalCall /\ KeyExpected /\ SinkKey(t) /\ WriteKey(t)
Begin(k)  == LegalCall /\ ValueExpected /\ SinkBegin(k) /\ WriteBegin(k)
End ==
    /\ LegalCall /\ EndExpected
    /\ LET c == Top(open) IN SinkEnd(c.kind, c.mark, c.len) /\ WriteEnd(c.kind)

Slip_FloatPanics ==  \* the prefix written before the assertion
    /\ Legal /\ ValueExpected /\ ~ caught
    /\ caught' = TRUE
    /\ out' = out \o ValuePrefix
    /\ first' = FirstAfterPrefix
    /\ after_key' = FALSE
    /\ UNCHANGED <<cfg, depth, misuses, sinkVars>>

(* float() asserts that its argument is finite before it writes anything;  *)
(* a host that catches the panic goes on with another value.               *)
FloatPanics ==
    /\ Legal /\ ValueExpected /\ ~ caught
    /\ caught' = TRUE
    /\ UNCHANGED <<writerVars, misuses, sinkVars>>

(* A call that is not legal, or any call after one.                        *)
Misuse ==
    /\ misuses < MaxMisuses
    /\ misuses' = misuses + 1
    /\ UNCHANGED <<sinkVars, caught>>
    /\ \/ ~ (Legal /\ ValueExpected) /\ \E t \in Texts : WriteScalar(t)
       \/ ~ (Legal /\ ValueExpected) /\ \E k \in Kinds : WriteBegin(k)
       \/ ~ (Legal /\ KeyExpected) /\ WriteKey("str")
       \/ \E k \in Kinds :
             /\ ~ (Legal /\ EndExpected /\ Top(open).kind = k)
             /\ WriteEnd(k)

(* The host is done with its writer and starts another.                    *)
NewWriter ==
    /\ calls # <<>> \/ ~ Legal
    /\ cfg' \in Layouts
    /\ out' = <<>> /\ depth' = 0 /\ first' = TRUE /\ after_key' = FALSE
    /\ misuses' = 0 /\ caught' = FALSE
    /\ SinkStart

Init ==
    /\ cfg \in Layouts
    /\ out = <<>> /\ depth = 0 /\ first = TRUE /\ after_key = FALSE
    /\ misuses = 0 /\ caught = FALSE
    /\ open = <<>> /\ vals = 0 /\ calls = <<>>

Next ==
    \/ \E t \in Texts : Scalar(t) \/ Key("str")
    \/ \E k \in Kinds : Begin(k)
    \/ End
    \/ FloatPanics
    \/ Misuse
    \/ NewWriter

Spec == Init /\ [][Next]_vars

-----------------------------------------------------------------------------
(* Types; the depth of a writer driven past the root's end is not below 0. *)
TypeOK ==
    /\ cfg \in Layouts
    /\ out \in Seq(Pieces)
    /\ depth \in Nat
    /\ first \in BOOLEAN /\ after_key \in BOOLEAN
    /\ misuses \in Nat /\ caught \in BOOLEAN
    /\ SinkTypeOK

(* The three registers are the grammar state of the host's nesting: depth  *)
(* "Hosts enforcing a nesting limit check this at begin_* time", first     *)
(* "while the current container has no members yet (and at the root before *)
(* the first value)", after_key "between a key() and its value" (writer.rs *)
(* 127-139, 180-184).  A child's end must leave them as its parent needs.  *)
RegistersMatchNesting ==
    Legal =>
        /\ depth = Len(open)
        /\ after_key <=> open # <<>> /\ Top(open).keys > Top(open).len
        /\ first <=> IF open = <<>> THEN calls = <<>>
                                    ELSE Top(open).keys = 0 /\ Top(open).len = 0

(* What makes it inductive: in an object at most one key is ahead of the   *)
(* values, and below the innermost container a key waits for its value     *)
(* wherever the container is an object; an array has no keys.              *)
HostRecord ==
    Legal =>
        /\ open # <<>> => calls # <<>>
        /\ \A i \in DOMAIN open :
              /\ open[i].kind = "array" => open[i].keys = 0
              /\ open[i].kind = "object" /\ i < Len(open) => open[i].keys = open[i].len + 1
              /\ open[i].kind = "object" => open[i].keys \in {open[i].len, open[i].len + 1}

WInv == TypeOK /\ RegistersMatchNesting /\ HostRecord

TokensOf(text) == Without(text, LayoutFields)
Complete == Legal /\ open = <<>> /\ calls # <<>>
=============================================================================
