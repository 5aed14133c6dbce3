------------------------------ MODULE FlatSink ------------------------------
(***************************************************************************)
(* The sink of a push parse: the documented flat-value-stack Sink of       *)
(* driver.rs (the Tree example), which is what `mark` and the counts of    *)
(* `end_array` / `end_object` exist for.                                   *)
(*                                                                         *)
(*   vals   the height of its value stack, which mark() returns;           *)
(*   open   what the sink itself saw of each container still open: its     *)
(*          kind, the mark taken when it began, the keys and the values it *)
(*          accepted since.  No parser reads it: it is the ground truth    *)
(*          the parser's own registers are compared with;                  *)
(*   calls  the calls received, in order, each with the sink's reply.      *)
(*                                                                         *)
(* A sink that Spills moves the accepted elements of an array out of the   *)
(* value stack at each checkpoint; one that does not ignores checkpoints,  *)
(* as the trait's default does.                                            *)
(***************************************************************************)
EXTENDS SinkCalls

CONSTANT Spills

VARIABLES open, vals, calls

sinkVars == <<open, vals, calls>>

-----------------------------------------------------------------------------
(* Types of the value stack, of the open containers and of the calls.      *)
SinkTypeOK ==
    /\ open \in Seq(Container)
    /\ vals \in Nat
    /\ calls \in Seq(CallRecord)

Opened(kind) == [kind |-> kind, mark |-> vals, keys |-> 0, len |-> 0]

(* What the host's side of a JSON text may be next.                        *)
KeyExpected ==
    /\ open # <<>>
    /\ Top(open).kind = "object"
    /\ Top(open).keys = Top(open).len

ValueExpected ==
    \/ open = <<>> /\ calls = <<>>
    \/ open # <<>> /\ Top(open).kind = "array"
    \/ open # <<>> /\ Top(open).kind = "object" /\ Top(open).keys = Top(open).len + 1

EndExpected == open # <<>> /\ (Top(open).kind = "array" \/ KeyExpected)

(* The height of the value stack up to the next open container: what is    *)
(* above its mark are the values container `i` holds.                      *)
ValuesUpTo(i) == IF i = Len(open) THEN vals ELSE open[i + 1].mark

SinkStart ==
    /\ open' = <<>>
    /\ vals' = 0
    /\ calls' = <<>>

SinkScalar(t) ==
    /\ calls' = Append(calls, ScalarCall(t))
    /\ open' = WithValue(open)
    /\ vals' = vals + 1

SinkKey(t) ==
    /\ calls' = Append(calls, KeyCall(t))
    /\ open' = SetTop(open, OneMoreKey(Top(open)))
    /\ vals' = vals

SinkBegin(kind) ==
    /\ calls' = Append(calls, BeginCall(kind))
    /\ open' = Append(open, Opened(kind))
    /\ vals' = vals

(* The children are split off at `mark` and the container pushed.          *)
SinkEnd(kind, mark, len) ==
    /\ calls' = Append(calls, EndCall(kind, mark, len))
    /\ open' = WithValue(Pop(open))
    /\ vals' = mark + 1

SinkCheckpoint(mark) ==
    /\ calls' = Append(calls, CheckpointCall(mark))
    /\ vals' = IF Spills THEN mark ELSE vals
    /\ open' = open

(* A call answered with an error: nothing is accepted.                     *)
SinkRefuses(c) ==
    /\ calls' = Append(calls, [c EXCEPT !.reply = "err"])
    /\ UNCHANGED <<open, vals>>
=============================================================================
