---------------------------- MODULE SinkProtocol ----------------------------
(***************************************************************************)
(* What a push parse promises its Sink, whatever the document and the      *)
(* engine: the order in which the calls may come and what their arguments  *)
(* are.  Both push engines are shown to implement it.                      *)
(***************************************************************************)
EXTENDS FlatSink

VARIABLE outcome

protocolVars == <<open, vals, calls, outcome>>

(* A checkpoint comes only in an array, and only when the sink holds       *)
(* accepted elements of it to spill.                                       *)
CheckpointExpected ==
    open # <<>> /\ Top(open).kind = "array" /\ Top(open).mark < vals

-----------------------------------------------------------------------------
Init ==
    /\ open = <<>>
    /\ vals = 0
    /\ calls = <<>>
    /\ outcome = "none"

Start ==
    /\ outcome = "none"
    /\ outcome' = "parsing"
    /\ UNCHANGED sinkVars

(* The result has been used; a new parse gets a new sink.                  *)
Collect ==
    /\ outcome \notin {"none", "parsing"}
    /\ outcome' = "none"
    /\ SinkStart

(* A call the sink accepts goes on with the parse; one it refuses is the   *)
(* last one of the parse.                                                  *)
Answered(accepted, c) ==
    /\ outcome = "parsing"
    /\ \/ accepted /\ outcome' = "parsing"
       \/ SinkRefuses(c) /\ outcome' = "sink_error"

Key(t)     == KeyExpected /\ Answered(SinkKey(t), KeyCall(t))
Scalar(t)  == ValueExpected /\ Answered(SinkScalar(t), ScalarCall(t))
Begin(k)   == ValueExpected /\ Answered(SinkBegin(k), BeginCall(k))
Checkpoint ==
    /\ CheckpointExpected
    /\ Answered(SinkCheckpoint(Top(open).mark), CheckpointCall(Top(open).mark))
End ==
    /\ EndExpected
    /\ LET c == Top(open)
       IN  Answered(SinkEnd(c.kind, c.mark, c.len), EndCall(c.kind, c.mark, c.len))

(* The parse succeeds only once exactly one value has been delivered in    *)
(* full; it may fail on the document at any point.                         *)
Accept ==
    /\ outcome = "parsing"
    /\ open = <<>> /\ calls # <<>>
    /\ outcome' = "ok"
    /\ UNCHANGED sinkVars

Reject ==
    /\ outcome = "parsing"
    /\ outcome' \in ParseErrors
    /\ UNCHANGED sinkVars

Next ==
    \/ Start
    \/ Collect
    \/ \E t \in KeyText : Key(t)
    \/ \E t \in Scalars : Scalar(t)
    \/ \E k \in Kinds : Begin(k)
    \/ Checkpoint
    \/ End
    \/ Accept
    \/ Reject

Spec == Init /\ [][Next]_protocolVars
=============================================================================
