------------------------------ MODULE SinkCalls ------------------------------
(***************************************************************************)
(* The vocabulary of a push parse: the calls of the Sink trait, what the   *)
(* sink counts of a container still open, and the events of a log of       *)
(* calls.  Nothing here has a state; FlatSink has.                         *)
(***************************************************************************)
EXTENDS Naturals, Sequences, Tokens

Top(s) == s[Len(s)]
Pop(s) == SubSeq(s, 1, Len(s) - 1)
SetTop(s, e) == [s EXCEPT ![Len(s)] = e]

(* A sequence without its `unwanted` elements.                             *)
Without(s, unwanted) ==
    LET kept[i \in 0 .. Len(s)] ==
            IF i = 0 THEN <<>>
            ELSE IF s[i] \in unwanted THEN kept[i - 1]
            ELSE Append(kept[i - 1], s[i])
    IN  kept[Len(s)]

-----------------------------------------------------------------------------
(* The calls of the Sink trait.  The eight value callbacks (null, boolean, *)
(* int, float, big_int, negative_zero, str, str_bytes) are one call        *)
(* carrying the token; key and key_bytes are one call in the same way.     *)

Call(name, what, mark, len) ==
    [call |-> name, what |-> what, mark |-> mark, len |-> len, reply |-> "ok"]

CallRecord ==
    [call: {"scalar", "key", "begin", "end", "checkpoint"}, what: Token \cup Kinds,
     mark: Nat, len: Nat, reply: {"ok", "err"}]

ScalarCall(t)            == Call("scalar", t, 0, 0)
KeyCall(t)               == Call("key", t, 0, 0)
BeginCall(kind)          == Call("begin", kind, 0, 0)
EndCall(kind, mark, len) == Call("end", kind, mark, len)
CheckpointCall(mark)     == Call("checkpoint", "array", mark, 0)

-----------------------------------------------------------------------------
(* A container the sink has open, and what a call makes of it.             *)
Container == [kind: Kinds, mark: Nat, keys: Nat, len: Nat]

OneMoreValue(c) == [c EXCEPT !.len = c.len + 1]
OneMoreKey(c)   == [c EXCEPT !.keys = c.keys + 1]

(* One more value accepted by the innermost open container, if any.        *)
WithValue(containers) ==
    IF containers = <<>> THEN <<>>
    ELSE SetTop(containers, OneMoreValue(Top(containers)))

-----------------------------------------------------------------------------
(* The calls of a log that deliver the document: all but the checkpoints.  *)
Delivered(log) == Without(log, {c \in CallRecord : c.call = "checkpoint"})

(* The last reply is that of a sink that refuses its `limit`-th event and  *)
(* nothing else (0: it refuses nothing).                                   *)
RefusesAt(log, limit) ==
    LET last == log[Len(log)]
    IN  log # <<>> =>
            (last.reply = "err" <=> last.call # "checkpoint" /\ Len(Delivered(log)) = limit)
=============================================================================
