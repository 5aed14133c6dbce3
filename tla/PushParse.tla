------------------------------ MODULE PushParse ------------------------------
(***************************************************************************)
(* What a push parse makes of a document, whichever engine does it: the    *)
(* strict parse token by token, delivered to a sink that refuses its       *)
(* `limit`-th event (0: none) and keeps its values until their container   *)
(* ends.  A state of it is a record; ParseStep is a function of it, so     *)
(* that a document and a limit have one parse.  The engines' registers,    *)
(* frames, loops and checkpoints are not in it: that each engine makes     *)
(* this parse is what IndexedDriverProofs and FusedCursorProofs prove, and *)
(* that it undoes the writer is what TextProofs does.                      *)
(***************************************************************************)
EXTENDS SinkCalls

(* The places where a token is waited for: before the root value, in a     *)
(* container just opened, before a key, a colon, a value, a separator, and *)
(* after the root value.                                                   *)
Places == {"root", "first", "key", "colon", "value", "after", "finish"}

ParseStates ==
    [at: Places, taken: Nat, open: Seq(Container), vals: Nat, events: Seq(CallRecord),
     outcome: {"parsing", "ok", "sink_error"} \cup ParseErrors, errorAt: Nat]

Unread ==
    [at |-> "root", taken |-> 0, open |-> <<>>, vals |-> 0, events |-> <<>>,
     outcome |-> "parsing", errorAt |-> 0]

Returning(s, result, offset) == [s EXCEPT !.outcome = result, !.errorAt = offset]

Rejecting(s, error) == Returning(s, error, s.taken + 1)

Moving(s, at) == [s EXCEPT !.at = at, !.taken = s.taken + 1]

(* The event goes to the sink; accepted, it leaves the containers and the  *)
(* value stack as given.                                                   *)
Delivering(s, event, limit, at, open, vals) ==
    IF Len(s.events) + 1 = limit
    THEN [Returning(s, "sink_error", 0) EXCEPT
             !.events = Append(s.events, [event EXCEPT !.reply = "err"])]
    ELSE [Moving(s, at) EXCEPT
             !.events = Append(s.events, event), !.open = open, !.vals = vals]

(* Where the value of a container, or the root's, leaves the parse.        *)
Behind(containers) == IF containers = <<>> THEN "finish" ELSE "after"

TakeScalar(s, t, limit) ==
    Delivering(s, ScalarCall(t), limit, Behind(s.open), WithValue(s.open), s.vals + 1)

Begun(kind, mark) == [kind |-> kind, mark |-> mark, keys |-> 0, len |-> 0]

TakeOpener(s, t, limit) ==
    Delivering(s, BeginCall(KindOf(t)), limit, "first",
               Append(s.open, Begun(KindOf(t), s.vals)), s.vals)

TakeValue(s, t, limit) ==
    IF t \in Openers THEN TakeOpener(s, t, limit)
    ELSE IF t \in PlainScalars THEN TakeScalar(s, t, limit)
    ELSE Rejecting(s, ValueError(t))

KeyError(t) == IF t = "badstr" THEN "scalar_error" ELSE "expected"

TakeKey(s, t, limit) ==
    IF t \in KeyText
    THEN Delivering(s, KeyCall(t), limit, "colon",
                    SetTop(s.open, OneMoreKey(Top(s.open))), s.vals)
    ELSE Rejecting(s, KeyError(t))

TakeColon(s, t) == IF t = ":" THEN Moving(s, "value") ELSE Rejecting(s, "expected")

(* The innermost container ends: one value, at its mark.                   *)
TakeCloser(s, limit) ==
    LET c == Top(s.open)
    IN  Delivering(s, EndCall(c.kind, c.mark, c.len), limit, Behind(Pop(s.open)),
                   WithValue(Pop(s.open)), c.mark + 1)

TakeFirst(s, t, limit) ==
    IF t = CloserOf(Top(s.open).kind) THEN TakeCloser(s, limit)
    ELSE IF Top(s.open).kind = "object" THEN TakeKey(s, t, limit)
    ELSE TakeValue(s, t, limit)

TakeSeparator(s, t, limit) ==
    IF t = "," THEN Moving(s, IF Top(s.open).kind = "object" THEN "key" ELSE "value")
    ELSE IF t = CloserOf(Top(s.open).kind) THEN TakeCloser(s, limit)
    ELSE Rejecting(s, "expected")

TokenStep(s, t, limit) ==
    IF s.at \in {"root", "value"} THEN TakeValue(s, t, limit)
    ELSE IF s.at = "first" THEN TakeFirst(s, t, limit)
    ELSE IF s.at = "key" THEN TakeKey(s, t, limit)
    ELSE IF s.at = "colon" THEN TakeColon(s, t)
    ELSE TakeSeparator(s, t, limit)

ParseStep(s, doc, limit) ==
    IF s.at = "finish"
    THEN IF s.taken < Len(doc) THEN Rejecting(s, "trailing_characters") ELSE Returning(s, "ok", 0)
    ELSE IF s.taken = Len(doc) THEN Rejecting(s, "unexpected_end")
    ELSE TokenStep(s, doc[s.taken + 1], limit)

(* What an engine shows of the state of its parse: the containers and the  *)
(* value stack of its sink while it runs, its result when it has returned, *)
(* and always the events its calls delivered.                              *)
IsState(s, at, taken, open, vals, log, outcome, errorAt) ==
    /\ s \in ParseStates
    /\ s.events = Delivered(log)
    /\ s.outcome = outcome
    /\ outcome = "parsing" => s.at = at /\ s.taken = taken /\ s.open = open /\ s.vals = vals
    /\ outcome # "parsing" => s.errorAt = errorAt

(* `run` is the parse of the document up to its step `last`.               *)
IsParse(run, last, doc, limit) ==
    /\ run \in [0 .. last -> ParseStates]
    /\ run[0] = Unread
    /\ \A i \in 0 .. last - 1 :
          run[i].outcome = "parsing" /\ run[i + 1] = ParseStep(run[i], doc, limit)
=============================================================================
