----------------------------- MODULE PointerWalk -----------------------------
(***************************************************************************)
(* The walk of one pointer as a function of where it stands, so that a     *)
(* document, a pointer and its options have one walk: what pointer_* does  *)
(* from token to token, and what the batch does for each of its queries in *)
(* between those of the others.  A walk that has returned keeps its result *)
(* and the match.                                                          *)
(***************************************************************************)
EXTENDS PointerTokens

Standing(pc, i, level, kind, ahead) ==
    [pc |-> pc, i |-> i, level |-> level, kind |-> kind, ahead |-> ahead,
     outcome |-> "walking", match |-> NoMatch]

Returned(outcome, match) ==
    [pc |-> "idle", i |-> 1, level |-> 0, kind |-> "array", ahead |-> 0,
     outcome |-> outcome, match |-> match]

Failed(error) == Returned(error, NoMatch)
Missed        == Returned("ok", NoMatch)

(* With `level` tokens used up, the value is the target or goes deeper.    *)
Aim(p, level) == IF level = Len(p) THEN "target" ELSE "descend"

(* A walk that goes on in the container it is in.                          *)
Going(s, pc, i) == Standing(pc, i, s.level, s.kind, s.ahead)

(* The value at i is the match of this level.                              *)
Matching(s, p, i) ==
    Standing(Aim(p, s.level + 1), i, s.level + 1, s.kind, s.ahead)

-----------------------------------------------------------------------------
FromDescend(s, d, p) ==
    LET t    == At(d.tokens, s.i)
        next == At(d.tokens, s.i + 1)
        raw  == p[s.level + 1]
    IN  IF t = "end" THEN Failed("unexpected_end")
        ELSE IF t = "{" /\ next # "}"
             THEN Standing("member", s.i + 1, s.level, "object", s.ahead)
        ELSE IF t = "[" /\ Index[raw] # NoIndex /\ next # "]"
             THEN Standing("element", s.i + 1, s.level, "array", Index[raw])
        ELSE Missed

FromMember(s, d, p, opts) ==
    LET t == At(d.tokens, s.i)
    IN  IF TrailingClose(d.tokens, s.i, opts, "}") THEN Missed
        ELSE IF t = "badstr" THEN Failed("scalar_error")
        ELSE IF t \notin KeyText \/ At(d.tokens, s.i + 1) # ":" THEN Failed("expected")
        ELSE IF KeyIs(d.tokens, d.names, s.i, p[s.level + 1]) THEN Matching(s, p, s.i + 2)
        ELSE Going(s, "skip", s.i + 2)

FromElement(s, p) ==
    IF s.ahead = 0 THEN Matching(s, p, s.i) ELSE Going(s, "skip", s.i)

FromSkip(s, d, opts) ==
    LET fault == ValueFault(d.tokens, s.i, opts)
    IN  IF fault = "none" THEN Going(s, "after", ValueEnd(d.tokens, s.i) + 1) ELSE Failed(fault)

FromAfter(s, d, opts) ==
    LET t == At(d.tokens, s.i)
    IN  IF t = CloserOf(s.kind) THEN Missed
        ELSE IF t = "end" THEN Failed("unexpected_end")
        ELSE IF t # "," THEN Failed("expected")
        ELSE IF s.kind = "object" THEN Going(s, "member", s.i + 1)
        ELSE IF TrailingClose(d.tokens, s.i + 1, opts, "]") THEN Missed
        ELSE Standing("element", s.i + 1, s.level, s.kind, s.ahead - 1)

FromTarget(s, d, p, opts) ==
    LET fault == ValueFault(d.tokens, s.i, opts)
        end   == ValueEnd(d.tokens, s.i)
    IN  IF fault # "none" THEN Failed(fault)
        ELSE IF p = <<>> /\ end < Len(d.tokens) THEN Failed("trailing_characters")
        ELSE Returned("ok", <<s.i, end>>)

WalkStep(s, d, p, opts) ==
    CASE s.pc = "descend" -> FromDescend(s, d, p)
      [] s.pc = "member"  -> FromMember(s, d, p, opts)
      [] s.pc = "element" -> FromElement(s, p)
      [] s.pc = "skip"    -> FromSkip(s, d, opts)
      [] s.pc = "after"   -> FromAfter(s, d, opts)
      [] s.pc = "target"  -> FromTarget(s, d, p, opts)

-----------------------------------------------------------------------------
(* `run` is the walk of `p` up to its step `last`.                         *)
IsWalk(run, last, d, p, opts) ==
    /\ run[0] = Standing(Aim(p, 0), 1, 0, "array", 0)
    /\ \A n \in 0 .. last - 1 :
          run[n].outcome = "walking" /\ run[n + 1] = WalkStep(run[n], d, p, opts)

(* The walk of `p` comes to `s`.                                           *)
Reaches(s, d, p, opts) ==
    \E last \in Nat : \E run : IsWalk(run, last, d, p, opts) /\ run[last] = s
=============================================================================
