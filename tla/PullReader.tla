----------------------------- MODULE PullReader -----------------------------
(***************************************************************************)
(* reader.rs: the pull reader, driven by a host that calls what the        *)
(* methods' documentation allows: at a value, next_node or skip_value; at  *)
(* the start of a container container_len, then object_first_key or        *)
(* array_first; after a member object_next_key or array_next; after the    *)
(* root value finish.  `pos` counts the index entries taken.  The reader   *)
(* keeps no stack: the containers `open`, with the members counted and the *)
(* length container_len promised, are the host's.                          *)
(*                                                                         *)
(* One action per method.  A definition named Slip_X is X with a plausible *)
(* bug in it; no other definition uses it.                                 *)
(***************************************************************************)
EXTENDS Integers, FiniteSets, Sequences, SequencesExt, Tokens

CONSTANTS Docs,     \* the documents read: sequences of tokens
          Options   \* the ParseOptions the readers are made with

ASSUME DocsAssumption == Docs \subseteq Seq(Token)
ASSUME OptionsAssumption ==
    Options \subseteq [allow_nan: BOOLEAN, allow_trailing_comma: BOOLEAN]

VARIABLES doc, opts, pos, open, pc, outcome, errorAt,
          got       \* what the host received: the tokens each answer covers

vars == <<doc, opts, pos, open, pc, outcome, errorAt, got>>

Strict == [allow_nan |-> FALSE, allow_trailing_comma |-> FALSE]

NoHint == -1

Container == [kind: Kinds, len: Nat, hint: Nat \cup {NoHint}]
Answer    == [what: {"node", "key", "close", "skip"}, from: Nat, to: Nat]

Running(at) == outcome = "parsing" /\ pc = at

(* take_tok and peek_tok: the next index entry, when there is one.         *)
Taking(at) == Running(at) /\ pos < Len(doc)
Tok == doc[pos + 1]

(* The `k`-th index entry, or the lack of one.                             *)
At(k) == IF k <= Len(doc) THEN doc[k] ELSE "end"

In(kind) == open # <<>> /\ Last(open).kind = kind

-----------------------------------------------------------------------------
(* A call that fails, at the entry named, having taken `taken` entries.    *)
Fail(error, at, taken) ==
    /\ outcome' = error /\ errorAt' = at
    /\ pos' = taken
    /\ pc' = "idle"
    /\ UNCHANGED <<doc, opts, open, got>>

(* A call that answers with the entries from..to; the host then waits at   *)
(* `next`.                                                                 *)
Answers(what, from, to, next) ==
    /\ got' = Append(got, [what |-> what, from |-> from, to |-> to])
    /\ pos' = to
    /\ pc' = next
    /\ UNCHANGED <<doc, opts, outcome, errorAt>>

OneMore(containers) ==
    IF containers = <<>> THEN <<>>
    ELSE [containers EXCEPT ![Len(containers)].len = Last(containers).len + 1]

AfterValue(containers) == IF containers = <<>> THEN "end" ELSE "next"

(* A whole value, of the entries from..to.                                 *)
Value(what, from, to) ==
    /\ Answers(what, from, to, AfterValue(open))
    /\ open' = OneMore(open)

(* None or false: the closer is entry `k`.                                 *)
Close(k) ==
    /\ Answers("close", k, k, AfterValue(Front(open)))
    /\ open' = OneMore(Front(open))

-----------------------------------------------------------------------------
Start ==
    /\ outcome = "none"
    /\ doc' \in Docs
    /\ opts' \in Options
    /\ pc' = "value"
    /\ outcome' = "parsing"
    /\ UNCHANGED <<pos, open, errorAt, got>>

(* The host is done with the result and the reader.                        *)
Collect ==
    /\ outcome \notin {"none", "parsing"}
    /\ doc' = <<>> /\ opts' = Strict /\ pos' = 0
    /\ open' = <<>> /\ got' = <<>>
    /\ outcome' = "none" /\ errorAt' = 0
    /\ UNCHANGED pc

(* Any call but finish, with the index exhausted.                          *)
UnexpectedEnd ==
    /\ outcome = "parsing" /\ pc # "end"
    /\ pos = Len(doc)
    /\ Fail("unexpected_end", pos + 1, pos)

(* Node::Str is a &str: a lone surrogate is an error of the pull API only. *)
NodeError(t) == IF t = "wtf8" THEN "scalar_error" ELSE ValueError(t)

NextNode ==
    /\ Taking("value")
    /\ \/ /\ Tok \in Openers
          /\ Answers("node", pos + 1, pos + 1, "first")
          /\ open' = Append(open, [kind |-> KindOf(Tok), len |-> 0, hint |-> NoHint])
       \/ Tok \in Accepted(opts.allow_nan) \ {"wtf8"} /\ Value("node", pos + 1, pos + 1)
       \/ /\ Tok \notin Openers \cup (Accepted(opts.allow_nan) \ {"wtf8"})
          /\ Fail(NodeError(Tok), pos + 1, pos + 1)

(* read_key, the quote being entry `k`: the colon is taken before the key  *)
(* is decoded.                                                             *)
ReadKey(k) ==
    \/ At(k + 1) = "end" /\ Fail("unexpected_end", k + 1, k)
    \/ At(k + 1) \notin {"end", ":"} /\ Fail("expected", k + 1, k + 1)
    \/ At(k + 1) = ":" /\ At(k) # "str" /\ Fail("scalar_error", k, k + 1)
    \/ /\ At(k + 1) = ":" /\ At(k) = "str"
       /\ Answers("key", k, k + 1, "value")
       /\ UNCHANGED open

ObjectFirstKey ==
    /\ Taking("first") /\ In("object")
    /\ \/ Tok = "}" /\ Close(pos + 1)
       \/ Tok \in Quoted /\ ReadKey(pos + 1)
       \/ Tok \notin Quoted \cup {"}"} /\ Fail("expected", pos + 1, pos + 1)

Slip_KeyAfterComma(k) ==  \* a trailing comma always allowed
    \/ At(k) = "end" /\ Fail("unexpected_end", k, k - 1)
    \/ At(k) \in Quoted /\ ReadKey(k)
    \/ At(k) = "}" /\ Close(k)
    \/ At(k) \notin Quoted \cup {"end", "}"} /\ Fail("expected", k, k)

KeyAfterComma(k) ==
    \/ At(k) = "end" /\ Fail("unexpected_end", k, k - 1)
    \/ At(k) \in Quoted /\ ReadKey(k)
    \/ At(k) = "}" /\ opts.allow_trailing_comma /\ Close(k)
    \/ /\ At(k) \notin Quoted \cup {"end"}
       /\ ~ (At(k) = "}" /\ opts.allow_trailing_comma)
       /\ Fail("expected", k, k)

ObjectNextKey ==
    /\ Taking("next") /\ In("object")
    /\ \/ Tok = "}" /\ Close(pos + 1)
       \/ Tok = "," /\ KeyAfterComma(pos + 2)
       \/ Tok \notin {"}", ","} /\ Fail("expected", pos + 1, pos + 1)

Slip_ArrayFirst ==  \* take_tok for peek_tok
    /\ Taking("first") /\ In("array")
    /\ \/ Tok = "]" /\ Close(pos + 1)
       \/ /\ Tok # "]"
          /\ pos' = pos + 1 /\ pc' = "value"
          /\ UNCHANGED <<doc, opts, open, outcome, errorAt, got>>

(* array_first peeks: only the closer is taken.                            *)
ArrayFirst ==
    /\ Taking("first") /\ In("array")
    /\ \/ Tok = "]" /\ Close(pos + 1)
       \/ /\ Tok # "]"
          /\ pc' = "value"
          /\ UNCHANGED <<doc, opts, pos, open, outcome, errorAt, got>>

Stuck_ElementAfterComma ==  \* the comma not taken
    /\ pc' = pc
    /\ UNCHANGED <<doc, opts, pos, open, outcome, errorAt, got>>

ElementAfterComma ==
    IF opts.allow_trailing_comma /\ At(pos + 2) = "]" THEN Close(pos + 2)
    ELSE /\ pos' = pos + 1
         /\ pc' = "value"
         /\ UNCHANGED <<doc, opts, open, outcome, errorAt, got>>

ArrayNext ==
    /\ Taking("next") /\ In("array")
    /\ \/ Tok = "]" /\ Close(pos + 1)
       \/ Tok = "," /\ ElementAfterComma
       \/ Tok \notin {"]", ","} /\ Fail("expected", pos + 1, pos + 1)

-----------------------------------------------------------------------------
(* Walks over the index of `d` that count brackets and match no kinds.     *)
(* `from` is the first entry inside a container.                           *)

Depth(d, from, i) ==
    1 + Cardinality({j \in from .. i : d[j] \in Openers})
      - Cardinality({j \in from .. i : d[j] \in Closers})

Slip_EndsOf(d, from) == {i \in from .. Len(d) : d[i] \in Closers}  \* no depth
EndsOf(d, from) == {i \in from .. Len(d) : Depth(d, from, i) = 0}

(* The commas between the members of that container, up to entry `to`.     *)
Commas(d, from, to) == {i \in from .. to : d[i] = "," /\ Depth(d, from, i) = 1}

First(S) == CHOOSE i \in S : \A j \in S : i <= j

(* The entries skip_container stops at: the ones whose first byte starts   *)
(* no token of the grammar in force.  Under allow_nan an N or an I is      *)
(* stepped over whatever follows it: such junk may or may not be there.    *)
StopSets == IF opts.allow_nan THEN {{"junk"}, {}} ELSE {{"junk", "nan"}}

(* Skipping stops at its closer, at an entry that cannot be, or at the end *)
(* of the index, whichever comes first.                                    *)
SkipContainer(from, stops) ==
    LET ends == EndsOf(doc, from)
        bad  == {i \in from .. Len(doc) : doc[i] \in stops}
    IN  IF ends \cup bad = {} THEN Fail("unexpected_end", Len(doc) + 1, Len(doc))
        ELSE LET k == First(ends \cup bad)
             IN  IF k \in ends THEN Value("skip", from - 1, k)
                               ELSE Fail("unexpected_character", k, k)

(* A scalar is validated by its tokenizer; what a lone surrogate decodes   *)
(* to is not looked at.                                                    *)
SkipValue ==
    /\ Taking("value")
    /\ \/ Tok \in Openers /\ \E stops \in StopSets : SkipContainer(pos + 2, stops)
       \/ Tok \in Accepted(opts.allow_nan) /\ Value("skip", pos + 1, pos + 1)
       \/ /\ Tok \notin Openers \cup Accepted(opts.allow_nan)
          /\ Fail(ValueError(Tok), pos + 1, pos + 1)

Slip_Members(d, from) ==  \* the trailing comma taken for another member
    LET ends == EndsOf(d, from)
        last == IF ends = {} THEN Len(d) ELSE First(ends)
    IN  IF from > Len(d) \/ d[from] \in Closers THEN 0
        ELSE Cardinality(Commas(d, from, last)) + 1

(* What container_len counts from there: one more than the commas at the   *)
(* top level, less one for a comma right before the closer.                *)
Members(d, from) ==
    LET ends     == EndsOf(d, from)
        last     == IF ends = {} THEN Len(d) ELSE First(ends)
        trailing == IF ends # {} /\ d[last - 1] = "," THEN 1 ELSE 0
    IN  IF from > Len(d) \/ d[from] \in Closers THEN 0
        ELSE Cardinality(Commas(d, from, last)) - trailing + 1

(* The host sizes its container before it walks it.                        *)
ContainerLen ==
    /\ Running("first")
    /\ Last(open).hint = NoHint
    /\ open' = [open EXCEPT ![Len(open)].hint = Members(doc, pos + 1)]
    /\ UNCHANGED <<doc, opts, pos, pc, outcome, errorAt, got>>

Finish ==
    /\ Running("end")
    /\ outcome' = IF pos < Len(doc) THEN "trailing_characters" ELSE "ok"
    /\ errorAt' = IF pos < Len(doc) THEN pos + 1 ELSE 0
    /\ pc' = "idle"
    /\ UNCHANGED <<doc, opts, pos, open, got>>

-----------------------------------------------------------------------------
Init ==
    /\ doc = <<>> /\ opts = Strict /\ pos = 0
    /\ open = <<>> /\ got = <<>>
    /\ pc = "idle"
    /\ outcome = "none" /\ errorAt = 0

Step ==
    \/ UnexpectedEnd
    \/ NextNode \/ SkipValue \/ ContainerLen
    \/ ObjectFirstKey \/ ObjectNextKey
    \/ ArrayFirst \/ ArrayNext
    \/ Finish

Next == Start \/ Step \/ Collect

Spec == Init /\ [][Next]_vars

(* A host that keeps calling until it has a result.                        *)
FairSpec == Spec /\ WF_vars(Step)

-----------------------------------------------------------------------------
(* Types of the reader's state and of the host's record.                   *)
TypeOK ==
    /\ doc \in Seq(Token)
    /\ opts \in [allow_nan: BOOLEAN, allow_trailing_comma: BOOLEAN]
    /\ pos \in 0 .. Len(doc)
    /\ open \in Seq(Container)
    /\ got \in Seq(Answer)
    /\ pc \in {"idle", "value", "first", "next", "end"}
    /\ pc \in {"first", "next"} => open # <<>>
    /\ outcome \in {"none", "parsing", "ok"} \cup ParseErrors
    /\ errorAt \in Nat

(* The entries after `s`, the opener of a container, up to `to`: they never *)
(* leave it, are at this depth in the end (1: in it and in no container in *)
(* it), and have this many of the commas between its members.              *)
Inside(d, s, to, depth, commas) ==
    /\ \A i \in s + 1 .. to : Depth(d, s + 1, i) >= 1
    /\ Depth(d, s + 1, to) = depth
    /\ Cardinality(Commas(d, s + 1, to)) = commas

(* A walk that took the entries up to `to`, waits at `at`, and is in the   *)
(* containers begun at `starts`: it met every comma between their members; *)
(* of the innermost one it looked at nothing yet, or it is right after a   *)
(* member and not after a comma.                                           *)
WalkedTo(d, to, at, containers, starts) ==
    /\ \A k \in 1 .. Len(containers) :
          LET between == IF at = "next" /\ k = Len(containers) THEN 1 ELSE 0
          IN  /\ Inside(d, starts[k], to, Len(containers) - k + 1,
                        containers[k].len - between)
              /\ containers[k].hint \in {NoHint, Members(d, starts[k] + 1)}
    /\ at = "first" => starts[Len(containers)] = to
    /\ at = "next" => starts[Len(containers)] < to /\ d[to] # ","

(* Every open container began at some entry, and it is so of the walk; a   *)
(* reader not yet made has walked nothing, and no call awaits one that     *)
(* gave its result.                                                        *)
WalkInv ==
    /\ outcome # "parsing" => pc = "idle"
    /\ outcome = "none" => open = <<>> /\ pos = 0
    /\ outcome = "parsing" =>
          \E starts \in [1 .. Len(open) -> 1 .. pos] : WalkedTo(doc, pos, pc, open, starts)

(* What every step of a reader and its host keeps.                         *)
RInv == TypeOK /\ WalkInv

(* "Number of members in the container just opened" (reader.rs 492): when  *)
(* a walk reaches the end of a container, however much of it was skipped   *)
(* and whatever comes after, it has met the members container_len          *)
(* promised, a trailing comma not taken for one.                           *)
HintExact ==
    [][Len(open') < Len(open) /\ outcome' = "parsing" =>
           Last(open).hint \in {NoHint, Last(open).len}]_vars

(* Every walk and every mixture of walking and skipping comes to an end.   *)
Returns == (outcome = "parsing") ~> (outcome # "parsing")
=============================================================================
