---------------------------- MODULE PointerBatch ----------------------------
(***************************************************************************)
(* pointers_*: many pointers resolved in one forward walk (pointer.rs      *)
(* 285-592).  The recursion of resolve_set, walk_object and walk_array is  *)
(* a stack of frames, one per container walked; a query at n frames has    *)
(* used up n of its tokens, so a query is its slot in the results.         *)
(* `remaining` counts the queries without a result; when it comes to 0 the *)
(* recursion unwinds, one walk after the other.                            *)
(*                                                                         *)
(* A definition named Slip_X is X with a plausible bug in it; no other     *)
(* definition uses it.                                                     *)
(***************************************************************************)
EXTENDS PointerTokens

CONSTANTS Docs,     \* the documents: [tokens, names]
          Batches,  \* the sequences of pointers resolved together
          Options   \* the ParseOptions

ASSUME DocsAssumption == \A d \in Docs : d.tokens \in Seq(Token)
ASSUME BatchesAssumption ==
    \A b \in Batches : b \in Seq(Seq(RawTokens) \cup {Malformed})
ASSUME OptionsAssumption ==
    Options \subseteq [allow_nan: BOOLEAN, allow_trailing_comma: BOOLEAN]

VARIABLES doc, ptrs, opts,
          i,            \* the next token
          frames,       \* the containers being walked, innermost last
          queries,      \* the queries for the value at i
          results, remaining,
          pc, outcome, errorAt

vars == <<doc, ptrs, opts, i, frames, queries, results, remaining, pc, outcome, errorAt>>

inputs == <<doc, ptrs, opts>>
answers == <<results, remaining>>

NoDoc  == [tokens |-> <<>>, names |-> <<>>]
Strict == [allow_nan |-> FALSE, allow_trailing_comma |-> FALSE]

Tape    == doc.tokens
Tok     == At(doc.tokens, i)
Level   == Len(frames)
Top     == frames[Len(frames)]
Ids     == DOMAIN ptrs

Walking(at) == outcome = "walking" /\ pc = at
Inside(kind) == frames # <<>> /\ Top.kind = kind

(* The token of query `q` for a container at `level`.                      *)
TokenAt(q, level) == ptrs[q][level]
Ending(qs, level) == {q \in qs : Len(ptrs[q]) = level}
Deeper(qs, level) == {q \in qs : Len(ptrs[q]) > level}

-----------------------------------------------------------------------------
Fail(error, at) ==
    /\ outcome' = error /\ errorAt' = at
    /\ pc' = "idle"
    /\ UNCHANGED <<inputs, i, frames, queries, answers>>

(* The value from..to is behind: the queries that end at it are answered.  *)
(* None from resolve_set is the abort signal; a member nobody asked for    *)
(* answers nothing, and the signal cannot come of it.                      *)
Settle(stack, qs, from, to) ==
    LET here == Ending(qs, Len(stack))
        left == remaining - Cardinality(here)
    IN  /\ results' = [q \in Ids |-> IF q \in here THEN <<from, to>> ELSE results[q]]
        /\ remaining' = left
        /\ queries' = {}
        /\ i' = to + 1
        /\ frames' = stack
        /\ pc' = IF stack = <<>> THEN "done" ELSE IF left = 0 THEN "unwind" ELSE "after"
        /\ UNCHANGED <<inputs, outcome, errorAt>>

Start ==
    /\ outcome = "none"
    /\ doc' \in Docs /\ ptrs' \in Batches /\ opts' \in Options
    /\ i' = 1
    /\ frames' = <<>>
    /\ queries' = DOMAIN ptrs'
    /\ results' = [q \in DOMAIN ptrs' |-> NoMatch]
    /\ remaining' = Len(ptrs')
    /\ IF \E q \in DOMAIN ptrs' : ptrs'[q] = Malformed
       THEN outcome' = "invalid_pointer" /\ pc' = "idle"
       ELSE outcome' = "walking" /\ pc' = "value"
    /\ errorAt' = 0

(* The host is done with the results.                                      *)
Collect ==
    /\ outcome \notin {"none", "walking"}
    /\ doc' = NoDoc /\ ptrs' = <<>> /\ opts' = Strict
    /\ i' = 1 /\ frames' = <<>> /\ queries' = {} /\ results' = <<>> /\ remaining' = 0
    /\ pc' = "idle" /\ outcome' = "none" /\ errorAt' = 0

-----------------------------------------------------------------------------
(* resolve_set at a value.                                                 *)

Descends == Tok \in Openers /\ Deeper(queries, Level) # {}

WalkInto ==
    /\ Walking("value") /\ Descends
    /\ frames' = Append(frames, [kind |-> KindOf(Tok), at |-> i, queries |-> queries,
                                 live |-> Deeper(queries, Level), element |-> 0])
    /\ i' = i + 1
    /\ queries' = {}
    /\ pc' = "first"
    /\ UNCHANGED <<inputs, answers, outcome, errorAt>>

(* A scalar, or a container no query goes into.                            *)
StepOver ==
    /\ Walking("value") /\ ~ Descends
    /\ LET fault == ValueFault(Tape, i, opts)
       IN  IF fault = "none" THEN Settle(frames, queries, i, ValueEnd(Tape, i))
                             ELSE Fail(fault, FaultAt(Tape, i, fault))

Outer == SubSeq(frames, 1, Level - 1)

EndContainer(to) == Settle(Outer, Top.queries, Top.at, to)

(* The value of a member comes next, for the queries it is wanted by.      *)
Visit(at, wanted, live, element) ==
    /\ frames' = [frames EXCEPT ![Level] = [Top EXCEPT !.live = live, !.element = element]]
    /\ queries' = wanted
    /\ i' = at
    /\ pc' = "value"
    /\ UNCHANGED <<inputs, answers, outcome, errorAt>>

-----------------------------------------------------------------------------
(* walk_object.                                                            *)

Slip_Member ==  \* a query not consumed by the first key that matches
    LET wanted == {q \in Top.live : KeyIs(Tape, doc.names, i, TokenAt(q, Level))}
    IN  Visit(i + 2, wanted, Top.live, 0)

(* First match wins, hit or miss: the key consumes its queries.            *)
Member ==
    LET wanted == {q \in Top.live : KeyIs(Tape, doc.names, i, TokenAt(q, Level))}
    IN  Visit(i + 2, wanted, Top.live \ wanted, 0)

ObjectMember ==
    /\ (Walking("first") \/ Walking("member")) /\ Inside("object")
    /\ \/ pc = "first" /\ Tok = "}" /\ EndContainer(i)
       \/ pc = "member" /\ TrailingClose(Tape, i, opts, "}") /\ EndContainer(i)
       \/ /\ Tok \notin Quoted
          /\ ~ (pc = "first" /\ Tok = "}")
          /\ ~ (pc = "member" /\ TrailingClose(Tape, i, opts, "}"))
          /\ Fail("expected", i)
       \/ Tok = "badstr" /\ Fail("scalar_error", i)
       \/ Tok \in KeyText /\ At(Tape, i + 1) # ":" /\ Fail("expected", i + 1)
       \/ Tok \in KeyText /\ At(Tape, i + 1) = ":" /\ Member

-----------------------------------------------------------------------------
(* walk_array.  Past the largest index wanted the code steps over the rest *)
(* in a loop of its own, the same walk with nothing wanted.                *)

Wanted(element) == {q \in Top.live : Index[TokenAt(q, Level)] = element}

ArrayFirst ==
    /\ Walking("first") /\ Inside("array")
    /\ IF Tok = "]" THEN EndContainer(i) ELSE Visit(i, Wanted(0), Top.live, 0)

ArrayNext == Visit(i + 1, Wanted(Top.element + 1), Top.live, Top.element + 1)

-----------------------------------------------------------------------------
(* After a member.                                                         *)

NextMember ==
    /\ pc' = "member" /\ i' = i + 1
    /\ UNCHANGED <<inputs, frames, queries, answers, outcome, errorAt>>

After ==
    /\ Walking("after")
    /\ LET closer == CloserOf(Top.kind)
       IN  \/ Tok = closer /\ EndContainer(i)
           \/ Tok = "," /\ Top.kind = "object" /\ NextMember
           \/ /\ Tok = "," /\ Top.kind = "array"
              /\ IF TrailingClose(Tape, i + 1, opts, "]") THEN EndContainer(i + 1) ELSE ArrayNext
           \/ Tok = "end" /\ Fail("unexpected_end", i)
           \/ Tok \notin {closer, ",", "end"} /\ Fail("expected", i)

Slip_Unwind ==  \* the signal lost on its way out: the next walk goes on
    /\ Walking("unwind")
    /\ frames' = Outer
    /\ pc' = IF Outer = <<>> THEN "done" ELSE "after"
    /\ UNCHANGED <<inputs, i, queries, answers, outcome, errorAt>>

(* The signal reaches the innermost walk, which returns it: neither its    *)
(* members nor the queries that end at its container are looked at again.  *)
Unwind ==
    /\ Walking("unwind")
    /\ frames' = Outer
    /\ pc' = IF Outer = <<>> THEN "done" ELSE "unwind"
    /\ UNCHANGED <<inputs, i, queries, answers, outcome, errorAt>>

(* The walk has returned.  A pointer to the root keeps the promise that a  *)
(* complete document is there; the code takes its match for granted.       *)
Finish ==
    /\ Walking("done")
    /\ LET roots == {q \in Ids : ptrs[q] = <<>> /\ results[q] # NoMatch}
           ends  == {results[q][2] : q \in roots}
       IN  IF \E to \in ends : to < Len(Tape)
           THEN Fail("trailing_characters", 1 + (CHOOSE to \in ends : TRUE))
           ELSE /\ outcome' = "ok" /\ pc' = "idle"
                /\ UNCHANGED <<inputs, i, frames, queries, answers, errorAt>>

-----------------------------------------------------------------------------
Init ==
    /\ doc = NoDoc /\ ptrs = <<>> /\ opts = Strict
    /\ i = 1 /\ frames = <<>> /\ queries = {} /\ results = <<>> /\ remaining = 0
    /\ pc = "idle" /\ outcome = "none" /\ errorAt = 0

Step == WalkInto \/ StepOver \/ ObjectMember \/ ArrayFirst \/ After \/ Unwind \/ Finish

Next == Start \/ Step \/ Collect

Spec == Init /\ [][Next]_vars

-----------------------------------------------------------------------------
Frame == [kind: Kinds, at: Nat \ {0}, queries: SUBSET Ids, live: SUBSET Ids, element: Nat]
Match == {NoMatch} \cup (Nat \X Nat)

(* Types; the count of queries left, a usize, is never below 0.            *)
TypeOK ==
    /\ doc.tokens \in Seq(Token)
    /\ ptrs \in Seq(Seq(RawTokens) \cup {Malformed})
    /\ opts \in [allow_nan: BOOLEAN, allow_trailing_comma: BOOLEAN]
    /\ i \in Nat \ {0}
    /\ frames \in Seq(Frame)
    /\ queries \subseteq Ids
    /\ results \in [Ids -> Match]
    /\ remaining \in Nat
    /\ pc \in {"idle", "value", "first", "member", "after", "unwind", "done"}
    /\ outcome \in {"none", "walking", "ok", "invalid_pointer"} \cup ParseErrors
    /\ errorAt \in Nat

(* remaining is the number of queries without a result: a query is         *)
(* answered at most once, by the first value that matches it, so that the  *)
(* count neither underflows nor comes to 0 early (pointer.rs 431-439).     *)
RemainingCounts == remaining = Cardinality({q \in Ids : results[q] = NoMatch})

(* "the root pointer always matches" (336): when the walk has returned,    *)
(* by its end or by the abort signal, a query for the root has its answer. *)
RootMatched == pc = "done" => \A q \in Ids : ptrs[q] = <<>> => results[q] # NoMatch

(* Why RemainingCounts is inductive.  A query is in the hands of one place *)
(* of the recursion at a time: the queries handed down a frame are ones    *)
(* that go deeper, and none that the frame will hand down again.           *)
Ahead(k) ==
    {q \in frames[k].live :
        \/ frames[k].kind = "object"
        \/ k = Level /\ pc = "first"
        \/ Index[TokenAt(q, k)] > frames[k].element}

HandedDown(qs, k) == qs \subseteq Deeper(frames[k].queries, k - 1) \ Ahead(k)

Nested ==
    /\ \A k \in 1 .. Level : frames[k].live \subseteq Deeper(frames[k].queries, k - 1)
    /\ \A k \in 1 .. Level : \A j \in k + 1 .. Level : HandedDown(frames[j].queries, k)
    /\ \A k \in 1 .. Level : HandedDown(queries, k)

(* What is still to be answered has no answer.                             *)
Unanswered ==
    /\ \A q \in queries : results[q] = NoMatch
    /\ \A k \in 1 .. Level :
          \A q \in Ending(frames[k].queries, k - 1) \cup Ahead(k) : results[q] = NoMatch

(* The queries for the root wait at the bottom.                            *)
RootsWait ==
    \A q \in Ids : ptrs[q] = <<>> =>
        /\ Level > 0 => q \in frames[1].queries
        /\ Level = 0 /\ pc = "value" => q \in queries

(* The places of the walk.                                                 *)
Places ==
    /\ outcome = "walking" => ptrs \in Seq(Seq(RawTokens))
    /\ pc = "value" => outcome = "walking"
    /\ pc \in {"first", "member", "after", "unwind"} =>
          Level > 0 /\ queries = {} /\ outcome = "walking"
    /\ outcome = "walking" => pc # "idle"
    /\ pc \in {"value", "first", "member", "after"} /\ ptrs # <<>> => remaining > 0
    /\ pc = "unwind" => remaining = 0
    /\ pc = "done" => outcome = "walking" /\ frames = <<>>

BInv == TypeOK /\ RemainingCounts /\ RootMatched /\ Nested /\ Unanswered /\ RootsWait /\ Places

(* "The walk stops as soon as every pointer is resolved" (228): from there *)
(* on, through every walk the signal has to leave, no token is read, no    *)
(* answer changes, and nothing the document has further on is an error but *)
(* what follows the value of a root pointer.  A batch of no pointers still *)
(* reads the root value.                                                   *)
StopsWhenResolved ==
    [][outcome = "walking" /\ remaining = 0 /\ ptrs # <<>> =>
           /\ UNCHANGED <<i, answers>>
           /\ outcome' \in {"walking", "ok", "trailing_characters"}]_vars
=============================================================================
