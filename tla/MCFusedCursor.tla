---------------------------- MODULE MCFusedCursor ----------------------------
(***************************************************************************)
(* Instances of FusedCursor for TLC: the documents of MCIndexedDriver, and *)
(* the ones with a trailing comma in every container that has an item,     *)
(* under the sets of ParseOptions named below.                             *)
(***************************************************************************)
EXTENDS FusedCursor, TreeDocuments

MCDocs ==
    {<<>>} \cup
    {WrittenWith(t, tail) : t \in LargeTrees \cup SmallTrees, tail \in {<<>>, <<",">>}} \cup
    UNION {Edits(Written(t)) : t \in SmallTrees}

AllOptions == [allow_nan: BOOLEAN, allow_trailing_comma: BOOLEAN]

(* parse_with accepts the strict grammar and the extensions asked for, and *)
(* nothing else: the two loops agree on where a closer, a key or a comma   *)
(* may stand (cursor.rs 227-426).                                          *)
AcceptsExactlyTheGrammar ==
    LET grammatical == Lenient(doc, opts) \in Grammatical
    IN  /\ outcome = "ok" => grammatical
        /\ outcome \in ParseErrors => ~ grammatical

(* An accepted document was delivered as its events, in document order,    *)
(* each end_* with the number of values since its begin.  The marks depend *)
(* on what has been spilled: MarkCountContract is about them.              *)
Unmarked(c) == [PlainCall(c) EXCEPT !.mark = 0]
DeliversTheTree ==
    outcome = "ok" =>
        /\ (LET made == Delivered(calls)
            IN  [i \in DOMAIN made |-> Unmarked(made[i])])
              = LET events == EventsOf(TreeOf[Lenient(doc, opts)], 0)
                IN  [i \in DOMAIN events |-> Unmarked(events[i])]
        /\ TextsDelivered(calls) = TextsOf(doc)
=============================================================================
