--------------------------- MODULE MCIndexedDriver ---------------------------
(***************************************************************************)
(* Instances of IndexedDriver for TLC.  The documents are the writings of  *)
(* all trees of up to TreeSize tokens, every document one token away from  *)
(* one of them, and some longer ones.                                      *)
(***************************************************************************)
EXTENDS IndexedDriver, TreeDocuments

MCDocs ==
    {<<>>} \cup {Written(t) : t \in LargeTrees} \cup
    UNION {{Written(t)} \cup Edits(Written(t)) : t \in SmallTrees}

(* parse_indexed accepts the strict grammar, the whole of it and nothing   *)
(* else (driver.rs 432-648), whatever the shape and the fault.             *)
AcceptsExactlyJson ==
    LET grammatical == Plain(doc, PlainScalars) \in Grammatical
    IN  /\ outcome = "ok" => grammatical
        /\ outcome \in ParseErrors => ~ grammatical

(* An accepted document was delivered as its events, in document order,    *)
(* each end_* with the number of values since its begin.  The marks depend *)
(* on what has been spilled: MarkCountContract is about them.              *)
Unmarked(c) == [PlainCall(c) EXCEPT !.mark = 0]
DeliversTheTree ==
    outcome = "ok" =>
        /\ (LET made == Delivered(calls)
            IN  [i \in DOMAIN made |-> Unmarked(made[i])])
              = LET events == EventsOf(TreeOf[Plain(doc, PlainScalars)], 0)
                IN  [i \in DOMAIN events |-> Unmarked(events[i])]
        /\ TextsDelivered(calls) = TextsOf(doc)
=============================================================================
