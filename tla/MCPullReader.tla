---------------------------- MODULE MCPullReader ----------------------------
(***************************************************************************)
(* Instances of PullReader for TLC: the writings of trees, with and        *)
(* without trailing commas, and every document one token away from one,    *)
(* walked and skipped in every way, under the sets of ParseOptions below.  *)
(***************************************************************************)
EXTENDS PullReader, TreeDocuments

MCDocs ==
    {<<>>} \cup
    {WrittenWith(t, tail) : t \in SmallTrees, tail \in {<<>>, <<",">>}} \cup
    UNION {Edits(Written(t)) : t \in SmallTrees}

AllOptions == [allow_nan: BOOLEAN, allow_trailing_comma: BOOLEAN]

Grammar(d) == Lenient(d, opts) \in Grammatical

(* The document with each value skipped taken for a scalar.                *)
Skips == {a \in ToSet(got) : a.what = "skip"}
Skeleton ==
    LET kept == SelectSeq([i \in DOMAIN doc |-> i],
                          LAMBDA i : \A s \in Skips : ~ (s.from < i /\ i <= s.to))
    IN  [i \in DOMAIN kept |->
            IF \E s \in Skips : s.from = kept[i] THEN "num" ELSE doc[kept[i]]]

(* A host that follows the protocol and comes to a successful finish has   *)
(* walked a document of the grammar, skipped values taken as they are; and *)
(* no way of walking or skipping fails on a document of the grammar that   *)
(* has no lone surrogate (reader.rs 218-220, 419-430).                     *)
WalksExactlyTheGrammar ==
    /\ outcome = "ok" => Grammar(Skeleton)
    /\ outcome \in ParseErrors => ~ Grammar(doc) \/ "wtf8" \in ToSet(doc)

(* "hold the returned slice as a lazy value or feed it to any nosj entry   *)
(* point later" (reader.rs 419-423): the slices skipped in a document of   *)
(* the grammar are documents of the grammar.                               *)
SlicesAreDocuments ==
    Skips # {} /\ Grammar(doc) => \A s \in Skips : Grammar(SubSeq(doc, s.from, s.to))

(* "the same document set parse_with accepts is walkable, and skippable,   *)
(* here" (reader.rs 218-220), the set being the one AcceptsExactlyThe-     *)
(* Grammar of the cursor names.                                            *)
ParsedIsWalkable == outcome \in ParseErrors => ~ Grammar(doc)
=============================================================================
