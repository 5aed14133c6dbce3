-------------------------- MODULE PointerDocuments --------------------------
(***************************************************************************)
(* The documents and pointers of the pointers' model-checking modules, and *)
(* the reference: which value of a grammatical document a pointer names.   *)
(* Only TLC's runs use this module.                                        *)
(***************************************************************************)
EXTENDS JsonTrees, PointerTokens

CONSTANTS TreeSize, \* tokens of the trees that are documents
          EditSize  \* tokens of the trees whose edits are documents too

-----------------------------------------------------------------------------
(* Pointer tokens: a name, two indices (one of them also a name), the name *)
(* in an escaped spelling, and an index with a leading zero.               *)
PlainRaw == {"a", "0", "1"}
MCRaw    == PlainRaw \cup {"escaped a", "01"}
MCText   == [r \in MCRaw |-> IF r = "escaped a" THEN "a" ELSE r]
MCIndex  == [r \in MCRaw |-> CASE r = "0" -> 0 [] r = "1" -> 1 [] OTHER -> NoIndex]

(* The keys of a document are named in every way.                          *)
Names     == {"a", "0"}
KeysOf(d) == {k \in 1 .. Len(d) - 1 : d[k] = "str" /\ d[k + 1] = ":"}
Named(d)  == {[tokens |-> d, names |-> n] : n \in [KeysOf(d) -> Names]}

Pair(x, y)   == Node("object", <<x, y>>)
NestingTrees == {Pair(Leaf, Pair(Leaf, Leaf)), Pair(Node("array", <<Leaf, Leaf>>), Leaf),
                 Node("array", <<Pair(Leaf, Leaf), Node("array", <<Leaf, Leaf>>), Leaf>>)}
MCTrees == TreesUpTo(TreeSize) \cup NestingTrees

Writings == {WrittenWith(t, tail) : t \in MCTrees, tail \in {<<>>, <<",">>}}
Faulty   == UNION {Edits(Written(t)) : t \in TreesUpTo(EditSize)}
MCDocs   == UNION {Named(d) : d \in Writings \cup Faulty}

-----------------------------------------------------------------------------
Grammatical == {Written(t) : t \in TreesUpTo(EditSize + 1) \cup MCTrees}
Grammar(d, opts) == Lenient(d, opts) \in Grammatical

(* The members of the container `from`..`to`: where the first begins and   *)
(* after each comma at its level; a trailing comma begins none.            *)
Members(d, from, to) ==
    {k + 1 : k \in {j \in from .. to - 1 :
                       /\ Depth(d, from, j) = 1
                       /\ j = from \/ d[j] = ","
                       /\ d[j + 1] \notin Closers}}

(* The earliest member the raw token names.                                *)
Named1st(d, from, to, raw) ==
    LET members == Members(d.tokens, from, to)
        hits    == IF d.tokens[from] = "{"
                   THEN {k + 2 : k \in {m \in members : KeyIs(d.tokens, d.names, m, raw)}}
                   ELSE {m \in members : Cardinality({n \in members : n < m}) = Index[raw]}
    IN  IF hits = {} THEN 0 ELSE First(hits)

RECURSIVE Lookup(_, _, _)

(* The value the pointer names below the one that begins at `from`, in a   *)
(* grammatical document: NoMatch, or its first and last token.             *)
Lookup(d, from, pointer) ==
    LET to    == ValueEnd(d.tokens, from)
        child == Named1st(d, from, to, Head(pointer))
    IN  IF pointer = <<>> THEN <<from, to>>
        ELSE IF d.tokens[from] \notin Openers \/ child = 0 THEN NoMatch
        ELSE Lookup(d, child, Tail(pointer))
=============================================================================
