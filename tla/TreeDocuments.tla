--------------------------- MODULE TreeDocuments ---------------------------
(***************************************************************************)
(* The trees behind the documents of the model-checking modules: all trees *)
(* of up to TreeSize tokens, and some larger ones.                         *)
(***************************************************************************)
EXTENDS JsonTrees

CONSTANT TreeSize

SmallTrees == TreesUpTo(TreeSize)

(* Rows long enough for two checkpoints, of scalars and of containers, and *)
(* one tree deeper than the small ones.                                    *)
Row(n, item) == Node("array", [i \in 1 .. n |-> item])
LargeTrees ==
    {Row(n, item) : n \in 4 .. 5, item \in {Leaf, Node("array", <<>>), Row(3, Leaf)}} \cup
    {Node("object", <<Row(4, Leaf), Node("object", <<Row(1, Row(1, Leaf)), Leaf>>), Leaf>>)}

(* An edit makes a document at most one token longer: this is the whole of *)
(* the grammar up to the length of the longest edited document.            *)
ReferenceTrees == TreesUpTo(TreeSize + 1) \cup LargeTrees
Grammatical == {Written(t) : t \in ReferenceTrees}
TreeOf == [d \in Grammatical |-> CHOOSE t \in ReferenceTrees : Written(t) = d]
=============================================================================
