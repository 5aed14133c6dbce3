------------------------- MODULE MCPushDifferential -------------------------
(***************************************************************************)
(* An instance of PushDifferential for TLC: the writings of all trees of   *)
(* up to TreeSize tokens, and of an object that goes on after a container, *)
(* with every document one token away from one; and two long rows.         *)
(***************************************************************************)
EXTENDS PushDifferential

CONSTANT TreeSize

J == INSTANCE TreeDocuments

Edited == J!SmallTrees \cup {J!Node("object", <<J!Row(1, J!Leaf), J!Leaf>>)}

MCDocs ==
    {J!Written(J!Row(4, item)) : item \in {J!Leaf, J!Row(2, J!Leaf)}} \cup
    UNION {{J!Written(t)} \cup J!Edits(J!Written(t)) : t \in Edited}
=============================================================================
