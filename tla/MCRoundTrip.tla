------------------------------ MODULE MCRoundTrip ------------------------------
(***************************************************************************)
(* Instances of the writer and of the round trip for TLC, and the          *)
(* reference the text is compared with: a tree laid out as the fields of   *)
(* WriteOptions document it.                                               *)
(***************************************************************************)
EXTENDS RoundTrip, JsonTrees

CONSTANT TreeSize   \* tokens of the trees that may have been written

Pretty == {"indent", "space", "object_nl", "array_nl"}
MCLayouts == {{}, {"indent"}, {"object_nl", "indent"}, {"array_nl", "space_before"}, Pretty}

RECURSIVE Rendered(_, _, _)

(* The rendering of a tree `level` containers deep: the indent before each *)
(* element and key, the newlines after the opener, after each comma and    *)
(* before the closer of a container that is not empty, and the spaces      *)
(* around a colon.                                                         *)
Rendered(tree, layout, level) ==
    LET Has(name)   == IF name \in layout THEN <<name>> ELSE <<>>
        Levels(n)   == FlattenSeq([i \in 1 .. n |-> Has("indent")])
        nl          == IF tree.kind = "array" THEN Has("array_nl") ELSE Has("object_nl")
        lead        == IF tree.kind = "object"
                       THEN <<"str">> \o Has("space_before") \o <<":">> \o Has("space") ELSE <<>>
        Member(i)   == (IF i > 1 THEN <<",">> ELSE <<>>) \o nl \o Levels(level + 1)
                       \o lead \o Rendered(tree.items[i], layout, level + 1)
        members     == FlattenSeq([i \in DOMAIN tree.items |-> Member(i)])
        tail        == IF tree.items = <<>> \/ nl = <<>> THEN <<>> ELSE nl \o Levels(level)
    IN  IF tree.kind = "scalar" THEN <<"num">>
        ELSE <<Opener(tree.kind)>> \o members \o tail \o <<CloserOf(tree.kind)>>

(* Every call sequence of a tree, with the text it should give.            *)
Writings == {<<layout, EventsOf(t, 0), Rendered(t, layout, 0)>> :
                 layout \in Layouts, t \in TreesUpTo(TreeSize)}

(* A host whose calls are legal gets, for the tree it walks, that tree     *)
(* rendered in its layout, every separator and indentation in its place    *)
(* (writer.rs 43-58), a panic of float() it caught on the way included.    *)
WritesTheTree == Complete => <<cfg, calls, out>> \in Writings
=============================================================================
