----------------------------- MODULE JsonTrees -----------------------------
(***************************************************************************)
(* The reference the parsers are compared with: JSON values as trees, the  *)
(* token sequence a tree is written as, and the sink calls a tree is worth.*)
(* A document is grammatical when it is the writing of a tree.  Only TLC's *)
(* runs use this module.                                                   *)
(***************************************************************************)
EXTENDS Naturals, Sequences, SequencesExt, Tokens

Leaf              == [kind |-> "scalar", items |-> <<>>]
Node(shape, items) == [kind |-> shape, items |-> items]

-----------------------------------------------------------------------------
(* Trees by the number of tokens of their writing.  A row is the non-empty *)
(* contents of a container: `extra` tokens (key and colon) before each     *)
(* item and a comma between two.                                           *)
RECURSIVE TreesOfSize(_), RowsOfSize(_, _)

RowsOfSize(n, extra) ==
    IF n < 1 + extra THEN {}
    ELSE {<<t>> : t \in TreesOfSize(n - extra)} \cup
         UNION {{<<t>> \o row : t \in TreesOfSize(m), row \in RowsOfSize(n - m - extra - 1, extra)} :
                    m \in 1 .. n - 2 * extra - 2}

TreesOfSize(n) ==
    CASE n = 1 -> {Leaf}
      [] n = 2 -> {Node(k, <<>>) : k \in Kinds}
      [] n > 2 -> {Node("array", row) : row \in RowsOfSize(n - 2, 0)} \cup
                  {Node("object", row) : row \in RowsOfSize(n - 2, 2)}

TreesUpTo(n) == UNION {TreesOfSize(m) : m \in 1 .. n}

-----------------------------------------------------------------------------
RECURSIVE WrittenWith(_, _)

(* The writing of a tree, `tail` following the last item of each container *)
(* that has one: nothing, or a trailing comma.                             *)
Item(shape, text) == IF shape = "object" THEN <<"str", ":">> \o text ELSE text

Contents(shape, texts, tail) ==
    IF texts = <<>> THEN <<>>
    ELSE FoldLeft(LAMBDA acc, text : acc \o <<",">> \o Item(shape, text),
                  Item(shape, Head(texts)), Tail(texts)) \o tail

WrittenWith(tree, tail) ==
    LET texts == [i \in DOMAIN tree.items |-> WrittenWith(tree.items[i], tail)]
    IN  CASE tree.kind = "scalar" -> <<"num">>
          [] tree.kind = "array"  -> <<"[">> \o Contents("array", texts, tail) \o <<"]">>
          [] tree.kind = "object" -> <<"{">> \o Contents("object", texts, tail) \o <<"}">>

Written(tree) == WrittenWith(tree, <<>>)

(* What a sink that does not spill receives for a tree, checkpoints left   *)
(* out, when its value stack is `height` high: each of the items before an *)
(* item is one value on the stack.                                         *)
Event(name, what, height, len) ==
    [call |-> name, what |-> what, mark |-> height, len |-> len, reply |-> "ok"]

RECURSIVE EventsOf(_, _)

EventsOf(tree, height) ==
    IF tree.kind = "scalar" THEN <<Event("scalar", "num", 0, 0)>>
    ELSE <<Event("begin", tree.kind, 0, 0)>>
         \o FlattenSeq([i \in DOMAIN tree.items |->
                (IF tree.kind = "object" THEN <<Event("key", "str", 0, 0)>> ELSE <<>>)
                \o EventsOf(tree.items[i], height + i - 1)])
         \o <<Event("end", tree.kind, height, Len(tree.items))>>

-----------------------------------------------------------------------------
(* The generated trees have one scalar and one key text.  A document over  *)
(* the full alphabet is compared with them in its plain form: every scalar *)
(* the parser accepts becomes "num", and a key "str".                      *)
Plain(d, accepted) ==
    [i \in DOMAIN d |->
        IF d[i] \in KeyText /\ i < Len(d) /\ d[i + 1] = ":" THEN "str"
        ELSE IF d[i] \in accepted THEN "num"
        ELSE d[i]]

(* The document without its trailing commas: a comma between the end of a  *)
(* value and a closer.                                                     *)
IsTrailing(d, i) ==
    /\ d[i] = ","
    /\ i > 1 /\ d[i - 1] \in Closers \cup Scalars
    /\ i < Len(d) /\ d[i + 1] \in Closers

WithoutTrailing(d) ==
    LET kept == SelectSeq([i \in DOMAIN d |-> i], LAMBDA i : ~ IsTrailing(d, i))
    IN  [i \in DOMAIN kept |-> d[kept[i]]]

(* What a parser with the given options takes a document to be.            *)
Lenient(d, opts) ==
    Plain(IF opts.allow_trailing_comma THEN WithoutTrailing(d) ELSE d, Accepted(opts.allow_nan))

PlainCall(c) ==
    [c EXCEPT !.what = CASE c.call = "scalar" -> "num"
                         [] c.call = "key" -> "str"
                         [] OTHER -> c.what]

(* The texts delivered, and the ones the document holds, in order.         *)
TextsDelivered(calls) ==
    LET texts == SelectSeq(calls, LAMBDA c : c.call \in {"scalar", "key"})
    IN  [i \in DOMAIN texts |-> texts[i].what]
TextsOf(d) == SelectSeq(d, LAMBDA t : t \in Scalars)

(* Every document one token away from a given one.                         *)
Edits(d) ==
    {RemoveAt(d, i) : i \in DOMAIN d} \cup
    {ReplaceAt(d, i, t) : i \in DOMAIN d, t \in Token} \cup
    {InsertAt(d, i, t) : i \in 1 .. Len(d) + 1, t \in Token}
=============================================================================
