----------------------------- MODULE MCPointers -----------------------------
(***************************************************************************)
(* Instances of PointerDifferential for TLC, and its answers against the   *)
(* reference.                                                              *)
(***************************************************************************)
EXTENDS PointerDifferential, PointerDocuments

Prefixed == {<<"a">>, <<"0">>, <<"1">>, <<"a", "0">>, <<"1", "a">>}
MCBatches ==
    {<<<<>>, <<"a">>>>, <<<<"a">>, <<"0">>, <<"1">>>>, <<<<"escaped a", "0">>, <<"a", "a">>, <<"0">>>>,
     <<<<"1", "a">>, <<"1", "0">>, <<"1", "0">>>>, <<<<"01">>, <<"1">>>>, <<Malformed, <<"0">>>>} \cup
    {<<p, p, q>> : p, q \in Prefixed}

AllOptions == [allow_nan: BOOLEAN, allow_trailing_comma: BOOLEAN]

Valid == Grammar(doc.tokens, opts)

(* On a document of the grammar each pointer alone is answered with the    *)
(* value it names, the first occurrence of a key, or none; a scalar before *)
(* it, a container skipped or a trailing comma does not matter (pointer.rs *)
(* 13-22).                                                                 *)
ResolvesByReference ==
    AllReturned /\ Valid => \A q \in DOMAIN singles :
        /\ singles[q].outcome = "invalid_pointer" <=> ptrs[q] = Malformed
        /\ ptrs[q] # Malformed =>
              singles[q] = [outcome |-> "ok", match |-> Lookup(doc, 1, ptrs[q])]

(* "An error on a fully valid document is therefore still a bug": a batch  *)
(* fails on a document of the grammar only for a malformed pointer         *)
(* (pointer.rs 231-236, pointer_differential.rs 81-105).                   *)
BatchAcceptsTheGrammar ==
    AllReturned /\ Valid =>
        IF \E q \in DOMAIN ptrs : ptrs[q] = Malformed THEN outcome = "invalid_pointer"
                                                      ELSE outcome = "ok"
=============================================================================
