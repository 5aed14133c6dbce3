------------------------------- MODULE Buffers -------------------------------
(***************************************************************************)
(* One Buffers, handed from call to call (reader.rs 7-64): which input the *)
(* stage-1 index was last built for, and the length kept beside it to      *)
(* notice a preindexed parse of another input.  Every call that indexes is *)
(* an action; parse, parse_with and the pointer functions use the scratch  *)
(* and the frames of a Buffers and leave both fields here alone.           *)
(***************************************************************************)
EXTENDS Naturals

CONSTANTS Inputs,     \* the inputs of the host's calls
          Length      \* their lengths in bytes

VARIABLES indexes,      \* the input the index was last built for; {} at first
          indexed_len,
          drives        \* preindexed drives: the input, and whose index was used

vars == <<indexes, indexed_len, drives>>

(* Buffers::preindex.                                                      *)
Preindex(input) ==
    /\ indexes' = {input}
    /\ indexed_len' = Length[input]
    /\ UNCHANGED drives

(* Reader::new and its variants, and parse_indexed: stage1::index on the   *)
(* vector of the Buffers, and nothing else.                                *)
IndexOnly(input) ==
    /\ indexes' = {input}
    /\ UNCHANGED <<indexed_len, drives>>

(* assert_preindexed lets the drive go on.                                 *)
GuardPasses(input) == indexed_len = Length[input]

(* parse_preindexed_utf8_unchecked in a build with debug assertions: past  *)
(* the guard it drives over the index there is, which stays.               *)
DrivePreindexed(input) ==
    /\ GuardPasses(input)
    /\ drives' = drives \cup {[input |-> input, over |-> indexes]}
    /\ UNCHANGED <<indexes, indexed_len>>

Init == indexes = {} /\ indexed_len = 0 /\ drives = {}

Next == \E input \in Inputs :
    Preindex(input) \/ IndexOnly(input) \/ DrivePreindexed(input)

Spec == Init /\ [][Next]_vars

-----------------------------------------------------------------------------
(* "Best-effort guard ...: the last-indexed input length must match"       *)
(* (reader.rs 47-48), from "Length of the input the index was last built   *)
(* for" (14-16): no preindexed drive that the guard lets through is over   *)
(* the index of an input of another length.                                *)
GuardedByLastIndexed ==
    \A d \in drives : \A input \in d.over : Length[input] = Length[d.input]
=============================================================================
