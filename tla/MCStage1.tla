------------------------------ MODULE MCStage1 ------------------------------
(***************************************************************************)
(* Instances of Stage1 for TLC: blocks of four bytes, entries stored two   *)
(* at a time, four-bit offsets.  Every text of up to MixedSize bytes of    *)
(* all classes, so that a token, a string or a container crosses a block;  *)
(* every longer one of quotes, backslashes and an opener, so that a run of *)
(* backslashes meets every phase of two boundaries; a few at the limits.   *)
(***************************************************************************)
EXTENDS Stage1

CONSTANTS MixedSize, EscapeSize

Strings(alphabet, size) == UNION {[1..n -> alphabet] : n \in 0..size}

Mixed   == {QUOTE, BACKSLASH, 91, 93, 32, 97}
Escapes == {QUOTE, BACKSLASH, 91}

(* 0xBB is one of the bytes the nibble tables misread, in a string and out *)
(* of one, at the end of a block too; 15 and 16 bytes are the last length  *)
(* a four-bit offset allows and the first it does not.                     *)
Special ==
    {<<91, 187, 93>>, <<97, 187, 97>>, <<QUOTE, 195, 187, QUOTE, 44, QUOTE, 187, QUOTE>>,
     <<QUOTE, 97, 195, 187, QUOTE, 44, 97>>} \cup
    {[i \in 1..n |-> b] : n \in {7, 8, 14, 15, 16}, b \in {44, 91}} \cup
    {[i \in 1..12 |-> IF i < 7 THEN 91 ELSE 93]}

MCTexts == Strings(Mixed, MixedSize) \cup Strings(Escapes, EscapeSize) \cup Special
FewTexts == Strings(Mixed, 2) \cup Special

Kernels == {"neon", "sse2", "avx2", "scalar"}
MCTargets == [isa: Kernels, packed: {FALSE}] \cup [isa: {"neon"}, packed: {TRUE}]
=============================================================================
