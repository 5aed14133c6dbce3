---------------------------- MODULE ByteClasses ----------------------------
(***************************************************************************)
(* scan.rs: which bytes of a string need attention under an escape mode,   *)
(* as the class table has it and as each kernel's comparisons find it.  A  *)
(* movemask is the set of the lanes that hit, lane 0 the first byte.       *)
(***************************************************************************)
EXTENDS Integers, Sequences

CONSTANTS VectorWidth  \* bytes of a NEON or SSE2 vector (16); AVX2's is twice

ASSUME VectorAssumption == VectorWidth \in Nat \ {0}

Modes == {"standard", "script_safe", "ascii_only", "html_safe", "html_entities",
          "js_separators"}

QUOTE == 34
BACKSLASH == 92
SLASH == 47
Html == {38, 60, 62}
JS_SEP_LEAD == 226
JS_SEP_CONT == 128
JS_SEP_LAST_2028 == 168
JS_SEP_LAST_2029 == 169

EscapesJsSeparators(mode) == mode \in {"script_safe", "html_safe", "js_separators"}
EscapesHtmlEntities(mode) == mode \in {"html_safe", "html_entities"}

(* ESCAPE_CLASS, an entry as the set of the classes a byte is in, and the  *)
(* classes a mode attends to.                                              *)
ESCAPE_CLASS == [b \in 0..255 |->
    {c \in {"standard"} : b \in {QUOTE, BACKSLASH} \cup 0..31} \cup
    {c \in {"script_safe"} : b \in {SLASH, JS_SEP_LEAD}} \cup
    {c \in {"ascii_only"} : b >= 128} \cup
    {c \in {"html_safe"} : b \in Html \cup {JS_SEP_LEAD}} \cup
    {c \in {"html_entities"} : b \in Html} \cup
    {c \in {"js_separators"} : b = JS_SEP_LEAD}]
ClassBits(mode) == {"standard", mode}

Attend(mode, b) == ESCAPE_CLASS[b] \cap ClassBits(mode) # {}

(* hit_vec, sse2_hit_mask, avx2_hit_mask: a lane at a time.                *)
NeonHit(mode, b) ==
    \/ b = QUOTE \/ b = BACKSLASH \/ b < 32
    \/ mode = "script_safe" /\ b \in {SLASH, JS_SEP_LEAD}
    \/ mode = "ascii_only" /\ b >= 128
    \/ mode = "html_safe" /\ b \in Html \cup {JS_SEP_LEAD}
    \/ mode = "html_entities" /\ b \in Html
    \/ mode = "js_separators" /\ b = JS_SEP_LEAD

(* Unsigned v <= 0x1F is min(v, 0x1F) = v; the sign bit is v >= 0x80.      *)
AtMost31(b) == (IF b < 31 THEN b ELSE 31) = b
SignBit(b) == b >= 128

Sse2Hit(mode, b) ==
    \/ b = QUOTE \/ b = BACKSLASH \/ AtMost31(b)
    \/ mode = "script_safe" /\ b \in {SLASH, JS_SEP_LEAD}
    \/ mode = "html_safe" /\ b \in Html \cup {JS_SEP_LEAD}
    \/ mode = "html_entities" /\ b \in Html
    \/ mode = "js_separators" /\ b = JS_SEP_LEAD
    \/ mode = "ascii_only" /\ SignBit(b)

Avx2Hit(mode, b) ==
    \/ b = QUOTE \/ b = BACKSLASH \/ AtMost31(b)
    \/ mode = "script_safe" /\ b \in {SLASH, JS_SEP_LEAD}
    \/ mode = "html_safe" /\ b \in Html \cup {JS_SEP_LEAD}
    \/ mode = "html_entities" /\ b \in Html
    \/ mode = "js_separators" /\ b = JS_SEP_LEAD
    \/ mode = "ascii_only" /\ SignBit(b)

(* The lanes of a chunk that hit.                                          *)
HitLanes(kernel, mode, chunk) ==
    {k \in 0..(Len(chunk) - 1) :
        CASE kernel = "neon" -> NeonHit(mode, chunk[k + 1])
          [] kernel = "sse2" -> Sse2Hit(mode, chunk[k + 1])
          [] kernel = "avx2" -> Avx2Hit(mode, chunk[k + 1])}

-----------------------------------------------------------------------------
(* swar_escape_mask: a word subtracted from in one piece, so that a lane   *)
(* that goes below zero borrows from the lane above it.                    *)

Borrowing(lanes, sub) ==
    LET Borrow[k \in 0..Len(lanes)] ==
            k > 0 /\ lanes[k] - sub - (IF Borrow[k - 1] THEN 1 ELSE 0) < 0
    IN  Borrow

(* (w - LO * sub) & ~w & HI                                                *)
BelowLanes(lanes, sub) ==
    LET borrow == Borrowing(lanes, sub)
    IN  {k \in 0..(Len(lanes) - 1) :
            /\ (lanes[k + 1] - sub - (IF borrow[k] THEN 1 ELSE 0)) % 256 >= 128
            /\ lanes[k + 1] < 128}

(* Of two bytes, a bit after the other.                                    *)
XorByte(a, b) ==
    LET Low[k \in 0..8] ==
            IF k = 0 THEN 0
            ELSE Low[k - 1] + 2 ^ (k - 1) * ((a \div 2 ^ (k - 1) + b \div 2 ^ (k - 1)) % 2)
    IN  Low[8]
XorTable ==
    [b \in 0..255 |-> [c \in {QUOTE, BACKSLASH, SLASH, JS_SEP_LEAD} \cup Html |-> XorByte(b, c)]]
EqLanes(word, c) == BelowLanes([k \in 1..Len(word) |-> XorTable[word[k]][c]], 1)

SwarLanes(mode, word) ==
    LET EqAny(set) == UNION {EqLanes(word, c) : c \in set}
    IN  EqAny({QUOTE, BACKSLASH}) \cup BelowLanes(word, 32) \cup
        (CASE mode = "script_safe" -> EqAny({SLASH, JS_SEP_LEAD})
           [] mode = "ascii_only" -> {k \in 0..(Len(word) - 1) : word[k + 1] >= 128}
           [] mode = "html_safe" -> EqAny(Html \cup {JS_SEP_LEAD})
           [] mode = "html_entities" -> EqAny(Html)
           [] mode = "js_separators" -> EqAny({JS_SEP_LEAD})
           [] OTHER -> {})
=============================================================================
