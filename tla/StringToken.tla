---------------------------- MODULE StringToken ----------------------------
(***************************************************************************)
(* scalars.rs: parse_string.  A string without escapes is a slice of the   *)
(* input; the others are decoded into the scratch buffer by vector stores  *)
(* that write whole chunks, into capacity reserved once, because nothing   *)
(* decodes to more than it was written with.  One action per escape and    *)
(* per chunk.  Offsets are those of the code, from 0.                      *)
(*                                                                         *)
(* A definition named Slip_X is X with a plausible bug in it; no other     *)
(* definition uses it.                                                     *)
(***************************************************************************)
EXTENDS RawBuffers, ByteClasses, FiniteSets

VARIABLES input, machine, at, into, scratch, decoding, raw, inRoom, result

stringVars == <<input, machine, at, into, scratch, decoding, raw, inRoom, result>>

NoResult == [kind |-> "none", content |-> <<>>, end |-> 0]
Error(kind) == [kind |-> kind, content |-> <<>>, end |-> 0]

ByteAt(k) == IF k < Len(input) THEN input[k + 1] ELSE -1

(* is_token_boundary                                                       *)
TokenBoundary(b) == b \in {32, 9, 10, 13, 123, 125, 91, 93, 58, 44}

-----------------------------------------------------------------------------
(* find_special: the next quote, backslash or control character.           *)

Special(b) == b = QUOTE \/ b = BACKSLASH \/ b < 32

(* The lanes that hit in the vector of `width` bytes at `from`.            *)
LanesAt(kernel, from, width) ==
    HitLanes(kernel, "standard", SubSeq(input, from + 1, from + width))

Slip_TailFind(kernel, from, width) ==  \* lanes the caller has scanned not dropped
    LET back == Len(input) - width
        lanes == LanesAt(kernel, back, width)
    IN  {back + k : k \in lanes}

(* tail_find: the last whole vector of the input, without the lanes before *)
(* `from`.                                                                 *)
TailFind(kernel, from, width) ==
    LET back == Len(input) - width
        lanes == {k \in LanesAt(kernel, back, width) : k >= from - back}
    IN  {back + k : k \in lanes}

FindScalar(from) == {k \in from..(Len(input) - 1) : Special(input[k + 1])}

(* Whole vectors from `from` on, and what is left of the input as the      *)
(* kernel's last resort finds it: the set of the offsets found, of which   *)
(* the lowest is the answer.                                               *)
FindByVectors(kernel, from, width) ==
    LET whole == (Len(input) - from) \div width
        rest == from + whole * width
    IN  (UNION {{from + n * width + k : k \in LanesAt(kernel, from + n * width, width)}
                   : n \in 0..(whole - 1)}) \cup
        (IF rest = Len(input) THEN {}
         ELSE IF Len(input) >= width THEN TailFind(kernel, rest, width)
         ELSE FindScalar(rest))

FindAvx2(from) == FindByVectors("avx2", from, 2 * VectorWidth)

FindSpecial(from) ==
    CASE machine = "scalar" -> FindScalar(from)
      [] machine = "avx2" -> FindAvx2(from)
      [] OTHER -> FindByVectors(machine, from, VectorWidth)

-----------------------------------------------------------------------------
(* Escapes.                                                                *)

(* HEX_TABLE and hex4: the value, or -1.                                   *)
HexValue(b) ==
    CASE b \in 48..57 -> b - 48 [] b \in 97..102 -> b - 87 [] b \in 65..70 -> b - 55
      [] OTHER -> -1

Hex4(k) ==
    LET digit(n) == HexValue(ByteAt(k + n))
    IN  IF k + 4 > Len(input) \/ \E n \in 0..3 : digit(n) = -1 THEN -1
        ELSE ((digit(0) * 16 + digit(1)) * 16 + digit(2)) * 16 + digit(3)

HighSurrogate(cp) == cp \in 55296..56319
LowSurrogate(cp) == cp \in 56320..57343

(* write_utf8_raw: UTF-8, and WTF-8 of a surrogate.                        *)
Encoded(cp) ==
    LET Six(shift) == 128 + ((cp \div 2 ^ shift) % 64)
    IN  IF cp < 128 THEN <<cp>>
        ELSE IF cp < 2048 THEN <<192 + cp \div 64, Six(0)>>
        ELSE IF cp < 65536 THEN <<224 + cp \div 4096, Six(6), Six(0)>>
        ELSE <<240 + cp \div 262144, Six(12), Six(6), Six(0)>>

(* An escape behind a backslash: the bytes it stands for, its length with  *)
(* the backslash, whether it is a lone low surrogate; or an error.         *)
Simple == [b \in {34, 92, 47, 98, 102, 110, 114, 116} |->
    CASE b = 98 -> 8 [] b = 102 -> 12 [] b = 110 -> 10 [] b = 114 -> 13 [] b = 116 -> 9
      [] OTHER -> b]

Decoded(out, length, lone) == [kind |-> "ok", out |-> out, length |-> length, lone |-> lone]
Broken(kind) == [kind |-> kind, out |-> <<>>, length |-> 0, lone |-> FALSE]

Slip_Combined(high, low) ==  \* the upper planes begin at zero
    (high - 55296) * 1024 + (low - 56320)
Combined(high, low) == 65536 + (high - 55296) * 1024 + (low - 56320)

UnicodeEscape(k) ==
    LET cp == Hex4(k + 2)
        low == Hex4(k + 8)
    IN  IF cp = -1 THEN Broken("invalid_unicode_escape")
        ELSE IF ~ HighSurrogate(cp) THEN Decoded(Encoded(cp), 6, LowSurrogate(cp))
        ELSE IF ByteAt(k + 6) # BACKSLASH \/ ByteAt(k + 7) # 117 THEN Broken("lone_surrogate")
        ELSE IF low = -1 THEN Broken("invalid_unicode_escape")
        ELSE IF ~ LowSurrogate(low) THEN Broken("lone_surrogate")
        ELSE Decoded(Encoded(Combined(cp, low)), 12, FALSE)

EscapeBehind(k) ==
    LET esc == ByteAt(k + 1)
    IN  IF esc = -1 THEN Broken("unterminated")
        ELSE IF esc \in DOMAIN Simple THEN Decoded(<<Simple[esc]>>, 2, FALSE)
        ELSE IF esc = 117 THEN UnicodeEscape(k)
        ELSE Broken("invalid_escape")

-----------------------------------------------------------------------------
(* parse_string.                                                           *)

Return(r) == result' = r /\ decoding' = "done"

(* decode_span's step: whole chunks, then one padded; AVX2 machines take   *)
(* the SSE2 step here.                                                     *)
SpanKernel == IF machine = "avx2" THEN "sse2" ELSE machine
SpanWidth == IF machine = "scalar" THEN 1 ELSE VectorWidth
SpanChunk ==
    IF Len(input) - at >= SpanWidth THEN SubSeq(input, at + 1, at + SpanWidth)
    ELSE PaddedTail(FromOffset(input, at), SpanWidth)
SpanHits ==
    IF machine = "scalar" THEN {k \in {0} : Special(input[at + 1])}
    ELSE HitLanes(SpanKernel, "standard", SpanChunk) \cap 0..(Len(input) - at - 1)

Slip_DecodeSlack == 0  \* no room for the last chunk's padding
DecodeSlack == VectorWidth

Fill(k, out) ==
    /\ scratch' = Put(scratch, k, out)
    /\ inRoom' = (inRoom /\ Room(scratch, k, Len(out)))

ScanFirst ==
    LET special == FindSpecial(1)
        first == Lowest(special)
        reserved == Reserve(Publish(scratch, 0), (Len(input) - 1) + DecodeSlack)
        prefix == SubSeq(input, 2, first)
    IN  /\ decoding = "start"
        /\ IF special = {} THEN Return(Error("unterminated")) /\ UNCHANGED <<at, into, scratch, inRoom>>
           ELSE IF ByteAt(first) = QUOTE
           THEN /\ Return([kind |-> "borrowed", content |-> prefix, end |-> first + 1])
                /\ UNCHANGED <<at, into, scratch, inRoom>>
           ELSE IF ByteAt(first) # BACKSLASH
           THEN Return(Error("control")) /\ UNCHANGED <<at, into, scratch, inRoom>>
           ELSE /\ scratch' = Put(reserved, 0, prefix)
                /\ inRoom' = (inRoom /\ Room(reserved, 0, Len(prefix)))
                /\ at' = first /\ into' = first - 1
                /\ decoding' = "escape"
                /\ UNCHANGED result
        /\ raw' = FALSE
        /\ UNCHANGED <<input, machine>>

(* An escape, and a look at whether another follows.                       *)
DecodeEscape ==
    LET escape == EscapeBehind(at)
        next == at + escape.length
    IN  /\ decoding = "escape"
        /\ IF escape.kind # "ok"
           THEN Return(Error(escape.kind)) /\ UNCHANGED <<at, into, scratch, raw, inRoom>>
           ELSE /\ Fill(into, escape.out)
                /\ at' = next /\ into' = into + Len(escape.out)
                /\ raw' = (raw \/ escape.lone)
                /\ decoding' = IF ByteAt(next) = BACKSLASH THEN "escape" ELSE "span"
                /\ UNCHANGED result
        /\ UNCHANGED <<input, machine>>

SpanRunsOut ==
    /\ decoding = "span" /\ at = Len(input)
    /\ Return(Error("unterminated"))
    /\ UNCHANGED <<input, machine, at, into, scratch, raw, inRoom>>

CopyCleanChunk ==
    /\ decoding = "span" /\ at < Len(input) /\ SpanHits = {}
    /\ Fill(into, SpanChunk)
    /\ IF Len(input) - at >= SpanWidth
       THEN at' = at + SpanWidth /\ into' = into + SpanWidth /\ UNCHANGED <<decoding, result>>
       ELSE Return(Error("unterminated")) /\ UNCHANGED <<at, into>>
    /\ UNCHANGED <<input, machine, raw>>

(* The span ends; a scalar machine stores no byte it does not keep.        *)
SpanEnds ==
    LET k == Lowest(SpanHits)
        b == ByteAt(at + k)
        filled == IF machine = "scalar" THEN scratch ELSE Put(scratch, into, SpanChunk)
    IN  /\ decoding = "span" /\ at < Len(input) /\ SpanHits # {}
        /\ inRoom' = (inRoom /\ (machine = "scalar" \/ Room(scratch, into, SpanWidth)))
        /\ at' = at + k /\ into' = into + k
        /\ scratch' = IF b = QUOTE THEN Publish(filled, into + k) ELSE filled
        /\ IF b = BACKSLASH THEN decoding' = "escape" /\ UNCHANGED result
           ELSE IF b = QUOTE
           THEN Return([kind |-> IF raw THEN "raw" ELSE "decoded",
                        content |-> Take(filled.mem, into + k), end |-> at + k + 1])
           ELSE Return(Error("control"))
        /\ UNCHANGED <<input, machine, raw>>

StringInit ==
    /\ input = <<>> /\ machine = "scalar" /\ at = 0 /\ into = 0
    /\ scratch = EmptyBuffer /\ decoding = "idle" /\ raw = FALSE /\ inRoom = TRUE
    /\ result = NoResult

(* The tokenizer has found a quote at the start of `text`.                 *)
BeginString(text, m) ==
    /\ decoding = "idle"
    /\ input' = text /\ machine' = m
    /\ decoding' = "start"
    /\ UNCHANGED <<at, into, scratch, raw, inRoom, result>>

StringForget ==
    /\ input' = <<>> /\ machine' = "scalar" /\ at' = 0 /\ into' = 0
    /\ scratch' = EmptyBuffer /\ decoding' = "idle" /\ raw' = FALSE /\ inRoom' = TRUE
    /\ result' = NoResult

StringNext ==
    \/ ScanFirst \/ DecodeEscape \/ SpanRunsOut \/ CopyCleanChunk \/ SpanEnds

-----------------------------------------------------------------------------
(* What the input says from offset k on, one item at a time: the item's    *)
(* bytes and length, the end of the string, or an error.                   *)
ItemAt(k) ==
    IF ByteAt(k) = -1 THEN Broken("unterminated")
    ELSE IF ByteAt(k) = QUOTE THEN Broken("closed")
    ELSE IF ByteAt(k) = BACKSLASH THEN EscapeBehind(k)
    ELSE IF ByteAt(k) < 32 THEN Broken("control")
    ELSE Decoded(<<ByteAt(k)>>, 1, FALSE)

Reference ==
    LET Read[k \in 1..(Len(input) + 12)] ==
            LET item == ItemAt(k)
                rest == Read[k + item.length]
            IN  IF item.kind # "ok" THEN [kind |-> item.kind, content |-> <<>>, end |-> k + 1, lone |-> FALSE]
                ELSE [kind |-> rest.kind, content |-> item.out \o rest.content, end |-> rest.end,
                      lone |-> item.lone \/ rest.lone]
    IN  Read[1]

(* parse_string gives the content, the kind of the string and its end that *)
(* a reading item by item gives, and its error (scalars.rs 300-408):       *)
(* however chunks, backward tails and escapes lie in the input.            *)
DecodesByReference ==
    LET reference == Reference
    IN  decoding = "done" =>
            IF reference.kind = "closed"
            THEN /\ result.kind \in {"borrowed", "decoded", "raw"}
                 /\ result.content = reference.content /\ result.end = reference.end
                 /\ result.kind = "raw" <=> reference.lone
            ELSE result.kind = reference.kind

(* The chunks stored while decoding, padding included, stay in the scratch *)
(* capacity that was reserved before the first escape (scalars.rs          *)
(* 317-328, 443-480): decoded bytes never outrun the source.               *)
ScratchStoresReserved == inRoom
=============================================================================
