------------------------------- MODULE Stage1 -------------------------------
(***************************************************************************)
(* stage1.rs: the index of token starts, a block of bytes at a time, and   *)
(* the container skip of the pull reader.  A mask of a block (a u64 in the *)
(* code) is the set of the positions whose bit is set; what one block      *)
(* leaves for the next is in `carries`.  The four classifiers differ in    *)
(* how they find the class of a byte; the three index loops and the two    *)
(* skips share what follows.  Offsets are those of the code, from 0.       *)
(*                                                                         *)
(* A definition named Slip_X is X with a plausible bug in it; no other     *)
(* definition uses it.                                                     *)
(***************************************************************************)
EXTENDS Integers, Sequences, FiniteSets

CONSTANTS Texts,       \* the inputs: sequences of bytes
          Targets,     \* [isa, packed]: the kernel that runs and the encoding
          LogWidth,    \* a block has 2^LogWidth bytes (6)
          Slots,       \* entries stored at a time by flatten_bits (8)
          OffsetBits,  \* bits of an index entry (32)
          PackedBits   \* bits of the offset in a packed entry (24)

ASSUME WidthAssumption == LogWidth \in Nat \ {0} /\ Slots \in Nat \ {0}
ASSUME OffsetAssumption == OffsetBits \in Nat /\ PackedBits \in Nat
ASSUME TextsAssumption == Texts \subseteq Seq(0..255)

VARIABLES text, target, pc, base, carries, out, fits, start, depth, quoted, end

vars == <<text, target, pc, base, carries, out, fits, start, depth, quoted, end>>
indexVars == <<carries, out, fits>>
skipVars == <<start, depth, quoted, end>>

Width == 2 ^ LogWidth
Bits  == 0..(Width - 1)

QUOTE == 34
BACKSLASH == 92
Openers == {91, 123}
Closers == {93, 125}
Ops == Openers \cup Closers \cup {44, 58}
Spaces == {32, 9, 10, 13}

Carries == [in_string: BOOLEAN, escaped: BOOLEAN, scalar: BOOLEAN]
NoCarries == [in_string |-> FALSE, escaped |-> FALSE, scalar |-> FALSE]

None == -1

-----------------------------------------------------------------------------
(* Masks.                                                                  *)

ShiftUp(m, k) == {i + k : i \in m} \cap Bits
Xor(a, b) == (a \ b) \cup (b \ a)
TopBit(m) == Width - 1 \in m
LowBit(b) == IF b THEN {0} ELSE {}

(* overflowing_add: a carry arrives at i when two bits met below it and    *)
(* every position in between passes it on.                                 *)
CarryInto(a, b, i) ==
    \E j \in 0..(i - 1) : j \in a \cap b /\ (j + 1)..(i - 1) \subseteq a \cup b
SumOf(a, b) == {i \in Bits : (i \in Xor(a, b)) # CarryInto(a, b, i)}

(* prefix_xor: shift and xor, by 1, 2, 4, ... half the width.              *)
PrefixXor(x) ==
    LET Step[k \in 0..LogWidth] ==
            IF k = 0 THEN x ELSE Xor(Step[k - 1], ShiftUp(Step[k - 1], 2 ^ (k - 1)))
    IN  Step[LogWidth]

Slip_FindEscaped(c, backslashes) ==  \* an escape that ends a block forgotten
    LET even == {i \in Bits : i % 2 = 0}
        live == IF c.escaped THEN backslashes \ {0} ELSE backslashes
        follows == ShiftUp(live, 1) \cup LowBit(c.escaped)
        oddStarts == (live \ even) \ follows
    IN  [mask |-> Xor(even, ShiftUp(SumOf(oddStarts, live), 1)) \cap follows,
         escaped |-> FALSE]

(* find_escaped: the bytes behind an odd run of backslashes.  A run that   *)
(* starts at an odd position is added to the backslashes, which carries it *)
(* to the position after its end.                                          *)
FindEscaped(c, backslashes) ==
    LET even == {i \in Bits : i % 2 = 0}
        live == IF c.escaped THEN backslashes \ {0} ELSE backslashes
        follows == ShiftUp(live, 1) \cup LowBit(c.escaped)
        oddStarts == (live \ even) \ follows
    IN  IF backslashes = {}
        THEN [mask |-> LowBit(c.escaped), escaped |-> FALSE]
        ELSE [mask |-> Xor(even, ShiftUp(SumOf(oddStarts, live), 1)) \cap follows,
              escaped |-> CarryInto(oddStarts, live, Width)]

(* block_ops: the structural bytes outside strings, and what the next      *)
(* block has to know.                                                      *)
BlockOps(c, m) ==
    LET escaped == FindEscaped(c, m.backslash)
        quote == m.quote \ escaped.mask
        string == Xor(PrefixXor(quote), IF c.in_string THEN Bits ELSE {})
    IN  [bits |-> m.op \ Xor(string, quote),
         carries |-> [c EXCEPT !.in_string = TopBit(string), !.escaped = escaped.escaped]]

Slip_BlockStructurals(c, m) ==  \* a scalar cut by the block's end starts again
    LET escaped == FindEscaped(c, m.backslash)
        quote == m.quote \ escaped.mask
        string == Xor(PrefixXor(quote), IF c.in_string THEN Bits ELSE {})
        scalar == Bits \ (m.op \cup m.ws)
        follows == ShiftUp(scalar \ quote, 1)
    IN  [bits |-> (m.op \cup (scalar \ follows)) \ Xor(string, quote),
         carries |-> [in_string |-> TopBit(string), escaped |-> escaped.escaped,
                      scalar |-> TopBit(scalar \ quote)]]

(* block_structurals: structural bytes and the first byte of every scalar, *)
(* a quote included, outside strings.                                      *)
BlockStructurals(c, m) ==
    LET escaped == FindEscaped(c, m.backslash)
        quote == m.quote \ escaped.mask
        string == Xor(PrefixXor(quote), IF c.in_string THEN Bits ELSE {})
        scalar == Bits \ (m.op \cup m.ws)
        follows == ShiftUp(scalar \ quote, 1) \cup LowBit(c.scalar)
    IN  [bits |-> (m.op \cup (scalar \ follows)) \ Xor(string, quote),
         carries |-> [in_string |-> TopBit(string), escaped |-> escaped.escaped,
                      scalar |-> TopBit(scalar \ quote)]]

-----------------------------------------------------------------------------
(* The classifiers.                                                        *)

(* LO_NIBBLE and HI_NIBBLE, an entry as the set of its bits.               *)
LO_NIBBLE == [n \in 0..15 |->
    CASE n = 0 -> {4} [] n = 9 -> {3} [] n = 10 -> {2, 3} [] n = 11 -> {0}
      [] n = 12 -> {1} [] n = 13 -> {0, 3} [] OTHER -> {}]
HI_NIBBLE == [n \in 0..15 |->
    CASE n = 0 -> {3} [] n = 2 -> {1, 4} [] n = 3 -> {2} [] n \in {5, 7, 13} -> {0}
      [] n = 11 -> {0, 1} [] n = 12 -> {1} [] OTHER -> {}]

NibbleClass(b) == LO_NIBBLE[b % 16] \cap HI_NIBBLE[b \div 16]
NibbleOps    == {b \in 0..255 : NibbleClass(b) \cap 0..2 # {}}
NibbleSpaces == {b \in 0..255 : NibbleClass(b) \cap 3..4 # {}}

(* A block's bytes: those of the text from b on, zeros behind its end.     *)
BlockAt(b) == [i \in Bits |-> IF b + i < Len(text) THEN text[b + i + 1] ELSE 0]
Where(block, bytes) == {i \in Bits : block[i] \in bytes}

NeonMasks(block) ==
    [backslash |-> Where(block, {BACKSLASH}), quote |-> Where(block, {QUOTE}),
     op |-> Where(block, NibbleOps), ws |-> Where(block, NibbleSpaces)]
Sse2Masks(block) ==
    [backslash |-> Where(block, {BACKSLASH}), quote |-> Where(block, {QUOTE}),
     op |-> Where(block, Ops), ws |-> Where(block, Spaces)]
Avx2Masks(block) ==
    [backslash |-> Where(block, {BACKSLASH}), quote |-> Where(block, {QUOTE}),
     op |-> Where(block, NibbleOps), ws |-> Where(block, NibbleSpaces)]
ScalarMasks(block) ==
    [backslash |-> Where(block, {BACKSLASH}), quote |-> Where(block, {QUOTE}),
     op |-> Where(block, NibbleOps), ws |-> Where(block, NibbleSpaces)]
(* avx2::classify_block, for the skip alone: no whitespace.                *)
Avx2SkipMasks(block) ==
    [backslash |-> Where(block, {BACKSLASH}), quote |-> Where(block, {QUOTE}),
     op |-> Where(block, NibbleOps), ws |-> {}]

(* The masks of the kernels that share index_driver and the skip.          *)
Classify(isa, block) == IF isa = "neon" THEN NeonMasks(block) ELSE Sse2Masks(block)
MasksOf(isa, block) ==
    CASE isa = "avx2" -> Avx2Masks(block)
      [] isa = "scalar" -> ScalarMasks(block)
      [] OTHER -> Classify(isa, block)

-----------------------------------------------------------------------------
(* The index.                                                              *)

Slip_Reserved == Len(text)  \* the slack of the last store forgotten

(* out.reserve(input.len() + 8): the capacity a call is sure of.           *)
Reserved == Len(text) + Slots

(* The k-th position of a mask, as trailing_zeros finds them one by one.   *)
Below(bits, i) == Cardinality({j \in bits : j < i})
BitAt(bits, k) == CHOOSE i \in bits : Below(bits, i) = k - 1

Entry(block, i) ==
    IF target.packed
    THEN [offset |-> (base + i) % 2 ^ PackedBits, byte |-> block[i]]
    ELSE [offset |-> (base + i) % 2 ^ OffsetBits, byte |-> 0]

(* flatten_bits: an entry for every bit, in order; the stores go on to the *)
(* end of the last group of Slots, and `fits` says whether they all stayed *)
(* within the capacity.                                                    *)
Flatten(bits, block) ==
    LET count == Cardinality(bits)
        groups == (count + Slots - 1) \div Slots
    IN  /\ out' = out \o [k \in 1..count |-> Entry(block, BitAt(bits, k))]
        /\ fits' = (fits /\ (bits = {} \/ Len(out) + groups * Slots <= Reserved))

IndexLenOk(len, packed) ==
    IF packed THEN len < 2 ^ PackedBits ELSE len <= 2 ^ OffsetBits - 1

(* index and index_packed: a length the offsets cannot hold is refused.    *)
Refuse ==
    /\ pc = "idle"
    /\ text' \in Texts
    /\ target' \in Targets
    /\ ~ IndexLenOk(Len(text'), target'.packed)
    /\ pc' = "refused"
    /\ UNCHANGED <<base, indexVars, skipVars>>

Start ==
    /\ pc = "idle"
    /\ text' \in Texts
    /\ target' \in Targets
    /\ IndexLenOk(Len(text'), target'.packed)
    /\ pc' = "index"
    /\ out' = <<>> /\ base' = 0 /\ carries' = NoCarries /\ fits' = TRUE
    /\ UNCHANGED skipVars

(* One full block, and the rest of the input in a zero-padded one, whose   *)
(* mask is cut to the bytes that are there.                                *)
IndexBlock(masks) ==
    LET found == BlockStructurals(carries, masks)
    IN  /\ pc = "index" /\ base + Width <= Len(text)
        /\ carries' = found.carries
        /\ Flatten(found.bits, BlockAt(base))
        /\ base' = base + Width
        /\ UNCHANGED <<text, target, pc, skipVars>>

IndexTail(masks) ==
    LET found == BlockStructurals(carries, masks)
    IN  /\ pc = "index" /\ base < Len(text) /\ Len(text) < base + Width
        /\ carries' = found.carries
        /\ Flatten(found.bits \cap 0..(Len(text) - base - 1), BlockAt(base))
        /\ base' = Len(text)
        /\ UNCHANGED <<text, target, pc, skipVars>>

(* The loops: index_driver under NEON and SSE2, AVX2's, the scalar one.    *)
DriverBlock == target.isa \in {"neon", "sse2"} /\ IndexBlock(Classify(target.isa, BlockAt(base)))
DriverTail  == target.isa \in {"neon", "sse2"} /\ IndexTail(Classify(target.isa, BlockAt(base)))
Avx2Block   == target.isa = "avx2" /\ IndexBlock(Avx2Masks(BlockAt(base)))
Avx2Tail    == target.isa = "avx2" /\ IndexTail(Avx2Masks(BlockAt(base)))
ScalarBlock == target.isa = "scalar" /\ IndexBlock(ScalarMasks(BlockAt(base)))
ScalarTail  == target.isa = "scalar" /\ IndexTail(ScalarMasks(BlockAt(base)))

Indexed ==
    /\ pc = "index" /\ base = Len(text)
    /\ pc' = "indexed"
    /\ UNCHANGED <<text, target, base, indexVars, skipVars>>

-----------------------------------------------------------------------------
(* The container skip.  Its caller has read an opener as a token.          *)

OpenerOffsets ==
    {out[k].offset : k \in {j \in DOMAIN out : text[out[j].offset + 1] \in Openers}}

BlockStart(offset) == offset - (offset % Width)

BeginSkip ==
    /\ pc = "indexed"
    /\ start' \in OpenerOffsets
    /\ base' = IF target.isa = "scalar" THEN start' ELSE BlockStart(start')
    /\ carries' = NoCarries /\ depth' = 0 /\ quoted' = FALSE
    /\ pc' = "skip"
    /\ UNCHANGED <<text, target, out, fits, end>>

Slip_Live(masks) == masks  \* what lies before start counted

(* In the block of `start` only the bits from it on are live.              *)
Live(masks) ==
    LET on == IF base = BlockStart(start) THEN (start - base)..(Width - 1) ELSE Bits
    IN  [masks EXCEPT !.backslash = @ \cap on, !.quote = @ \cap on, !.op = @ \cap on]

DepthAfter(bits, i) ==
    LET Of(set) == Cardinality({j \in bits : j <= i /\ text[base + j + 1] \in set})
    IN  depth + Of(Openers) - Of(Closers)

SkipEnds(offset) ==
    /\ end' = offset
    /\ pc' = "skipped"
    /\ UNCHANGED <<text, target, base, out, fits, start, carries, depth, quoted>>

(* container_end_driver: a block's structural bits outside strings, up to  *)
(* the closer that brings the depth to zero.                               *)
SkipBlock ==
    LET block == BlockAt(base)
        found == BlockOps(carries,
                          Live(IF target.isa = "avx2" THEN Avx2SkipMasks(block)
                               ELSE Classify(target.isa, block)))
        closing == {i \in found.bits : /\ text[base + i + 1] \in Closers
                                       /\ DepthAfter(found.bits, i) = 0}
    IN  /\ pc = "skip" /\ target.isa # "scalar" /\ base < Len(text)
        /\ IF closing # {}
           THEN SkipEnds(base + (CHOOSE i \in closing : \A j \in closing : i <= j) + 1)
           ELSE /\ carries' = found.carries
                /\ depth' = DepthAfter(found.bits, Width)
                /\ base' = base + Width
                /\ UNCHANGED <<text, target, pc, out, fits, start, quoted, end>>

(* container_end_scalar, a byte at a time: outside a string, and inside.   *)
ScalarSkipByte ==
    LET b == text[base + 1]
        level == IF b \in Openers THEN depth + 1 ELSE IF b \in Closers THEN depth - 1 ELSE depth
    IN  /\ pc = "skip" /\ target.isa = "scalar" /\ ~ quoted /\ base < Len(text)
        /\ IF b \in Closers /\ level = 0
           THEN SkipEnds(base + 1)
           ELSE /\ depth' = level
                /\ quoted' = (b = QUOTE)
                /\ base' = base + 1
                /\ UNCHANGED <<text, target, pc, carries, out, fits, start, end>>

ScalarSkipQuoted ==
    LET b == text[base + 1]
    IN  /\ pc = "skip" /\ target.isa = "scalar" /\ quoted /\ base < Len(text)
        /\ quoted' = (b # QUOTE)
        /\ base' = base + (IF b = BACKSLASH THEN 2 ELSE 1)
        /\ UNCHANGED <<text, target, pc, carries, out, fits, start, depth, end>>

SkipRunsOut ==
    /\ pc = "skip" /\ base >= Len(text)
    /\ SkipEnds(None)

(* The caller is done with the index or the offset.                        *)
Finish ==
    /\ pc \in {"refused", "indexed", "skipped"}
    /\ text' = <<>> /\ pc' = "idle" /\ base' = 0 /\ carries' = NoCarries
    /\ out' = <<>> /\ fits' = TRUE
    /\ start' = 0 /\ depth' = 0 /\ quoted' = FALSE /\ end' = None
    /\ UNCHANGED target

Init ==
    /\ text = <<>> /\ target \in Targets /\ pc = "idle" /\ base = 0
    /\ carries = NoCarries /\ out = <<>> /\ fits = TRUE
    /\ start = 0 /\ depth = 0 /\ quoted = FALSE /\ end = None

Next ==
    \/ Start \/ Refuse
    \/ DriverBlock \/ DriverTail \/ Avx2Block \/ Avx2Tail \/ ScalarBlock \/ ScalarTail
    \/ Indexed \/ BeginSkip \/ SkipBlock \/ ScalarSkipByte \/ ScalarSkipQuoted
    \/ SkipRunsOut \/ Finish

Spec == Init /\ [][Next]_vars

-----------------------------------------------------------------------------
(* What a text says, without blocks: a byte is escaped by an odd run of    *)
(* backslashes before it, a quote that is not escaped opens or closes a    *)
(* string.                                                                 *)
Offsets == 0..(Len(text) - 1)

Escaped(i) ==
    \E n \in 1..i :
        /\ n % 2 = 1
        /\ \A j \in (i - n)..(i - 1) : text[j + 1] = BACKSLASH
        /\ i - n > 0 => text[i - n] # BACKSLASH
RealQuotes == {i \in Offsets : text[i + 1] = QUOTE /\ ~ Escaped(i)}
WithinString(i) == Cardinality({q \in RealQuotes : q < i}) % 2 = 1
ScalarByte(i) == text[i + 1] \notin Ops \cup Spaces
StartsToken(i) ==
    /\ ~ WithinString(i)
    /\ text[i + 1] \in Ops \/
       (ScalarByte(i) /\ ~ (i > 0 /\ ScalarByte(i - 1) /\ i - 1 \notin RealQuotes))

(* The bytes that the nibble tables take for structural ones.  No valid    *)
(* document has one outside a string.                                      *)
Misread(b) ==
    \/ (b \in NibbleOps) # (b \in Ops)
    \/ (b \in NibbleSpaces) # (b \in Spaces)
Benign == \A i \in Offsets : Misread(text[i + 1]) => WithinString(i)

Indexing == pc \in {"index", "indexed"}

(* The entries are offsets of the text, in ascending order.                *)
EntriesInText == \A k \in DOMAIN out : out[k].offset \in 0..(Len(text) - 1)
EntriesAscend == \A j, k \in DOMAIN out : j < k => out[j].offset < out[k].offset

(* Every token start of the bytes indexed so far is in the index, in       *)
(* order, and nothing else is: no block boundary, escape or padding adds   *)
(* or loses one, and no offset is truncated (stage1.rs 62-79, 646-679).    *)
(* A packed entry carries the byte at its offset.                          *)
IndexesTokenStarts ==
    Indexing /\ Benign =>
        /\ {out[k].offset : k \in DOMAIN out} = {i \in Offsets : i < base /\ StartsToken(i)}
        /\ EntriesAscend
        /\ target.packed => \A k \in DOMAIN out : out[k].byte = text[out[k].offset + 1]

(* Between two blocks the three carried words say of the text what a scan  *)
(* from its start would (stage1.rs 20-28): an open string, a byte escaped  *)
(* by the run of backslashes that ends there, a scalar cut in two.  Within *)
(* a string the last says nothing: its bytes may be misread.               *)
CarriesMatchText ==
    pc = "index" /\ Benign /\ base % Width = 0 /\ base > 0 =>
        /\ carries.in_string = (Cardinality(RealQuotes \cap 0..(base - 1)) % 2 = 1)
        /\ carries.escaped = Escaped(base)
        /\ ~ carries.in_string =>
               carries.scalar = (ScalarByte(base - 1) /\ base - 1 \notin RealQuotes)

(* flatten_bits stores whole groups past the entries it keeps; the stores  *)
(* never pass the capacity reserved for the call (stage1.rs 128-157).      *)
StoresStayReserved == fits

(* container_end starts in the middle of a block without the bytes before  *)
(* it, and still ends where the index of the whole text has the closer of  *)
(* the opener (stage1.rs 757-799).  A scalar scan reads a backslash only   *)
(* inside strings, where a document has them.                              *)
EscapesInStrings ==
    \A i \in Offsets : text[i + 1] = BACKSLASH => WithinString(i)
SkipMatchesIndex ==
    LET Level(j) == LET Of(set) == Cardinality({i \in start..j : StartsToken(i) /\ text[i + 1] \in set})
                    IN  Of(Openers) - Of(Closers)
        closers == {j \in start..(Len(text) - 1) : /\ text[j + 1] \in Closers /\ StartsToken(j)
                                                   /\ Level(j) = 0}
    IN  pc = "skipped" /\ Benign /\ (target.isa = "scalar" => EscapesInStrings) =>
            end = IF closers = {} THEN None ELSE (CHOOSE j \in closers : \A k \in closers : j <= k) + 1

(* The comment at stage1.rs 159-163: all the implementations, the scalar   *)
(* model and every SIMD kernel, agree bit for bit, also on the bytes over  *)
(* 0x7F that the tables misread.                                           *)
KernelsAgree ==
    pc = "index" =>
        \A one, other \in {t.isa : t \in Targets} :
            BlockStructurals(carries, MasksOf(one, BlockAt(base))).bits \cap 0..(Len(text) - base - 1)
              = BlockStructurals(carries, MasksOf(other, BlockAt(base))).bits \cap 0..(Len(text) - base - 1)
=============================================================================
