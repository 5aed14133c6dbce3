------------------------------- MODULE Escape -------------------------------
(***************************************************************************)
(* emit.rs: escape_into.  The fused loop stores every chunk it scans into  *)
(* reserved capacity before it knows whether the chunk is clean, through a *)
(* pointer it holds across the steps; the first escape reserves the worst  *)
(* case for all that is left and no later store looks at the capacity.     *)
(* One action per turn of the loop and per escape.  `sound` says whether   *)
(* every store so far was within the capacity, through a live pointer.     *)
(* Strings are sequences of code points, `bytes` their UTF-8.              *)
(*                                                                         *)
(* A definition named Slip_X is X with a plausible bug in it; no other     *)
(* definition uses it.                                                     *)
(***************************************************************************)
EXTENDS RawBuffers, ByteClasses, SequencesExt

CONSTANTS Strings,      \* the strings written: sequences of code points
          Hosts,        \* "neon", "sse2", "avx2" or "scalar" machines
          WordWidth,    \* bytes of a SWAR word (8)
          Spares        \* capacities behind the quote a buffer begins with

(* The code points: 17 planes.  The upper ones are two surrogates in UTF-16. *)
CodePoints == {cp \in Nat : cp \div 65536 < 17}
Upper(cp) == cp \div 65536 > 0

ASSUME StringsAssumption == Strings \subseteq Seq(CodePoints)
ASSUME HostsAssumption == Hosts \subseteq {"neon", "sse2", "avx2", "scalar"}
ASSUME WordAssumption == WordWidth \in Nat \ {0}
ASSUME SparesAssumption == Spares \subseteq Nat

VARIABLES chars, bytes, mode, host, kernel, i, w, buf, base, worst, sound, step

escapeVars == <<chars, bytes, mode, host, kernel, i, w, buf, base, worst, sound, step>>
fixed == <<chars, bytes, mode, host, kernel>>

(* UTF-8, from the bits of a code point six at a time.                     *)
Utf8(cp) ==
    LET Continuation(bits) == 128 + (bits % 64)
        over6 == cp \div 64
        over12 == over6 \div 64
        over18 == over12 \div 64
    IN  IF cp < 128 THEN <<cp>>
        ELSE IF cp < 2048 THEN <<192 + over6, Continuation(cp)>>
        ELSE IF ~ Upper(cp) THEN <<224 + over12, Continuation(over6), Continuation(cp)>>
        ELSE <<240 + over18, Continuation(over12), Continuation(over6), Continuation(cp)>>
BytesOf(cps) == FlattenSeq([k \in DOMAIN cps |-> Utf8(cps[k])])

Width == IF kernel = "avx2" THEN 2 * VectorWidth ELSE VectorWidth
MAX_ESCAPE_EXPANSION == 6

Left == Len(bytes) - i

-----------------------------------------------------------------------------
(* The escapes.                                                            *)

HEX == [d \in 0..15 |-> IF d < 10 THEN 48 + d ELSE 87 + d]

U16Escape(cp) ==
    <<BACKSLASH, 117, HEX[cp \div 4096], HEX[(cp \div 256) % 16], HEX[(cp \div 16) % 16],
      HEX[cp % 16]>>

(* ESC_SEQ, an 8-byte entry, and ESC_LEN, what counts of it.               *)
ShortEscapes == [b \in {8, 9, 10, 12, 13, QUOTE, BACKSLASH} |->
    CASE b = 8 -> 98 [] b = 9 -> 116 [] b = 10 -> 110 [] b = 12 -> 102 [] b = 13 -> 114
      [] OTHER -> b]
EscLen(b) == IF b \in DOMAIN ShortEscapes THEN 2 ELSE 6
EscSeq(b) ==
    IF b \in DOMAIN ShortEscapes THEN <<BACKSLASH, ShortEscapes[b], 0, 0, 0, 0, 0, 0>>
    ELSE U16Escape(b) \o <<0, 0>>

DecodeUtf8(at) ==
    LET b0 == bytes[at + 1]
        More(bits, k) == bits * 64 + (bytes[at + k + 1] % 64)
    IN  IF b0 < 224 THEN [cp |-> More(b0 % 32, 1), len |-> 2]
        ELSE IF b0 < 240 THEN [cp |-> More(More(b0 % 16, 1), 2), len |-> 3]
        ELSE [cp |-> More(More(More(b0 % 8, 1), 2), 3), len |-> 4]

IsSeparator(at) ==
    /\ at + 2 < Len(bytes)
    /\ bytes[at + 2] = JS_SEP_CONT
    /\ bytes[at + 3] \in {JS_SEP_LAST_2028, JS_SEP_LAST_2029}

(* The code point of a separator, and the two halves of an upper one.      *)
SeparatorAt(at) == 8232 + bytes[at + 3] - JS_SEP_LAST_2028
HighHalf(cp) == 55296 + (cp - 65536) \div 1024
LowHalf(cp) == 56320 + ((cp - 65536) % 1024)
Surrogates(cp) == U16Escape(HighHalf(cp)) \o U16Escape(LowHalf(cp))

(* A turn of write_escape_run_raw: the bytes it stores for the source at   *)
(* `at`, how many count, and how many source bytes they stand for.         *)
EscapeAt(at) ==
    LET b == bytes[at + 1]
        Stored(out, from) == [out |-> out, len |-> Len(out), from |-> from]
        decoded == DecodeUtf8(at)
    IN  IF b \in {QUOTE, BACKSLASH} THEN Stored(<<BACKSLASH, b>>, 1)
        ELSE IF b < 32 THEN [out |-> EscSeq(b), len |-> EscLen(b), from |-> 1]
        ELSE IF mode = "script_safe" /\ b = SLASH THEN Stored(<<BACKSLASH, SLASH>>, 1)
        ELSE IF EscapesHtmlEntities(mode) /\ b \in Html THEN Stored(U16Escape(b), 1)
        ELSE IF EscapesJsSeparators(mode) /\ b = JS_SEP_LEAD
             THEN IF IsSeparator(at) THEN Stored(U16Escape(SeparatorAt(at)), 3)
                  ELSE Stored(<<JS_SEP_LEAD>>, 1)
        ELSE IF mode = "ascii_only" /\ b >= 128
             THEN Stored(IF Upper(decoded.cp) THEN Surrogates(decoded.cp)
                         ELSE U16Escape(decoded.cp), decoded.len)
        ELSE Stored(<<b>>, 1)

-----------------------------------------------------------------------------
(* The loops.                                                              *)

Store(at, out) ==
    /\ buf' = Put(buf, at, out)
    /\ sound' = (sound /\ base = buf.gen /\ Room(buf, at, Len(out)))

Finished(length) == buf' = Publish(buf, length) /\ step' = "escaped"

(* escape_impl: short strings take the narrow loop.                        *)
KernelOn(machine, length) ==
    CASE machine = "avx2" -> IF length >= VectorWidth THEN "avx2" ELSE "sse2"
      [] machine = "scalar" -> "swar"
      [] OTHER -> machine

BeginEscape ==
    /\ step = "idle"
    /\ host' \in Hosts /\ mode' \in Modes /\ chars' \in Strings
    /\ bytes' = BytesOf(chars')
    /\ kernel' = KernelOn(host', Len(bytes'))
    /\ buf' = IF kernel' = "swar" THEN buf ELSE Reserve(buf, Len(bytes') + Width')
    /\ base' = buf'.gen
    /\ i' = 0 /\ w' = buf.len
    /\ step' = IF kernel' = "swar" THEN "span" ELSE "scan"
    /\ UNCHANGED <<worst, sound>>

(* The chunk at i, padded with zeros at the end of the string.             *)
Chunk ==
    IF Left >= Width THEN SubSeq(bytes, i + 1, i + Width)
    ELSE PaddedTail(FromOffset(bytes, i), Width)

Hits == HitLanes(kernel, mode, Chunk) \cap 0..(Left - 1)

CleanChunk ==
    /\ step = "scan" /\ Left >= Width /\ Hits = {}
    /\ Store(w, Chunk)
    /\ i' = i + Width /\ w' = w + Width
    /\ UNCHANGED <<fixed, base, worst, step>>

CleanTail ==
    /\ step = "scan" /\ 0 < Left /\ Left < Width /\ Hits = {}
    /\ LET stored == Put(buf, w, Chunk)
       IN  buf' = Publish(stored, w + Left)
    /\ sound' = (sound /\ base = buf.gen /\ Room(buf, w, Width))
    /\ step' = "escaped"
    /\ UNCHANGED <<fixed, i, w, base, worst>>

EndOfScan ==
    /\ step = "scan" /\ Left = 0
    /\ Finished(w)
    /\ UNCHANGED <<fixed, i, w, base, worst, sound>>

(* A chunk with a hit: what is before it is kept.  A byte that is always   *)
(* escaped is written inline once the worst case is reserved and the chunk *)
(* is whole; everything else goes through the slow path.                   *)
HitChunk ==
    /\ step = "scan" /\ Left > 0 /\ Hits # {}
    /\ Store(w, Chunk)
    /\ i' = i + Lowest(Hits) /\ w' = w + Lowest(Hits)
    /\ step' = IF worst /\ Left >= Width /\ "standard" \in ESCAPE_CLASS[bytes[i' + 1]]
               THEN "inline" ELSE "slow"
    /\ UNCHANGED <<fixed, base, worst>>

InlineEscape ==
    LET b == bytes[i + 1]
        out == IF b \in {QUOTE, BACKSLASH} THEN <<BACKSLASH, b>> ELSE EscSeq(b)
    IN  /\ step = "inline"
        /\ sound' = (sound /\ base = buf.gen /\ Room(buf, w, Len(out)))
        /\ i' = i + 1 /\ w' = w + EscLen(b)
        /\ IF i' >= Len(bytes)
           THEN buf' = Publish(Put(buf, w, out), w') /\ step' = "escaped"
           ELSE buf' = Put(buf, w, out) /\ step' = "scan"
        /\ UNCHANGED <<fixed, base, worst>>

Slip_SlowPath ==  \* the prefix not published before the buffer grows
    LET needed == w + MAX_ESCAPE_EXPANSION * Left + Width + 8
        grown == Reserve(buf, needed - w)
    IN  /\ step = "slow"
        /\ IF worst THEN UNCHANGED <<buf, base, worst>>
           ELSE buf' = grown /\ base' = grown.gen /\ worst' = TRUE
        /\ step' = "run"
        /\ UNCHANGED <<fixed, i, w, sound>>

Slip_WorstCase == MAX_ESCAPE_EXPANSION * Left + 8  \* no room for a last whole chunk
WorstCase == MAX_ESCAPE_EXPANSION * Left + Width + 8

(* escape_run_slow_path, up to its call of write_escape_run_raw.           *)
SlowPath ==
    LET grown == Reserve(Publish(buf, w), WorstCase)
    IN  /\ step = "slow"
        /\ IF worst THEN UNCHANGED <<buf, base, worst>>
           ELSE buf' = grown /\ base' = grown.gen /\ worst' = TRUE
        /\ step' = "run"
        /\ UNCHANGED <<fixed, i, w, sound>>

(* A turn of the escape run; only AsciiOnly goes on with the run.  The     *)
(* fallback publishes at its end and goes back to copying.                 *)
EscapeRun ==
    LET escape == EscapeAt(i)
        next == i + escape.from
        stored == Put(buf, w, escape.out)
        over == \/ mode # "ascii_only" \/ next >= Len(bytes)
                \/ ~ Attend(mode, bytes[next + 1])
        ended == next >= Len(bytes)
    IN  /\ step = "run"
        /\ sound' = (sound /\ base = buf.gen /\ Room(buf, w, Len(escape.out)))
        /\ i' = next /\ w' = w + escape.len
        /\ buf' = IF over /\ (ended \/ kernel = "swar") THEN Publish(stored, w') ELSE stored
        /\ step' = CASE ~ over -> "run"
                     [] over /\ kernel = "swar" -> "span"
                     [] over /\ kernel # "swar" -> IF ended THEN "escaped" ELSE "scan"
        /\ UNCHANGED <<fixed, base, worst>>

-----------------------------------------------------------------------------
(* fallback::escape, on hosts without vectors.                             *)

(* find_escape: a word at a time, then a byte at a time.                   *)
FindEscape(from) ==
    LET Lanes(at) == SwarLanes(mode, SubSeq(bytes, at + 1, at + WordWidth))
        words == {at \in from..(Len(bytes) - WordWidth) :
                     (at - from) % WordWidth = 0 /\ Lanes(at) # {}}
        tail == Len(bytes) - ((Len(bytes) - from) % WordWidth)
        rest == {at \in tail..(Len(bytes) - 1) : Attend(mode, bytes[at + 1])}
    IN  IF words # {} THEN Lowest(words) + Lowest(Lanes(Lowest(words)))
        ELSE Lowest(rest \cup {Len(bytes)})

(* The clean span, by push_short or extend_from_slice, and the reservation *)
(* of the run behind it.                                                   *)
PushSpan(span) ==
    LET room == IF Len(span) <= 16 THEN Reserve(buf, 16) ELSE Reserve(buf, Len(span))
        stored == IF Len(span) <= 16 THEN CopySmall(room, buf.len, span)
                  ELSE Put(room, buf.len, span)
    IN  Publish(stored, buf.len + Len(span))

CopySpan ==
    LET next == FindEscape(i)
        pushed == PushSpan(SubSeq(bytes, i + 1, next))
        reserved == Reserve(pushed, MAX_ESCAPE_EXPANSION * (Len(bytes) - next) + 8)
    IN  /\ step = "span" /\ i < Len(bytes)
        /\ i' = next
        /\ IF next = Len(bytes)
           THEN buf' = pushed /\ step' = "escaped" /\ UNCHANGED <<w, base>>
           ELSE /\ buf' = reserved /\ base' = reserved.gen /\ w' = reserved.len
                /\ step' = "run"
        /\ UNCHANGED <<fixed, worst, sound>>

EndOfSpans ==
    /\ step = "span" /\ i = Len(bytes)
    /\ step' = "escaped"
    /\ UNCHANGED <<fixed, i, w, buf, base, worst, sound>>

EscapeInit ==
    /\ chars = <<>> /\ bytes = <<>> /\ mode = "standard" /\ host \in Hosts /\ kernel = "swar"
    /\ i = 0 /\ w = 0 /\ base = 0 /\ worst = FALSE /\ sound = TRUE /\ step = "idle"
    /\ buf \in {[mem |-> <<QUOTE>> \o Repeat(Junk, n), len |-> 1, gen |-> 0] : n \in Spares}

(* The host takes the bytes and writes its next string into a new buffer.  *)
EscapeForget ==
    /\ chars' = <<>> /\ bytes' = <<>> /\ mode' = "standard" /\ kernel' = "swar"
    /\ i' = 0 /\ w' = 0 /\ base' = 0 /\ worst' = FALSE /\ sound' = TRUE /\ step' = "idle"
    /\ buf' = [mem |-> <<QUOTE>>, len |-> 1, gen |-> 0]
    /\ UNCHANGED host

EscapeNext ==
    \/ BeginEscape \/ CleanChunk \/ CleanTail \/ EndOfScan \/ HitChunk \/ InlineEscape
    \/ SlowPath \/ EscapeRun \/ CopySpan \/ EndOfSpans

-----------------------------------------------------------------------------
(* What a string is written as, a code point at a time.                    *)
Escaped(cp) ==
    IF cp \in DOMAIN ShortEscapes THEN <<BACKSLASH, ShortEscapes[cp]>>
    ELSE IF \/ cp < 32
            \/ cp \in Html /\ mode \in {"html_safe", "html_entities"}
            \/ cp \in {8232, 8233} /\ mode \in {"script_safe", "html_safe", "js_separators"}
            \/ cp >= 128 /\ ~ Upper(cp) /\ mode = "ascii_only"
         THEN U16Escape(cp)
    ELSE IF cp = SLASH /\ mode = "script_safe" THEN <<BACKSLASH, SLASH>>
    ELSE IF Upper(cp) /\ mode = "ascii_only" THEN Surrogates(cp)
    ELSE Utf8(cp)

(* Escaping appends to the buffer what each code point is written as under *)
(* the mode, whatever the kernel, the chunk boundaries and the phase of    *)
(* the escapes, and leaves what the buffer held (emit.rs 254-360).         *)
EscapesByReference ==
    step = "escaped" =>
        Published(buf) = <<QUOTE>> \o FlattenSeq([k \in DOMAIN chars |-> Escaped(chars[k])])

(* Every store, whole chunks past the end of the text and table entries    *)
(* past the end of an escape, falls into capacity reserved before it and   *)
(* goes through a pointer taken after the last growth (emit.rs 496-612).   *)
EscapeStoresReserved == sound
=============================================================================
