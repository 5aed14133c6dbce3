---------------------------- MODULE NumberToken ----------------------------
(***************************************************************************)
(* scalars.rs: parse_number, parse_literal and parse_nan_keyword.  Digits  *)
(* are validated and accumulated in one pass, in a word that wraps on a    *)
(* long run; the number of digits then says whether the word can be        *)
(* trusted.  The word, the digits it can hold, the exponents of a double   *)
(* and the chunks of the scan are constants, scaled down together: what    *)
(* matters is 10^MaxDigits <= Word and IntMax + 1 = Word \div 2.           *)
(*                                                                         *)
(* A definition named Slip_X is X with a plausible bug in it; no other     *)
(* definition uses it.                                                     *)
(***************************************************************************)
EXTENDS Integers, Sequences

CONSTANTS ScalarTexts,  \* the texts: sequences of bytes, not empty
          ScanChunk,    \* digits taken at a time (8); then half as many (4)
          WORD,         \* 2^64
          MaxDigits,    \* decimal digits that always fit a word (19)
          MinPower,     \* a mantissa times 10^(less than this) is zero (-342)
          MaxPower      \* and times 10^(more than this) infinite (308)

VARIABLES scalar, token

tokenVars == <<scalar, token>>

IntMax == WORD \div 2 - 1

Byte(i) == IF i < Len(scalar) THEN scalar[i + 1] ELSE -1
Span(from, to) == SubSeq(scalar, from + 1, to)
IsDigit(b) == b \in 48..57
Boundary(b) == b \in {-1, 32, 9, 10, 13, 123, 125, 91, 93, 58, 44}

NoToken == [kind |-> "none"]
NumberError(kind) == [kind |-> kind]

-----------------------------------------------------------------------------
(* scan_digits_acc: whole chunks; of a chunk that is not all digits, half  *)
(* a chunk and then single bytes; single bytes at the end of the input.    *)

(* parse_8digits_le and parse_4digits_le, and a step of the byte loop.     *)
RECURSIVE DigitsFrom(_, _)
DigitsFrom(i, n) == IF n = 0 THEN 0 ELSE DigitsFrom(i, n - 1) * 10 + (Byte(i + n - 1) - 48)
Accumulate(acc, i, n) == (acc * 10 ^ n + DigitsFrom(i, n)) % WORD

Consecutive(i) ==
    CHOOSE n \in 0..ScanChunk :
        /\ \A j \in 0..(n - 1) : IsDigit(Byte(i + j))
        /\ n < ScanChunk => ~ IsDigit(Byte(i + n))

RECURSIVE ScanBytes(_, _, _)
ScanBytes(i, n, acc) ==
    IF n = 0 \/ ~ IsDigit(Byte(i)) THEN [end |-> i, acc |-> acc]
    ELSE ScanBytes(i + 1, n - 1, Accumulate(acc, i, 1))

RECURSIVE ScanDigits(_, _)
ScanDigits(i, acc) ==
    LET count == Consecutive(i)
        half == ScanChunk \div 2
    IN  IF i + ScanChunk > Len(scalar) THEN ScanBytes(i, Len(scalar) - i, acc)
        ELSE IF count = ScanChunk THEN ScanDigits(i + ScanChunk, Accumulate(acc, i, ScanChunk))
        ELSE IF count >= half THEN ScanBytes(i + half, count - half, Accumulate(acc, i, half))
        ELSE ScanBytes(i, count, acc)

-----------------------------------------------------------------------------
(* parse_number.                                                           *)

(* The integer digits: a zero stands alone.                                *)
IntegerPart(i) ==
    IF Byte(i) = 48 THEN [end |-> i + 1, acc |-> 0] ELSE ScanDigits(i, 0)

(* Leading zeros of an exponent or a fraction do not count.                *)
Slip_ZerosFrom(i, end) == 0
ZerosFrom(i, end) ==
    CHOOSE n \in 0..(end - i) :
        /\ \A j \in 0..(n - 1) : Byte(i + j) = 48
        /\ i + n < end => Byte(i + n) # 48

(* The exponent behind an 'e', saturated; an error has no digits.          *)
ExponentPart(i) ==
    LET signed == Byte(i + 1) \in {43, 45}
        start == IF signed THEN i + 2 ELSE i + 1
        scan == ScanDigits(start, 0)
        significant == scan.end - start - ZerosFrom(start, scan.end)
        size == IF significant >= MaxDigits \/ scan.acc > IntMax THEN IntMax ELSE scan.acc
    IN  [end |-> scan.end, missing |-> scan.end = start,
         value |-> IF Byte(i + 1) = 45 THEN -size ELSE size]

Integer(start, negative, digits, mantissa, end) ==
    IF digits <= MaxDigits /\ negative /\ mantissa = 0 THEN [kind |-> "negative_zero", end |-> end]
    ELSE IF digits <= MaxDigits /\ negative /\ mantissa <= IntMax + 1
    THEN [kind |-> "int", value |-> -mantissa, end |-> end]
    ELSE IF digits <= MaxDigits /\ ~ negative /\ mantissa <= IntMax
    THEN [kind |-> "int", value |-> mantissa, end |-> end]
    ELSE [kind |-> "big", text |-> Span(start, end), end |-> end]

(* A float of few significant digits is made from the word and the power   *)
(* of ten, exactly rounded (external); the others from their text.         *)
Float(negative, significant, mantissa, power, end) ==
    LET Value(is) == [kind |-> "float", is |-> is, negative |-> negative, mantissa |-> mantissa,
                      power |-> power, end |-> end]
    IN  IF significant > MaxDigits THEN Value("from_text")
        ELSE IF mantissa = 0 \/ power < MinPower THEN Value("zero")
        ELSE IF power > MaxPower THEN Value("infinite")
        ELSE Value("rounded")

ParseNumber(start) ==
    LET negative == Byte(start) = 45
        intStart == IF negative THEN start + 1 ELSE start
        int == IntegerPart(intStart)
        intLen == int.end - intStart
        dotted == Byte(int.end) = 46
        fracStart == IF dotted THEN int.end + 1 ELSE int.end
        frac == IF dotted THEN ScanDigits(fracStart, int.acc) ELSE int
        fracLen == frac.end - fracStart
        hasExp == Byte(frac.end) \in {69, 101}
        exp == IF hasExp THEN ExponentPart(frac.end)
               ELSE [end |-> frac.end, missing |-> FALSE, value |-> 0]
        power == IF exp.value - fracLen < -(IntMax + 1) THEN -(IntMax + 1) ELSE exp.value - fracLen
        significant == IF Byte(intStart) = 48 /\ intLen = 1
                       THEN fracLen - ZerosFrom(fracStart, frac.end)
                       ELSE intLen + fracLen
    IN  IF ~ IsDigit(Byte(intStart)) THEN NumberError("invalid_number")
        ELSE IF dotted /\ fracLen = 0 THEN NumberError("invalid_number")
        ELSE IF exp.missing THEN NumberError("invalid_number")
        ELSE IF ~ Boundary(Byte(exp.end)) THEN NumberError("trailing_garbage")
        ELSE IF fracLen = 0 /\ ~ hasExp THEN Integer(start, negative, intLen, int.acc, exp.end)
        ELSE Float(negative, significant, frac.acc, power, exp.end)

(* parse_literal and parse_nan_keyword.                                    *)
Literals == {<<116, 114, 117, 101>>, <<102, 97, 108, 115, 101>>, <<110, 117, 108, 108>>}
Keywords == {<<78, 97, 78>>, <<73, 110, 102, 105, 110, 105, 116, 121>>,
             <<45, 73, 110, 102, 105, 110, 105, 116, 121>>}
Begins(word) == Len(word) <= Len(scalar) /\ Span(0, Len(word)) = word

ParseLiteral ==
    LET words == {word \in Literals : Begins(word)}
        word == CHOOSE l \in words : TRUE
    IN  IF words = {} THEN NumberError("invalid_literal")
        ELSE IF ~ Boundary(Byte(Len(word))) THEN NumberError("trailing_garbage")
        ELSE [kind |-> "word", text |-> word, end |-> Len(word)]

ParseNanKeyword ==
    LET words == {word \in Keywords : Begins(word) /\ Boundary(Byte(Len(word)))}
        word == CHOOSE l \in words : TRUE
    IN  IF words = {} THEN NumberError("none") ELSE [kind |-> "word", text |-> word, end |-> Len(word)]

(* A tokenizer for each first byte, as the walkers choose it.              *)
TakeScalar ==
    /\ scalar = <<>>
    /\ scalar' \in ScalarTexts
    /\ UNCHANGED token

ReadScalar ==
    LET first == scalar[1]
    IN  /\ scalar # <<>> /\ token = NoToken
        /\ token' = IF first = 45 /\ ParseNanKeyword.kind # "none" THEN ParseNanKeyword
                    ELSE IF IsDigit(first) \/ first = 45 THEN ParseNumber(0)
                    ELSE IF first \in {73, 78} THEN ParseNanKeyword
                    ELSE IF first \in {102, 110, 116} THEN ParseLiteral
                    ELSE NumberError("unexpected_character")
        /\ UNCHANGED scalar

ForgetScalar ==
    /\ token # NoToken
    /\ scalar' = <<>> /\ token' = NoToken

TokenInit == scalar = <<>> /\ token = NoToken
TokenNext == TakeScalar \/ ReadScalar \/ ForgetScalar

-----------------------------------------------------------------------------
(* The grammar: an optional minus, an integer without a leading zero, a    *)
(* fraction, an exponent, and a boundary behind.                           *)
AllDigits(from, to) == from < to /\ \A i \in from..(to - 1) : IsDigit(Byte(i))

Shapes ==
    {s \in [int: 0..1, frac: 0..Len(scalar), exp: 0..Len(scalar), end: 1..Len(scalar)] :
        /\ s.int <= s.frac /\ s.frac <= s.exp /\ s.exp <= s.end
        /\ (s.int = 1) = (Byte(0) = 45)
        /\ AllDigits(s.int, s.frac) /\ (Byte(s.int) = 48 => s.frac = s.int + 1)
        /\ s.exp = s.frac \/ (Byte(s.frac) = 46 /\ AllDigits(s.frac + 1, s.exp))
        /\ \/ s.end = s.exp
           \/ /\ Byte(s.exp) \in {69, 101}
              /\ AllDigits(s.exp + (IF Byte(s.exp + 1) \in {43, 45} THEN 2 ELSE 1), s.end)
        /\ Boundary(Byte(s.end))}

(* The number a shape denotes, Whole * 10^Power, exactly.                  *)
FracLen(s) == IF s.exp = s.frac THEN 0 ELSE s.exp - s.frac - 1
Whole(s) == DigitsFrom(s.int, s.frac - s.int) * 10 ^ FracLen(s)
                + DigitsFrom(s.frac + 1, FracLen(s))
Power(s) ==
    LET signed == Byte(s.exp + 1) \in {43, 45}
        start == s.exp + (IF signed THEN 2 ELSE 1)
        size == IF s.end = s.exp THEN 0 ELSE DigitsFrom(start, s.end - start)
    IN  (IF s.end # s.exp /\ Byte(s.exp + 1) = 45 THEN -size ELSE size) - FracLen(s)

(* Whole lies below 10^n, and not below 10^n.                              *)
Below(whole, n) == n >= 0 /\ (n > 9 \/ whole < 10 ^ n)
NotBelow(whole, n) == n <= 0 \/ (n <= 9 /\ whole >= 10 ^ n)

IsIntegerShape(s) == s.frac = s.end

DenotesInteger(s) ==
    LET value == IF s.int = 1 THEN -Whole(s) ELSE Whole(s)
    IN  IF value = 0 /\ s.int = 1 THEN token.kind = "negative_zero"
        ELSE IF -(IntMax + 1) <= value /\ value <= IntMax
             THEN token.kind = "int" /\ token.value = value
             ELSE token.kind = "big" /\ token.text = Span(0, s.end)

(* Zero and infinity are what a double would round to as well: a tenth of  *)
(* the smallest power with every digit in use, ten times the largest one.  *)
DenotesFloat(s) ==
    /\ token.kind = "float" /\ token.negative = (s.int = 1)
    /\ CASE token.is = "rounded" ->
                token.mantissa = Whole(s) /\ token.power = Power(s)
         [] token.is = "zero" ->
                Whole(s) = 0 \/ Below(Whole(s), MinPower - 1 + MaxDigits - Power(s))
         [] token.is = "infinite" -> Whole(s) # 0 /\ NotBelow(Whole(s), MaxPower + 1 - Power(s))
         [] token.is = "from_text" -> TRUE

(* A number is accepted when it is in the grammar, and denotes what is     *)
(* written (scalars.rs 638-811): an integer as it stands or, outside 64    *)
(* bits, as its text, however often the word wrapped; a float by the word  *)
(* only when no digit is lost, however long its zeros and its exponent.    *)
(* Other scalars are the words of the grammar, up to a boundary.           *)
ScalarByReference ==
    LET words == {word \in Literals \cup Keywords : Begins(word) /\ Boundary(Byte(Len(word)))}
        s == CHOOSE shape \in Shapes : TRUE
    IN  token # NoToken =>
            IF words # {} THEN token.kind = "word" /\ token.text \in words
            ELSE IF Shapes = {} THEN token.kind \notin {"int", "negative_zero", "big", "float", "word"}
            ELSE /\ token.end = s.end
                 /\ IF IsIntegerShape(s) THEN DenotesInteger(s) ELSE DenotesFloat(s)
=============================================================================
