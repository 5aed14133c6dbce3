---------------------------- MODULE NumberText ----------------------------
(***************************************************************************)
(* emit.rs: write_i64, and grisu2.rs: dtoa.  An integer's digits go        *)
(* backwards, two at a time, from an end that is computed beforehand; a    *)
(* float's digits are laid out in one of four ways.  Neither looks at the  *)
(* capacity again once it is reserved.  Magnitudes are sequences of        *)
(* decimal digits, the highest first; which digits a float has, the rest   *)
(* of grisu2.rs, is not modelled: they are part of the input.              *)
(*                                                                         *)
(* A definition named Slip_X is X with a plausible bug in it; no other     *)
(* definition uses it.                                                     *)
(***************************************************************************)
EXTENDS RawBuffers

CONSTANTS Integers64,  \* of i64: [negative, digits]
          Doubles,     \* finite: [negative, digits, k], digits * 10^k; no digits for zero
          I64_MAX_LEN, DTOA_MAX

VARIABLES number, line, rest, place, fits, writing

numberVars == <<number, line, rest, place, fits, writing>>

NoNumber == [negative |-> FALSE, digits |-> <<>>, k |-> 0]

Ascii(digits) == [n \in DOMAIN digits |-> 48 + digits[n]]
Sign(negative) == IF negative THEN <<45>> ELSE <<>>

-----------------------------------------------------------------------------
(* decimal_len_u64.                                                        *)

(* Twice a magnitude, and so the powers of two.                            *)
Doubled(digits) ==
    LET n == Len(digits)
        Carry(j) == IF j < n /\ digits[j + 1] >= 5 THEN 1 ELSE 0
        same == [j \in 1..n |-> (2 * digits[j] + Carry(j)) % 10]
    IN  IF digits[1] >= 5 THEN <<1>> \o same ELSE same
Powers2[b \in 0..64] == IF b = 0 THEN <<1>> ELSE Doubled(Powers2[b - 1])

AtLeast(u, v) ==
    \/ Len(u) > Len(v)
    \/ /\ Len(u) = Len(v)
       /\ \A j \in DOMAIN u : u[j] < v[j] => \E h \in 1..(j - 1) : u[h] > v[h]

POW10(approx) == <<1>> \o Repeat(0, approx + 1)

(* 63 ^ (u | 1).leading_zeros()                                            *)
TopBitOf(u) == IF u = <<0>> THEN 0 ELSE CHOOSE b \in 0..63 : AtLeast(u, Powers2[b]) /\ ~ AtLeast(u, Powers2[b + 1])

Slip_DecimalLen(u) == (TopBitOf(u) * 1233) \div 4096 + 1  \* the compare forgotten

DecimalLen(u) ==
    LET approx == (TopBitOf(u) * 1233) \div 4096
    IN  approx + 1 + (IF AtLeast(u, POW10(approx)) THEN 1 ELSE 0)

-----------------------------------------------------------------------------
(* write_i64_raw.                                                          *)

WriteBack(digits) ==
    /\ line' = Put(line, place - Len(digits), Ascii(digits))
    /\ fits' = (fits /\ place - Len(digits) >= line.len /\ Room(line, place - Len(digits), Len(digits)))
    /\ place' = place - Len(digits)
    /\ rest' = Take(rest, Len(rest) - Len(digits))

BeginInteger ==
    /\ writing = "idle"
    /\ number' \in {[negative |-> n.negative, digits |-> n.digits, k |-> 0] : n \in Integers64}
    /\ LET reserved == Reserve(line, I64_MAX_LEN)
           sign == Sign(number'.negative)
       IN  /\ line' = Put(reserved, reserved.len, sign)
           /\ place' = line.len + Len(sign) + DecimalLen(number'.digits)
    /\ rest' = number'.digits
    /\ writing' = "digits"
    /\ UNCHANGED fits

DigitPair ==
    /\ writing = "digits" /\ Len(rest) > 2
    /\ WriteBack(FromOffset(rest, Len(rest) - 2))
    /\ UNCHANGED <<number, writing>>

(* The last one or two digits; what is published is the length computed.   *)
LastDigits ==
    LET stored == Put(line, place - Len(rest), Ascii(rest))
        length == Len(Sign(number.negative)) + DecimalLen(number.digits)
    IN  /\ writing = "digits" /\ Len(rest) <= 2
        /\ line' = Publish(stored, line.len + length)
        /\ fits' = (fits /\ place - Len(rest) >= line.len /\ Room(line, place - Len(rest), Len(rest)))
        /\ writing' = "integer"
        /\ UNCHANGED <<number, rest, place>>

-----------------------------------------------------------------------------
(* emit_digits and dtoa_raw.                                               *)

Magnitude(n) == IF n < 0 THEN -n ELSE n
Least(m, n) == IF m < n THEN m ELSE n

(* The exponent, in as many digits as it takes.                            *)
ExponentDigits(exp) ==
    (IF exp > 99 THEN <<48 + exp \div 100>> ELSE <<>>) \o
    (IF exp > 9 THEN <<48 + ((exp \div 10) % 10)>> ELSE <<>>) \o <<48 + (exp % 10)>>

Scientific(digits, k, negative) ==
    LET n == Least(Len(digits), 18 - Len(Sign(negative)))
        exp == Magnitude(k + Len(digits) - 1)
    IN  Ascii(Take(digits, 1)) \o
        (IF n > 1 THEN <<46>> \o Ascii(SubSeq(digits, 2, n)) ELSE <<>>) \o
        <<101, IF k + n - 1 < 0 THEN 45 ELSE 43>> \o ExponentDigits(exp)

EmitDigits(digits, k, negative) ==
    LET exp == Magnitude(k + Len(digits) - 1)
        offset == Len(digits) - Magnitude(k)
    IN  IF k >= 0 /\ exp < 15 THEN Ascii(digits) \o Repeat(48, k) \o <<46, 48>>
        ELSE IF k < 0 /\ (k > -7 \/ exp < 10)
        THEN IF offset <= 0
             THEN <<48, 46>> \o Repeat(48, -offset) \o Ascii(digits)
             ELSE Ascii(Take(digits, offset)) \o <<46>> \o Ascii(FromOffset(digits, offset))
        ELSE Scientific(digits, k, negative)

WriteFloat ==
    /\ writing = "idle"
    /\ number' \in Doubles
    /\ LET reserved == Reserve(line, DTOA_MAX)
           text == Sign(number'.negative) \o
                   (IF number'.digits = <<>> THEN <<48, 46, 48>>
                    ELSE EmitDigits(number'.digits, number'.k, number'.negative))
       IN  /\ line' = Publish(Put(reserved, line.len, text), line.len + Len(text))
           /\ fits' = (fits /\ Room(reserved, line.len, Len(text)))
    /\ writing' = "float"
    /\ UNCHANGED <<rest, place>>

NumberForget ==
    /\ writing \in {"integer", "float"}
    /\ number' = NoNumber /\ line' = EmptyBuffer /\ rest' = <<>> /\ place' = 0
    /\ fits' = TRUE /\ writing' = "idle"

NumberInit ==
    /\ number = NoNumber /\ rest = <<>> /\ place = 0 /\ fits = TRUE /\ writing = "idle"
    /\ line \in {EmptyBuffer, [mem |-> <<91>>, len |-> 1, gen |-> 0]}

NumberNext == BeginInteger \/ DigitPair \/ LastDigits \/ WriteFloat \/ NumberForget

-----------------------------------------------------------------------------
(* What a text denotes, read by the grammar: its sign, its digits without  *)
(* zeros around them, and the power of ten of the last one.                *)
Find(text, bytes) ==
    LET found == {n \in DOMAIN text : text[n] \in bytes}
    IN  IF found = {} THEN Len(text) + 1 ELSE Lowest(found)

Stripped(digits, power) ==
    LET full == {n \in DOMAIN digits : digits[n] # 48}
        last == CHOOSE n \in full : \A m \in full : m <= n
    IN  IF full = {} THEN [digits |-> <<>>, power |-> 0]
        ELSE [digits |-> SubSeq(digits, Lowest(full), last), power |-> power + Len(digits) - last]

NumberOf(digits) ==
    LET Value[n \in 0..Len(digits)] == IF n = 0 THEN 0 ELSE Value[n - 1] * 10 + (digits[n] - 48)
    IN  Value[Len(digits)]

Denoted(text) ==
    LET from == IF text[1] = 45 THEN 2 ELSE 1
        e == Find(text, {69, 101})
        dot == Least(Find(text, {46}), e)
        whole == SubSeq(text, from, dot - 1)
        fraction == SubSeq(text, dot + 1, e - 1)
        signed == e < Len(text) /\ text[e + 1] \in {43, 45}
        exponent == SubSeq(text, e + (IF signed THEN 2 ELSE 1), Len(text))
        size == NumberOf(exponent)
        power == (IF signed /\ text[e + 1] = 45 THEN -size ELSE size) - Len(fraction)
        value == Stripped(whole \o fraction, power)
    IN  [wellFormed |->
            /\ \A part \in {whole, fraction, exponent} : \A n \in DOMAIN part : part[n] \in 48..57
            /\ whole # <<>> /\ (Len(whole) > 1 => whole[1] # 48)
            /\ dot < e => fraction # <<>>
            /\ e <= Len(text) => exponent # <<>>,
         isInteger |-> dot > Len(text),
         negative |-> from = 2, digits |-> value.digits, power |-> value.power]

(* An integer, and a finite float, is written as JSON text that denotes    *)
(* it: its sign, its digits and its power of ten, and a float never as an  *)
(* integer; every byte is stored within what was reserved (I64_MAX_LEN,    *)
(* DTOA_MAX) and none before the text (emit.rs 692-805, grisu2.rs          *)
(* 300-434).  What the buffer held stays.                                  *)
WritesNumber ==
    writing \in {"integer", "float"} =>
        LET held == IF line.mem[1] = 91 THEN 1 ELSE 0
            denoted == Denoted(FromOffset(Published(line), held))
            value == Stripped(Ascii(number.digits), number.k)
        IN  /\ fits
            /\ denoted.wellFormed
            /\ denoted.isInteger = (writing = "integer")
            /\ denoted.negative = number.negative
            /\ denoted.digits = value.digits /\ denoted.power = value.power
=============================================================================
