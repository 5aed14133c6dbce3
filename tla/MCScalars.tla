----------------------------- MODULE MCScalars -----------------------------
(***************************************************************************)
(* Instances of the kernels of scalar values for TLC: strings written and  *)
(* read back, other scalars read, numbers written.  The three share        *)
(* nothing; a behaviour is about one of them, its `job`.                   *)
(***************************************************************************)
EXTENDS StringRoundTrip, NumberToken, NumberText, TLC

CONSTANTS AllSize,      \* code points of the strings over all of Chars
          EscapeSize,   \* and over Few
          RawSize,      \* pieces of the texts no escaper wrote
          ScalarSize    \* bytes of the scalars over Small

VARIABLE job

Upto(alphabet, size) == UNION {[1..n -> alphabet] : n \in 0..size}

-----------------------------------------------------------------------------
(* Strings.  Each class of escapes, 1 to 4 bytes of UTF-8, the separators  *)
(* and another character that begins like them.                            *)
Chars == {97, 34, 92, 10, 1, 47, 60, 233, 8232, 8212, 128512}
Few   == {97, 34, 1, 8232, 128512}
Clean(n) == [k \in 1..n |-> 97]
Long  == {Clean(n) \o t : n \in {7, 8, 15, 16, 18}, t \in Upto(Few, 2)}

MCStrings  == Upto(Chars, AllSize) \cup Upto(Few, EscapeSize) \cup Long
MCTrailers == {<<>>, <<44, 97, 97, 97, 34>>}

(* An a, an escaped newline, a quote, a backslash, a control character,    *)
(* UTF-8, a \u escape, the two halves of a pair, and a digit that is none. *)
Pieces == {<<97>>, <<92, 110>>, <<34>>, <<92>>, <<1>>, <<195, 169>>,
           <<92, 117, 48, 48, 52, 49>>,
           <<92, 117, 100, 56, 51, 100>>, <<92, 117, 100, 101, 48, 48>>, <<92, 117, 49, 103>>}
MCRaw == {<<QUOTE>> \o FlattenSeq(p) : p \in Upto(Pieces, RawSize)}

-----------------------------------------------------------------------------
(* Scalars read: short texts over Small (- 0 4 9 . e , x), and numbers     *)
(* around the limits of a word of 7 bits, 2 digits that fit it and powers  *)
(* of ten from MCMinPower to 3.                                            *)
MCMinPower == -4
Small == {45, 48, 52, 57, 46, 101, 44, 120}
Wholes == {<<48>>, <<52>>, <<54, 51>>, <<54, 52>>, <<54, 53>>, <<57, 57>>, <<49, 50, 56>>,
           <<54, 52, 48, 48>>, <<49, 48, 48, 48, 48, 48, 52>>, <<48, 52>>}
Fractions == {<<>>, <<46>>, <<46, 48>>, <<46, 52>>, <<46, 48, 48, 52>>, <<46, 54, 52, 48>>,
              <<46, 48, 48, 48, 48, 54, 54>>}
Exponents == {<<>>, <<101>>, <<101, 50>>, <<101, 52>>, <<69, 43, 57>>, <<101, 45, 51>>,
              <<101, 45, 48, 48, 48, 57>>, <<101, 48, 48, 48, 48, 48, 49>>, <<101, 57, 57>>,
              <<101, 49, 50, 56>>, <<101, 45, 54, 52>>, <<101, 45, 49, 50, 57>>}
Behind == {<<>>, <<44>>, <<120>>, <<46>>, <<44, 52, 52, 52, 52>>}
MinusNaN == <<45, 78, 97, 78>>

MCScalarTexts ==
    (Upto(Small, ScalarSize) \ {<<>>}) \cup
    {minus \o whole \o fraction \o exponent \o behind :
        minus \in {<<>>, <<45>>}, whole \in Wholes, fraction \in Fractions,
        exponent \in Exponents, behind \in Behind} \cup
    {word \o behind : word \in Literals \cup Keywords \cup {MinusNaN, <<116, 114, 117>>},
                      behind \in Behind}

-----------------------------------------------------------------------------
(* Numbers written: the magnitudes at and around the powers of two and of  *)
(* ten, with both signs, as i64 has them; digits of every length, at       *)
(* exponents around the limits of the four layouts and of a double.        *)
Decremented(digits) ==
    LET n == CHOOSE n \in DOMAIN digits :
                 digits[n] # 0 /\ \A m \in DOMAIN digits : m > n => digits[m] = 0
        less == [m \in DOMAIN digits |->
                    IF m < n THEN digits[m] ELSE IF m = n THEN digits[m] - 1 ELSE 9]
    IN  IF Len(less) > 1 /\ less[1] = 0 THEN FromOffset(less, 1) ELSE less

Round == {Powers2[b] : b \in 0..62} \cup {<<1>> \o Repeat(0, d) : d \in 0..18} \cup {<<7>>, <<4, 2>>}
Smallest == Powers2[63]
MCIntegers ==
    {[negative |-> sign, digits |-> digits] :
        sign \in BOOLEAN,
        digits \in (Round \cup {Decremented(u) : u \in Round \cup {Smallest}}) \ {<<0>>}} \cup
    {[negative |-> TRUE, digits |-> Smallest], [negative |-> FALSE, digits |-> <<0>>]}

Places == {-324, -323, -101, -100, -99, -98} \cup -20..25 \cup {98, 99, 100, 101, 307, 308}
MCDoubles ==
    {[negative |-> sign, digits |-> [m \in 1..n |-> ((m * 7) % 9) + 1], k |-> top - n + 1] :
        sign \in BOOLEAN, n \in 1..17, top \in Places} \cup
    {[negative |-> sign, digits |-> <<>>, k |-> 0] : sign \in BOOLEAN}

-----------------------------------------------------------------------------
(* What a job does not look at starts in one way.                          *)
Init ==
    /\ job \in {"strings", "scalars", "numbers"}
    /\ StringsInit /\ TokenInit /\ NumberInit
    /\ job # "strings" => host = "scalar" /\ Len(buf.mem) = 1
    /\ job # "numbers" => line = EmptyBuffer

Next ==
    \/ job = "strings" /\ StringsNext /\ UNCHANGED <<tokenVars, numberVars>>
    \/ job = "scalars" /\ TokenNext /\ UNCHANGED <<escapeVars, stringVars, numberVars>>
    \/ job = "numbers" /\ NumberNext /\ UNCHANGED <<escapeVars, stringVars, tokenVars>>

Spec == Init /\ [][Next /\ UNCHANGED job]_<<job, escapeVars, stringVars, tokenVars, numberVars>>
=============================================================================
