------------------------------- MODULE Tokens -------------------------------
(***************************************************************************)
(* The token alphabet the parsers of nosj dispatch on.                     *)
(*                                                                         *)
(* Every parser looks at the first byte of a token and then hands scalars  *)
(* to the tokenizers of scalars.rs.  A token is therefore abstracted to    *)
(* what its first byte is and to how its tokenizer ends:                   *)
(*   "str"     a string whose decoded content is valid UTF-8               *)
(*   "wtf8"    a string holding a lone low surrogate (StrPart::DecodedRaw) *)
(*   "badstr"  starts with a quote, rejected by parse_string               *)
(*   "num"     a number, of any of the four Number variants                *)
(*   "lit"     true, false or null                                         *)
(*   "badnum"  starts like a number or a literal and is rejected           *)
(*   "nan"     NaN or Infinity (accepted under allow_nan only)             *)
(*   "neginf"  -Infinity (accepted under allow_nan only)                   *)
(*   "junk"    starts with any other character                             *)
(***************************************************************************)

Openers   == {"{", "["}
Closers   == {"}", "]"}
Delimiter == Openers \cup Closers \cup {",", ":"}

PlainScalars == {"str", "wtf8", "num", "lit"}
NanKeywords  == {"nan", "neginf"}
Scalars      == PlainScalars \cup NanKeywords
Token        == Delimiter \cup Scalars \cup {"badstr", "badnum", "junk"}

(* The tokens whose first byte is a quote: the only ones a key may be.     *)
Quoted  == {"str", "wtf8", "badstr"}
KeyText == {"str", "wtf8"}

Kinds == {"object", "array"}

KindOf(opener) == IF opener = "{" THEN "object" ELSE "array"
CloserOf(kind) == IF kind = "object" THEN "}" ELSE "]"

(* The scalars a parser accepts under the options in force.                *)
Accepted(allowNan) == IF allowNan THEN Scalars ELSE PlainScalars

(* The error of a token in value position that is no accepted scalar and   *)
(* no opener: the tokenizer's own for a string, a number or a literal (a   *)
(* minus sign is taken for a number), UnexpectedCharacter for the rest.    *)
ValueError(t) ==
    IF t \in {"badstr", "badnum", "neginf"} THEN "scalar_error"
                                            ELSE "unexpected_character"

ParseErrors == {"unexpected_end", "unexpected_character", "expected",
                "scalar_error", "trailing_characters"}
=============================================================================
