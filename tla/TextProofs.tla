----------------------------- MODULE TextProofs -----------------------------
(***************************************************************************)
(* What the writer writes and what reads it back: the registers of the     *)
(* writer, whatever layouts its hosts use and however long they write; the *)
(* parse of the text a legal host writes, which undoes it; and the strings *)
(* of a text, every raw store of whose escaper and tokenizer falls into    *)
(* capacity reserved before it, for every string, mode and kind of machine *)
(* and every width of a vector and of a word.                              *)
(***************************************************************************)
EXTENDS RoundTrip, StringRoundTrip, FlatSinkProofs

-----------------------------------------------------------------------------
(* What is written: sequences of tokens and layout fields.                 *)

(* Two texts of pieces, one after the other, are a text of pieces.         *)
LEMMA Texts2 ==
    ASSUME NEW a \in Seq(Pieces), NEW b \in Seq(Pieces)
    PROVE  a \o b \in Seq(Pieces)
BY ConcatProperties

(* A single piece is a text.                                               *)
LEMMA TokenText ==
    ASSUME NEW t \in Pieces
    PROVE  <<t>> \in Seq(Pieces)
OBVIOUS

(* A layout field, an indentation and a separator are texts.               *)
LEMMA LayoutTexts ==
    /\ \A name \in LayoutFields : Field(name) \in Seq(Pieces)
    /\ \A n \in Nat : Indent(n) \in Seq(Pieces)
    /\ Comma \in Seq(Pieces)
<1>1. <<>> \in Seq(Pieces)
  BY EmptySeq
<1>2. ASSUME NEW name \in LayoutFields PROVE Field(name) \in Seq(Pieces)
  <2>1. name \in Pieces
    BY DEF Pieces
  <2>. QED
    BY <1>1, <2>1, TokenText DEF Field
<1>3. ASSUME NEW n \in Nat PROVE Indent(n) \in Seq(Pieces)
  <2>1. "indent" \in Pieces
    BY DEF Pieces, LayoutFields
  <2>2. [j \in 1 .. n |-> "indent"] \in Seq(Pieces)
    BY <2>1, SeqDef
  <2>. QED
    BY <1>1, <2>2 DEF Indent
<1>4. Comma \in Seq(Pieces)
  BY <1>1, TokenText DEF Comma, Pieces, Token, Delimiter
<1>. QED
  BY <1>2, <1>3, <1>4

(* So is all that is written before, around and after a token.             *)
LEMMA PrefixTexts ==
    ASSUME TypeOK
    PROVE  /\ ValuePrefix \in Seq(Pieces)
           /\ KeyPrefix \in Seq(Pieces)
           /\ KeySuffix \in Seq(Pieces)
           /\ \A k \in Kinds : BeforeCloser(k) \in Seq(Pieces)
<1>1. depth \in Nat /\ Outer \in Nat /\ <<>> \in Seq(Pieces)
  BY EmptySeq DEF TypeOK, Outer
<1>2. /\ Field("array_nl") \in Seq(Pieces) /\ Field("object_nl") \in Seq(Pieces)
      /\ Field("space") \in Seq(Pieces) /\ Field("space_before") \in Seq(Pieces)
      /\ Indent(depth) \in Seq(Pieces) /\ Indent(Outer) \in Seq(Pieces)
      /\ Comma \in Seq(Pieces)
  BY <1>1, LayoutTexts DEF LayoutFields
<1>3. <<":">> \in Seq(Pieces)
  BY TokenText DEF Pieces, Token, Delimiter
<1>4. ValuePrefix \in Seq(Pieces)
  BY <1>1, <1>2, Texts2 DEF ValuePrefix
<1>5. KeyPrefix \in Seq(Pieces)
  BY <1>2, Texts2 DEF KeyPrefix
<1>6. KeySuffix \in Seq(Pieces)
  BY <1>2, <1>3, Texts2 DEF KeySuffix
<1>7. ASSUME NEW k \in Kinds PROVE BeforeCloser(k) \in Seq(Pieces)
  <2>1. Field(Newline(k)) \in Seq(Pieces)
    BY <1>2 DEF Newline
  <2>. QED
    BY <1>1, <1>2, <2>1, Texts2 DEF BeforeCloser
<1>. QED
  BY <1>4, <1>5, <1>6, <1>7

(* The types of the writer's half of TypeOK.                               *)
WriterTypeOK ==
    /\ cfg \in Layouts
    /\ out \in Seq(Pieces)
    /\ depth \in Nat
    /\ first \in BOOLEAN /\ after_key \in BOOLEAN

(* Every call of the writer keeps its types, legal or not.                 *)
LEMMA WritesTyped ==
    ASSUME TypeOK,
           \/ \E t \in Token : WriteScalar(t)
           \/ \E t \in Token : WriteKey(t)
           \/ \E k \in Kinds : WriteBegin(k)
           \/ \E k \in Kinds : WriteEnd(k)
    PROVE  WriterTypeOK'
<1>. USE DEF TypeOK, WriterTypeOK
<1>1. ASSUME NEW t \in Token, WriteScalar(t) PROVE WriterTypeOK'
  <2>1. out' \in Seq(Pieces)
    BY <1>1, PrefixTexts, TokenText, Texts2 DEF WriteScalar, Pieces
  <2>. QED
    BY <1>1, <2>1 DEF WriteScalar, FirstAfterPrefix
<1>2. ASSUME NEW t \in Token, WriteKey(t) PROVE WriterTypeOK'
  <2>1. out' \in Seq(Pieces)
    BY <1>2, PrefixTexts, TokenText, Texts2 DEF WriteKey, Pieces
  <2>. QED
    BY <1>2, <2>1 DEF WriteKey
<1>3. ASSUME NEW k \in Kinds, WriteBegin(k) PROVE WriterTypeOK'
  <2>1. Opener(k) \in Token
    BY DEF Opener, Token, Delimiter, Openers
  <2>2. depth' \in Nat
    BY <1>3 DEF WriteBegin
  <2>3. out' \in Seq(Pieces)
    BY <1>3, <2>1, PrefixTexts, TokenText, Texts2 DEF WriteBegin, Pieces
  <2>. QED
    BY <1>3, <2>2, <2>3 DEF WriteBegin
<1>4. ASSUME NEW k \in Kinds, WriteEnd(k) PROVE WriterTypeOK'
  <2>1. CloserOf(k) \in Token
    BY DEF CloserOf, Token, Delimiter, Closers
  <2>2. depth' \in Nat
    BY <1>4 DEF WriteEnd, Outer
  <2>3. out' \in Seq(Pieces)
    BY <1>4, <2>1, PrefixTexts, TokenText, Texts2 DEF WriteEnd, Pieces
  <2>. QED
    BY <1>4, <2>2, <2>3 DEF WriteEnd
<1>. QED
  BY <1>1, <1>2, <1>3, <1>4
-----------------------------------------------------------------------------
(* The legal calls.                                                        *)

(* What WInv says of the innermost container while the calls are legal.    *)
LEMMA TopRecord ==
    ASSUME WInv, Legal, open # <<>>
    PROVE  /\ Len(open) \in Nat \ {0}
           /\ Top(open) \in Container
           /\ Top(open).kind = "array" => Top(open).keys = 0
           /\ Top(open).kind = "object" => Top(open).keys \in {Top(open).len, Top(open).len + 1}
<1>1. open \in Seq(Container)
  BY DEF WInv, TypeOK, SinkTypeOK
<1>2. Len(open) \in Nat \ {0} /\ Top(open) \in Container
  BY <1>1, PopFacts
<1>3. Len(open) \in DOMAIN open /\ Top(open) = open[Len(open)]
  BY <1>1, <1>2, LenProperties DEF Top
<1>. QED
  BY <1>2, <1>3 DEF WInv, HostRecord

(* A value is never owed a first-member prefix after a key.                *)
LEMMA PrefixClearsFirst ==
    ASSUME WInv, Legal
    PROVE  FirstAfterPrefix = FALSE
<1>1. CASE after_key
  <2>1. open # <<>> /\ Top(open).keys > Top(open).len
    BY <1>1 DEF WInv, RegistersMatchNesting
  <2>2. Top(open).keys # 0
    BY <2>1, TopRecord DEF Container
  <2>3. ~ first
    BY <2>1, <2>2 DEF WInv, RegistersMatchNesting
  <2>. QED
    BY <1>1, <2>3 DEF FirstAfterPrefix, WInv, TypeOK
<1>2. CASE ~ after_key
  BY <1>2 DEF FirstAfterPrefix
<1>. QED BY <1>1, <1>2

(* A scalar: the innermost container, if any, has one value more.          *)
LEMMA ScalarKeepsWInv ==
    ASSUME WInv, NEW t \in Texts, Scalar(t)
    PROVE  WInv'
<1>1. t \in Token /\ Legal /\ Legal' /\ ValueExpected /\ SinkScalar(t) /\ WriteScalar(t)
  BY TextsAssumption DEF Scalar, LegalCall, Legal, Token, Scalars, PlainScalars
<1>2. /\ SinkTypeOK' /\ calls' # <<>> /\ Len(open') = Len(open)
      /\ \A j \in 1 .. Len(open) - 1 : open'[j] = open[j]
      /\ open = <<>> => open' = <<>>
      /\ open # <<>> => /\ open' # <<>>
                        /\ Top(open').kind = Top(open).kind
                        /\ Top(open').keys = Top(open).keys
                        /\ Top(open').len = Top(open).len + 1
  BY <1>1, SinkScalarFacts DEF WInv, TypeOK
<1>3. TypeOK'
  BY <1>1, <1>2, WritesTyped DEF WInv, TypeOK, WriterTypeOK, Scalar, LegalCall
<1>4. depth' = depth /\ after_key' = FALSE /\ first' = FALSE
  BY <1>1, PrefixClearsFirst DEF WriteScalar
<1>5. CASE open = <<>>
  <2>1. RegistersMatchNesting'
    BY <1>1, <1>2, <1>4, <1>5 DEF WInv, RegistersMatchNesting
  <2>2. HostRecord'
    BY <1>2, <1>5, EmptySeq DEF HostRecord
  <2>. QED
    BY <1>3, <2>1, <2>2 DEF WInv
<1>6. CASE open # <<>>
  <2>1. /\ Len(open) \in Nat \ {0} /\ Top(open) \in Container
        /\ Top(open).kind = "array" => Top(open).keys = 0
        /\ Top(open).kind = "object" => Top(open).keys = Top(open).len + 1
    BY <1>1, <1>6, TopRecord DEF ValueExpected
  <2>2. Top(open).len \in Nat /\ Top(open).kind \in {"array", "object"}
    BY <2>1 DEF Container, Kinds
  <2>3. ~ (Top(open').keys > Top(open').len) /\ Top(open').len # 0
    BY <1>2, <1>6, <2>1, <2>2
  <2>4. RegistersMatchNesting'
    BY <1>1, <1>2, <1>4, <1>6, <2>3 DEF WInv, RegistersMatchNesting
  <2>5. open' \in Seq(Container) /\ DOMAIN open' = 1 .. Len(open) /\ DOMAIN open = 1 .. Len(open)
    BY <1>2, LenProperties DEF SinkTypeOK, WInv, TypeOK
  <2>6. Top(open') = open'[Len(open)]
    BY <1>2 DEF Top
  <2>7. HostRecord'
    BY <1>1, <1>2, <1>6, <2>1, <2>2, <2>5, <2>6 DEF WInv, HostRecord
  <2>. QED
    BY <1>3, <2>4, <2>7 DEF WInv
<1>. QED BY <1>5, <1>6

(* A key: the innermost object waits for the value.                        *)
LEMMA KeyKeepsWInv ==
    ASSUME WInv, Key("str")
    PROVE  WInv'
<1>1. "str" \in Token /\ Legal /\ Legal' /\ KeyExpected /\ SinkKey("str") /\ WriteKey("str")
  BY DEF Key, LegalCall, Legal, Token, Scalars, PlainScalars
<1>2. open # <<>> /\ Top(open).kind = "object" /\ Top(open).keys = Top(open).len
  BY <1>1 DEF KeyExpected
<1>3. /\ SinkTypeOK' /\ calls' # <<>> /\ Len(open') = Len(open)
      /\ \A j \in 1 .. Len(open) - 1 : open'[j] = open[j]
      /\ open' # <<>>
      /\ Top(open').kind = Top(open).kind
      /\ Top(open').keys = Top(open).keys + 1
      /\ Top(open').len = Top(open).len
  BY <1>1, <1>2, SinkKeyFacts DEF WInv, TypeOK
<1>4. TypeOK'
  BY <1>1, <1>3, WritesTyped DEF WInv, TypeOK, WriterTypeOK, Key, LegalCall
<1>5. Len(open) \in Nat \ {0} /\ Top(open).len \in Nat /\ Top(open).keys \in Nat
  BY <1>1, <1>2, TopRecord DEF Container
<1>6. RegistersMatchNesting'
  BY <1>1, <1>2, <1>3, <1>5 DEF WInv, RegistersMatchNesting, WriteKey
<1>7. open' \in Seq(Container) /\ DOMAIN open' = 1 .. Len(open) /\ DOMAIN open = 1 .. Len(open)
  BY <1>3, LenProperties DEF SinkTypeOK, WInv, TypeOK
<1>8. Top(open') = open'[Len(open)]
  BY <1>3 DEF Top
<1>9. HostRecord'
  BY <1>1, <1>2, <1>3, <1>5, <1>7, <1>8 DEF WInv, HostRecord
<1>. QED
  BY <1>4, <1>6, <1>9 DEF WInv

(* A container begins: it is the innermost, with no members.               *)
LEMMA BeginKeepsWInv ==
    ASSUME WInv, NEW k \in Kinds, Begin(k)
    PROVE  WInv'
<1>1. Legal /\ Legal' /\ ValueExpected /\ SinkBegin(k) /\ WriteBegin(k)
  BY DEF Begin, LegalCall, Legal
<1>2. /\ SinkTypeOK' /\ calls' # <<>> /\ open' # <<>>
      /\ Len(open') = Len(open) + 1
      /\ \A j \in 1 .. Len(open) : open'[j] = open[j]
      /\ Top(open').kind = k /\ Top(open').keys = 0 /\ Top(open').len = 0
  BY <1>1, SinkBeginFacts DEF WInv, TypeOK
<1>3. TypeOK'
  BY <1>1, <1>2, WritesTyped DEF WInv, TypeOK, WriterTypeOK, Begin, LegalCall
<1>4. RegistersMatchNesting'
  BY <1>1, <1>2 DEF WInv, RegistersMatchNesting, WriteBegin
<1>5. /\ open' \in Seq(Container) /\ Len(open) \in Nat
      /\ DOMAIN open' = 1 .. Len(open) + 1 /\ DOMAIN open = 1 .. Len(open)
  BY <1>2, LenProperties DEF SinkTypeOK, WInv, TypeOK
<1>6. Top(open') = open'[Len(open) + 1]
  BY <1>2 DEF Top
<1>7. ASSUME open # <<>>, open[Len(open)].kind = "object"
      PROVE  open[Len(open)].keys = open[Len(open)].len + 1
  BY <1>1, <1>7 DEF ValueExpected, Top
<1>8. HostRecord'
  <2>1. SUFFICES ASSUME NEW j \in 1 .. Len(open) + 1
                 PROVE  /\ open'[j].kind = "array" => open'[j].keys = 0
                        /\ open'[j].kind = "object" /\ j < Len(open) + 1 => open'[j].keys = open'[j].len + 1
                        /\ open'[j].kind = "object" => open'[j].keys \in {open'[j].len, open'[j].len + 1}
    BY <1>2, <1>5 DEF HostRecord
  <2>2. CASE j = Len(open) + 1
    BY <1>2, <1>5, <1>6, <2>2
  <2>3. CASE j = Len(open)
    <3>1. open # <<>>
      BY <2>3, <1>5, EmptySeq
    <3>2. j \in DOMAIN open /\ open'[j] = open[j] /\ (open[j].kind = "object" => open[j].keys = open[j].len + 1)
      BY <1>2, <1>5, <1>7, <2>3, <3>1
    <3>. QED
      BY <1>1, <3>2 DEF WInv, HostRecord
  <2>4. CASE j < Len(open)
    <3>1. j \in DOMAIN open /\ open'[j] = open[j]
      BY <1>2, <1>5, <2>4
    <3>. QED
      BY <1>1, <2>4, <3>1 DEF WInv, HostRecord
  <2>5. j = Len(open) + 1 \/ j = Len(open) \/ j < Len(open)
    <3>1. Len(open) \in Nat
      BY <1>5
    <3>. QED
      BY <3>1
  <2>. QED
    BY <2>2, <2>3, <2>4, <2>5
<1>. QED
  BY <1>3, <1>4, <1>8 DEF WInv

(* A container ends: the one around it, which a key may have waited for,   *)
(* has one value more.                                                     *)
LEMMA EndKeepsWInv ==
    ASSUME WInv, End
    PROVE  WInv'
<1>. DEFINE c == Top(open)
<1>1. /\ Legal /\ Legal' /\ EndExpected
      /\ SinkEnd(c.kind, c.mark, c.len) /\ WriteEnd(c.kind)
  BY DEF End, LegalCall, Legal
<1>2. open # <<>> /\ c \in Container
  BY <1>1, TopRecord DEF EndExpected, KeyExpected
<1>3. c.kind \in Kinds /\ c.mark \in Nat /\ c.len \in Nat
  BY <1>2 DEF Container
<1>4. /\ SinkTypeOK' /\ calls' # <<>>
      /\ Len(open) \in Nat \ {0} /\ Len(open') = Len(open) - 1
      /\ Len(open) = 1 => open' = <<>>
      /\ \A j \in 1 .. Len(open) - 2 : open'[j] = open[j]
      /\ Len(open) > 1 =>
            /\ open' # <<>>
            /\ Top(open').kind = open[Len(open) - 1].kind
            /\ Top(open').keys = open[Len(open) - 1].keys
            /\ Top(open').len = open[Len(open) - 1].len + 1
  <2>. HIDE DEF c
  <2>. QED
    BY <1>1, <1>2, <1>3, SinkEndFacts DEF WInv, TypeOK
<1>5. TypeOK'
  BY <1>1, <1>3, <1>4, WritesTyped DEF WInv, TypeOK, WriterTypeOK, End, LegalCall
<1>6. ~ after_key
  <2>1. Top(open).kind = "array" => Top(open).keys = 0
    BY <1>1, <1>2, TopRecord
  <2>2. Top(open).len \in Nat
    BY <1>3
  <2>3. ~ (Top(open).keys > Top(open).len)
    BY <1>1, <2>1, <2>2 DEF EndExpected, KeyExpected
  <2>. QED
    BY <1>1, <2>3 DEF WInv, RegistersMatchNesting
<1>7. depth' = Len(open) - 1 /\ after_key' = FALSE /\ first' = FALSE
  <2>1. depth = Len(open)
    BY <1>1 DEF WInv, RegistersMatchNesting
  <2>2. after_key' = FALSE /\ first' = FALSE
    BY <1>1, <1>6, <1>5 DEF WriteEnd, TypeOK, WInv
  <2>. QED
    BY <1>1, <1>4, <2>1, <2>2 DEF WriteEnd, Outer
<1>8. CASE Len(open) = 1
  <2>1. open' = <<>>
    BY <1>4, <1>8
  <2>. QED
    BY <1>1, <1>4, <1>5, <1>7, <1>8, <2>1, EmptySeq DEF WInv, RegistersMatchNesting, HostRecord
<1>9. CASE Len(open) > 1
  <2>. DEFINE p == open[Len(open) - 1]
  <2>1. /\ open' \in Seq(Container)
        /\ DOMAIN open' = 1 .. Len(open) - 1 /\ DOMAIN open = 1 .. Len(open)
    BY <1>4, LenProperties DEF SinkTypeOK, WInv, TypeOK
  <2>2. /\ p \in Container
        /\ p.kind = "array" => p.keys = 0
        /\ p.kind = "object" => p.keys = p.len + 1
    <3>1. open \in Seq(Container) /\ Len(open) - 1 \in 1 .. Len(open) /\ Len(open) - 1 < Len(open)
      BY <1>4, <1>9 DEF WInv, TypeOK, SinkTypeOK
    <3>2. p \in Container
      BY <3>1, ElementOfSeq
    <3>3. Len(open) - 1 \in DOMAIN open
      BY <2>1, <3>1
    <3>. QED
      BY <1>1, <3>1, <3>2, <3>3 DEF WInv, HostRecord
  <2>3. p.len \in Nat /\ p.kind \in {"array", "object"}
    BY <2>2 DEF Container, Kinds
  <2>4. Top(open').len # 0 /\ ~ (Top(open').keys > Top(open').len)
    BY <1>4, <1>9, <2>2, <2>3
  <2>5. RegistersMatchNesting'
    BY <1>1, <1>4, <1>7, <1>9, <2>4 DEF RegistersMatchNesting
  <2>6. Top(open') = open'[Len(open) - 1]
    BY <1>4 DEF Top
  <2>7. HostRecord'
    <3>1. SUFFICES ASSUME NEW j \in 1 .. Len(open) - 1
                   PROVE  /\ open'[j].kind = "array" => open'[j].keys = 0
                          /\ open'[j].kind = "object" /\ j < Len(open) - 1 => open'[j].keys = open'[j].len + 1
                          /\ open'[j].kind = "object" => open'[j].keys \in {open'[j].len, open'[j].len + 1}
      BY <1>4, <2>1 DEF HostRecord
    <3>2. CASE j = Len(open) - 1
      BY <1>4, <1>9, <2>2, <2>3, <2>6, <3>2
    <3>3. CASE j < Len(open) - 1
      <4>1. j \in DOMAIN open /\ j < Len(open) /\ open'[j] = open[j]
        BY <1>4, <2>1, <3>3
      <4>. QED
        BY <1>1, <4>1 DEF WInv, HostRecord
    <3>. QED
      BY <1>4, <3>2, <3>3
  <2>. QED
    BY <1>5, <2>5, <2>7 DEF WInv
<1>. QED
  BY <1>4, <1>8, <1>9

-----------------------------------------------------------------------------
(* The other steps, and the theorems.                                      *)

(* A misuse keeps the types; the host is no longer legal.                  *)
LEMMA MisuseKeepsWInv ==
    ASSUME WInv, Misuse
    PROVE  WInv'
<1>1. misuses' \in Nat /\ ~ Legal' /\ UNCHANGED <<sinkVars, caught>>
  BY DEF Misuse, Legal, WInv, TypeOK
<1>2. /\ \A t \in Texts : t \in Token
      /\ "str" \in Token
  BY TextsAssumption DEF Token, Scalars, PlainScalars
<1>3. WriterTypeOK'
  BY <1>2, WritesTyped DEF Misuse, WInv
<1>4. TypeOK'
  BY <1>1, <1>3 DEF TypeOK, WriterTypeOK, WInv, SinkTypeOK, sinkVars
<1>. QED
  BY <1>1, <1>4 DEF WInv, RegistersMatchNesting, HostRecord

(* A new writer knows nothing of the one before.                           *)
LEMMA NewWriterKeepsWInv ==
    ASSUME NewWriter
    PROVE  WInv'
<1>1. /\ cfg' \in Layouts /\ out' = <<>> /\ depth' = 0 /\ first' = TRUE /\ after_key' = FALSE
      /\ misuses' = 0 /\ caught' = FALSE
      /\ open' = <<>> /\ vals' = 0 /\ calls' = <<>>
  BY DEF NewWriter, SinkStart
<1>2. TypeOK'
  BY <1>1, EmptySeq DEF TypeOK, SinkTypeOK
<1>. QED
  BY <1>1, <1>2, EmptySeq DEF WInv, RegistersMatchNesting, HostRecord

(* Before the first call.                                                  *)
LEMMA InitWInv == Init => WInv
<1>. SUFFICES ASSUME Init PROVE WInv
  OBVIOUS
<1>1. TypeOK
  BY EmptySeq DEF Init, TypeOK, SinkTypeOK
<1>2. RegistersMatchNesting
  BY EmptySeq DEF Init, RegistersMatchNesting
<1>3. HostRecord
  BY EmptySeq DEF Init, HostRecord
<1>. QED
  BY <1>1, <1>2, <1>3 DEF WInv

(* Every step keeps it.                                                    *)
LEMMA NextWInv ==
    ASSUME WInv, [Next]_vars
    PROVE  WInv'
<1>1. ASSUME NEW t \in Texts, Scalar(t) PROVE WInv'
  BY <1>1, ScalarKeepsWInv
<1>2. CASE Key("str")
  BY <1>2, KeyKeepsWInv
<1>3. ASSUME NEW k \in Kinds, Begin(k) PROVE WInv'
  BY <1>3, BeginKeepsWInv
<1>4. CASE End
  BY <1>4, EndKeepsWInv
<1>5. CASE FloatPanics
  BY <1>5 DEF FloatPanics, WInv, TypeOK, SinkTypeOK, RegistersMatchNesting, HostRecord,
              Legal, writerVars, sinkVars
<1>6. CASE Misuse
  BY <1>6, MisuseKeepsWInv
<1>7. CASE NewWriter
  BY <1>7, NewWriterKeepsWInv
<1>8. CASE UNCHANGED vars
  BY <1>8 DEF WInv, TypeOK, SinkTypeOK, RegistersMatchNesting, HostRecord, Legal, vars
<1>. QED
  BY <1>1, <1>2, <1>3, <1>4, <1>5, <1>6, <1>7, <1>8 DEF Next

(* WInv is an invariant: for every host, legal or not, and every layout,   *)
(* the registers of the writer are the grammar state of the legal calls    *)
(* made to it (writer.rs 127-139).                                         *)
THEOREM WriterInvariance == Spec => []WInv
BY InitWInv, NextWInv, PTL DEF Spec

(* However a host misuses its writer, the depth does not underflow into    *)
(* the indentation loop (writer.rs 351-355, 377-378).                      *)
THEOREM WriterTypeCorrect == Spec => []TypeOK
<1>1. WInv => TypeOK
  BY DEF WInv
<1>. QED
  BY <1>1, WriterInvariance, PTL

-----------------------------------------------------------------------------
(* Strings.                                                                *)

(* A sequence of anything.                                                 *)
IsSeq(s) == Len(s) \in Nat /\ s = [k \in 1..Len(s) |-> s[k]]

(* Members of Seq are sequences in this sense.                             *)
LEMMA SeqIs ==
    ASSUME NEW S, NEW s \in Seq(S)
    PROVE  IsSeq(s)
  BY DEF IsSeq

(* A sequence has a set its elements are of.                               *)
LEMMA SomeSeq ==
    ASSUME NEW s, IsSeq(s)
    PROVE  \E S : s \in Seq(S)
<1>. DEFINE S == {s[k] : k \in 1..Len(s)}
            n == Len(s)
<1>1. n \in Nat /\ \A k \in 1..n : s[k] \in S
  BY DEF IsSeq
<1>2. s = [k \in 1..n |-> s[k]]
  BY DEF IsSeq
<1>. HIDE DEF S, n
<1>3. s \in [1..n -> S]
  BY <1>1, <1>2
<1>4. s \in Seq(S)
  BY <1>1, <1>3
<1>. QED
  BY <1>4

(* A function on 1..n is a sequence.                                       *)
LEMMA FcnSeq ==
    ASSUME NEW n \in Nat, NEW f, f = [k \in 1..n |-> f[k]]
    PROVE  IsSeq(f) /\ Len(f) = n
<1>. DEFINE S == {f[k] : k \in 1..n}
<1>1. \A k \in 1..n : f[k] \in S
  OBVIOUS
<1>. HIDE DEF S
<1>2. f \in [1..n -> S]
  BY <1>1
<1>3. f \in Seq(S) /\ Len(f) = n
  BY <1>2
<1>. QED
  BY <1>3, SeqIs

(* What is put together and cut from sequences.                            *)
LEMMA SeqOps ==
    ASSUME NEW s, IsSeq(s), NEW t, IsSeq(t)
    PROVE  /\ IsSeq(s \o t) /\ Len(s \o t) = Len(s) + Len(t)
           /\ \A n \in 0..Len(s) : IsSeq(Take(s, n)) /\ Len(Take(s, n)) = n
           /\ \A n \in 0..Len(s) : IsSeq(FromOffset(s, n)) /\ Len(FromOffset(s, n)) = Len(s) - n
<1>1. PICK S : s \in Seq(S)
  BY SomeSeq
<1>2. PICK T : t \in Seq(T)
  BY SomeSeq
<1>3. s \in Seq(S \cup T) /\ t \in Seq(S \cup T) /\ Len(s) \in Nat /\ Len(t) \in Nat
  BY <1>1, <1>2
<1>4. s \o t \in Seq(S \cup T) /\ Len(s \o t) = Len(s) + Len(t)
  BY <1>3
<1>5. ASSUME NEW n \in 0..Len(s)
      PROVE  /\ Take(s, n) \in Seq(S) /\ Len(Take(s, n)) = n
             /\ FromOffset(s, n) \in Seq(S) /\ Len(FromOffset(s, n)) = Len(s) - n
  BY <1>1, <1>3 DEF Take, FromOffset
<1>. QED
  BY <1>4, <1>5, SeqIs

(* A byte repeated.                                                        *)
LEMMA RepeatIs ==
    ASSUME NEW b, NEW n \in Nat
    PROVE  IsSeq(Repeat(b, n)) /\ Len(Repeat(b, n)) = n
<1>1. Repeat(b, n) = [k \in 1..n |-> Repeat(b, n)[k]]
  BY DEF Repeat
<1>. QED
  BY <1>1, FcnSeq

(* A buffer: what is published is within the capacity.                     *)
Buffer(b) ==
    /\ b = [mem |-> b.mem, len |-> b.len, gen |-> b.gen]
    /\ IsSeq(b.mem)
    /\ b.len \in 0..Len(b.mem)
Capacity(b) == Len(b.mem)

(* A reservation.                                                          *)
LEMMA ReserveGives ==
    ASSUME NEW b, Buffer(b), NEW n \in Nat
    PROVE  LET r == Reserve(b, n)
           IN  Buffer(r) /\ r.len = b.len /\ b.len + n <= Capacity(r) /\ Capacity(b) <= Capacity(r)
<1>. DEFINE m == Take(b.mem, b.len) \o Repeat(Junk, n)
            r == [mem |-> m, len |-> b.len, gen |-> b.gen + 1]
<1>1. Len(b.mem) \in Nat /\ b.len \in Nat /\ b.len <= Len(b.mem)
  BY DEF Buffer, IsSeq
<1>2. CASE b.len + n <= Len(b.mem)
  <2>1. Reserve(b, n) = b
    BY <1>2 DEF Reserve
  <2>. QED
    BY <1>1, <1>2, <2>1 DEF Capacity
<1>3. CASE ~ (b.len + n <= Len(b.mem))
  <2>1. Reserve(b, n) = r
    BY <1>3 DEF Reserve
  <2>2. IsSeq(m) /\ Len(m) = b.len + n
    <3>1. IsSeq(Take(b.mem, b.len)) /\ Len(Take(b.mem, b.len)) = b.len
      BY SeqOps DEF Buffer
    <3>. QED
      BY <3>1, RepeatIs, SeqOps
  <2>. HIDE DEF m
  <2>3. r.mem = m /\ r.len = b.len /\ r = [mem |-> r.mem, len |-> r.len, gen |-> r.gen]
    OBVIOUS
  <2>. HIDE DEF r
  <2>4. b.len \in 0..(b.len + n) /\ Len(b.mem) <= b.len + n /\ b.len + n <= b.len + n
    BY <1>1, <1>3
  <2>5. Buffer(r)
    BY <2>2, <2>3, <2>4 DEF Buffer
  <2>6. Capacity(r) = b.len + n /\ Capacity(b) = Len(b.mem)
    BY <2>2, <2>3 DEF Capacity
  <2>. QED
    BY <1>1, <2>1, <2>3, <2>4, <2>5, <2>6
<1>. QED
  BY <1>2, <1>3

(* A store.                                                                *)
LEMMA PutKeeps ==
    ASSUME NEW b, Buffer(b), NEW at_, NEW given
    PROVE  LET p == Put(b, at_, given)
           IN  Buffer(p) /\ p.len = b.len /\ p.gen = b.gen /\ Capacity(p) = Capacity(b)
<1>. DEFINE n == Len(b.mem)
            m == [k \in 1..n |-> IF at_ < k /\ k <= at_ + Len(given) THEN given[k - at_] ELSE b.mem[k]]
            p == [mem |-> m, len |-> b.len, gen |-> b.gen]
<1>1. Put(b, at_, given) = p
  <2>1. b = [mem |-> b.mem, len |-> b.len, gen |-> b.gen]
    BY DEF Buffer
  <2>. QED
    BY <2>1 DEF Put
<1>2. n \in Nat /\ b.len \in 0..n
  BY DEF Buffer, IsSeq
<1>3. m = [k \in 1..n |-> m[k]]
  OBVIOUS
<1>. HIDE DEF m, n
<1>4. IsSeq(m) /\ Len(m) = n
  BY <1>2, <1>3, FcnSeq
<1>5. p.mem = m /\ p.len = b.len /\ p.gen = b.gen /\ p = [mem |-> p.mem, len |-> p.len, gen |-> p.gen]
  OBVIOUS
<1>. HIDE DEF p
<1>6. Buffer(p) /\ Capacity(p) = n
  BY <1>2, <1>4, <1>5 DEF Buffer, Capacity
<1>7. Capacity(b) = n
  BY DEF n, Capacity
<1>. QED
  BY <1>1, <1>5, <1>6, <1>7

(* A length published.                                                     *)
LEMMA PublishKeeps ==
    ASSUME NEW b, Buffer(b), NEW n \in 0..Capacity(b)
    PROVE  LET p == Publish(b, n)
           IN  Buffer(p) /\ p.len = n /\ p.gen = b.gen /\ Capacity(p) = Capacity(b)
<1>. DEFINE p == [mem |-> b.mem, len |-> n, gen |-> b.gen]
<1>1. Publish(b, n) = p
  <2>1. b = [mem |-> b.mem, len |-> b.len, gen |-> b.gen]
    BY DEF Buffer
  <2>. QED
    BY <2>1 DEF Publish
<1>2. p.mem = b.mem /\ p.len = n /\ p.gen = b.gen /\ p = [mem |-> p.mem, len |-> p.len, gen |-> p.gen]
  OBVIOUS
<1>. HIDE DEF p
<1>. QED
  BY <1>1, <1>2 DEF Buffer, Capacity

(* The two stores of a short copy.                                         *)
LEMMA CopySmallKeeps ==
    ASSUME NEW b, Buffer(b), NEW at_, NEW given
    PROVE  LET p == CopySmall(b, at_, given)
           IN  Buffer(p) /\ p.len = b.len /\ p.gen = b.gen /\ Capacity(p) = Capacity(b)
<1>1. \E c, x, y, z, v : c = Put(b, x, y) /\ CopySmall(b, at_, given) = Put(c, z, v)
  BY Zenon DEF CopySmall
<1>2. PICK c, x, y, z, v : c = Put(b, x, y) /\ CopySmall(b, at_, given) = Put(c, z, v)
  BY <1>1
<1>3. Buffer(c) /\ c.len = b.len /\ c.gen = b.gen /\ Capacity(c) = Capacity(b)
  BY <1>2, PutKeeps
<1>. QED
  BY <1>2, <1>3, PutKeeps

-----------------------------------------------------------------------------
(* The tokenizer.                                                          *)

(* The lowest of a set of lanes is one of them.                            *)
LEMMA LowestIs ==
    ASSUME NEW T, T \subseteq Nat, T # {}
    PROVE  Lowest(T) \in T /\ \A j \in T : Lowest(T) <= j
<1>1. PICK n \in T : \A m \in T : n <= m
  BY LeastElement
<1>. QED
  BY <1>1 DEF Lowest

(* Lanes are positions of the chunk.                                       *)
LEMMA LanesAre ==
    ASSUME NEW k, NEW m, NEW chunk
    PROVE  /\ HitLanes(k, m, chunk) \subseteq Nat
           /\ HitLanes(k, m, chunk) \subseteq 0..(Len(chunk) - 1)
<1>1. HitLanes(k, m, chunk) \subseteq 0..(Len(chunk) - 1)
  BY Zenon DEF HitLanes
<1>2. \A n : 0..n \subseteq Nat
  OBVIOUS
<1>. QED
  BY <1>1, <1>2, Zenon

(* A slice within the input.                                               *)
LEMMA SliceIs ==
    ASSUME NEW s, IsSeq(s), NEW a \in Nat, NEW n \in Nat, a + n <= Len(s)
    PROVE  IsSeq(SubSeq(s, a + 1, a + n)) /\ Len(SubSeq(s, a + 1, a + n)) = n
<1>1. PICK S : s \in Seq(S)
  BY SomeSeq
<1>2. Len(s) \in Nat
  BY DEF IsSeq
<1>3. SubSeq(s, a + 1, a + n) \in Seq(S) /\ Len(SubSeq(s, a + 1, a + n)) = n
  BY <1>1, <1>2
<1>. QED
  BY <1>3, SeqIs

(* A padded tail is as wide as a vector.                                   *)
LEMMA PaddedIs ==
    ASSUME NEW s, IsSeq(s), NEW a \in 0..Len(s), NEW width \in Nat, Len(s) - a <= width
    PROVE  IsSeq(PaddedTail(FromOffset(s, a), width)) /\ Len(PaddedTail(FromOffset(s, a), width)) = width
<1>. DEFINE t == FromOffset(s, a)
            n == Len(s) - a
<1>1. IsSeq(t) /\ Len(t) = n /\ n \in Nat /\ n <= width
  BY SeqOps DEF IsSeq
<1>. HIDE DEF t, n
<1>2. width - n \in Nat /\ n + (width - n) = width
  BY <1>1
<1>3. IsSeq(Repeat(0, width - n)) /\ Len(Repeat(0, width - n)) = width - n
  BY <1>2, RepeatIs
<1>4. IsSeq(t \o Repeat(0, width - n)) /\ Len(t \o Repeat(0, width - n)) = n + (width - n)
  BY <1>1, <1>3, SeqOps
<1>5. PaddedTail(t, width) = t \o Repeat(0, width - n)
  BY <1>1 DEF PaddedTail
<1>. QED
  BY <1>2, <1>4, <1>5 DEF t

(* What the scan finds is not before the place it starts at.               *)
LEMMA SpecialsFrom ==
    ASSUME IsSeq(input), NEW from \in Nat, from <= Len(input)
    PROVE  \A k \in FindSpecial(from) : k \in Nat /\ from <= k
<1>1. Len(input) \in Nat
  BY DEF IsSeq
<1>2. \A f \in Nat : \A k \in FindScalar(f) : k \in Nat /\ f <= k
  BY <1>1 DEF FindScalar
<1>3. ASSUME NEW isa, NEW width \in Nat \ {0}, NEW k \in FindByVectors(isa, from, width)
      PROVE  k \in Nat /\ from <= k
  <2>. DEFINE whole == (Len(input) - from) \div width
              rest == from + whole * width
              lanes(n) == LanesAt(isa, from + n * width, width)
              found == UNION {{from + n * width + j : j \in lanes(n)} : n \in 0..(whole - 1)}
  <2>1. \A a : LanesAt(isa, a, width) \subseteq Nat
    BY LanesAre DEF LanesAt
  <2>2. whole \in Nat /\ from <= rest /\ rest \in Nat
    <3>1. \A d \in Nat : d \div width \in Nat
      OBVIOUS
    <3>2. Len(input) - from \in Nat
      BY <1>1
    <3>3. whole \in Nat
      BY <3>1, <3>2
    <3>. HIDE DEF whole
    <3>4. whole * width \in Nat
      BY <3>3
    <3>5. \A p \in Nat : from + p \in Nat /\ from <= from + p
      OBVIOUS
    <3>. QED
      BY <3>3, <3>4, <3>5
  <2>3. k \in found
        \/ k \in TailFind(isa, rest, width)
        \/ k \in FindScalar(rest)
    <3>1. FindByVectors(isa, from, width) =
              found \cup (IF rest = Len(input) THEN {}
               ELSE IF Len(input) >= width THEN TailFind(isa, rest, width)
               ELSE FindScalar(rest))
      BY Zenon DEF FindByVectors
    <3>. HIDE DEF whole, rest, lanes, found
    <3>. QED
      BY <1>3, <3>1
  <2>. HIDE DEF whole
  <2>4. CASE k \in found
    <3>1. PICK n \in 0..(whole - 1) : \E j \in lanes(n) : k = from + n * width + j
      BY <2>4
    <3>2. PICK j \in lanes(n) : k = from + n * width + j
      BY <3>1
    <3>3. j \in Nat /\ n \in Nat
      BY <2>1
    <3>4. n * width \in Nat
      BY <3>3
    <3>. QED
      BY <3>2, <3>3, <3>4
  <2>5. CASE k \in TailFind(isa, rest, width)
    <3>1. PICK j \in LanesAt(isa, Len(input) - width, width) :
             j >= rest - (Len(input) - width) /\ k = Len(input) - width + j
      BY <2>5 DEF TailFind
    <3>2. j \in Nat
      BY <2>1
    <3>3. rest <= k /\ k \in Int
      BY <1>1, <2>2, <3>1, <3>2
    <3>. QED
      BY <2>2, <3>3
  <2>6. CASE k \in FindScalar(rest)
    <3>1. k \in Nat /\ rest <= k
      BY <1>2, <2>2, <2>6
    <3>. QED
      BY <2>2, <3>1
  <2>. QED
    BY <2>3, <2>4, <2>5, <2>6
<1>. QED
  <2>1. VectorWidth \in Nat \ {0} /\ 2 * VectorWidth \in Nat \ {0}
    BY VectorAssumption
  <2>2. FindSpecial(from) = FindScalar(from) \/ FindSpecial(from) = FindByVectors("avx2", from, 2 * VectorWidth)
        \/ FindSpecial(from) = FindByVectors(machine, from, VectorWidth)
    BY DEF FindSpecial, FindAvx2
  <2>. QED
    BY <1>2, <1>3, <2>1, <2>2

(* What an escape of hexadecimal digits is.                                *)
LEMMA UnicodeEscapeIs ==
    ASSUME NEW k, UnicodeEscape(k).kind = "ok"
    PROVE  \/ /\ Hex4(k + 2) # -1
              /\ \E c, l : UnicodeEscape(k) = Decoded(Encoded(c), 6, l)
           \/ /\ Hex4(k + 8) # -1
              /\ \E c, l : UnicodeEscape(k) = Decoded(Encoded(c), 12, l)
<1>1. \A b : b # "ok" => Broken(b).kind # "ok"
  BY DEF Broken
<1>2. /\ "invalid_unicode_escape" # "ok"
      /\ "lone_surrogate" # "ok"
  OBVIOUS
<1>3. Hex4(k + 2) # -1
  <2>1. Hex4(k + 2) = -1 => UnicodeEscape(k) = Broken("invalid_unicode_escape")
    BY Zenon DEF UnicodeEscape
  <2>. QED
    BY <1>1, <1>2, <2>1, Zenon
<1>4. CASE ~ HighSurrogate(Hex4(k + 2))
  <2>1. UnicodeEscape(k) = Decoded(Encoded(Hex4(k + 2)), 6, LowSurrogate(Hex4(k + 2)))
    BY <1>3, <1>4, Zenon DEF UnicodeEscape
  <2>. QED
    BY <1>3, <2>1, Zenon
<1>5. CASE HighSurrogate(Hex4(k + 2))
  <2>1. UnicodeEscape(k) =
           IF ByteAt(k + 6) # BACKSLASH \/ ByteAt(k + 7) # 117 THEN Broken("lone_surrogate")
           ELSE IF Hex4(k + 8) = -1 THEN Broken("invalid_unicode_escape")
           ELSE IF ~ LowSurrogate(Hex4(k + 8)) THEN Broken("lone_surrogate")
           ELSE Decoded(Encoded(Combined(Hex4(k + 2), Hex4(k + 8))), 12, FALSE)
    BY <1>3, <1>5, Zenon DEF UnicodeEscape
  <2>2. Hex4(k + 8) # -1
    BY <1>1, <1>2, <2>1, Zenon
  <2>3. UnicodeEscape(k) =
           Decoded(Encoded(Combined(Hex4(k + 2), Hex4(k + 8))), 12, FALSE)
    BY <1>1, <1>2, <2>1, <2>2, Zenon
  <2>. QED
    BY <2>2, <2>3, Zenon
<1>. QED
  BY <1>4, <1>5

(* What an escape decodes to is not longer than the escape, which lies     *)
(* within the input.                                                       *)
LEMMA EscapeShrinks ==
    ASSUME IsSeq(input), NEW k \in Nat, EscapeBehind(k).kind = "ok"
    PROVE  /\ EscapeBehind(k).length \in Nat
           /\ k + EscapeBehind(k).length <= Len(input)
           /\ Len(EscapeBehind(k).out) \in Nat
           /\ Len(EscapeBehind(k).out) <= EscapeBehind(k).length
<1>1. Len(input) \in Nat
  BY DEF IsSeq
<1>2. \A n \in Nat : ByteAt(n) # -1 => n < Len(input)
  BY DEF ByteAt
<1>3. \A n \in Nat : Hex4(n) # -1 => n + 4 <= Len(input)
  <2>1. ASSUME NEW n \in Nat, ~ (n + 4 <= Len(input))
        PROVE  Hex4(n) = -1
    <3>1. n + 4 > Len(input)
      BY <1>1, <2>1
    <3>. QED
      BY <3>1, Zenon DEF Hex4
  <2>. QED
    BY <2>1
<1>4. \A c : Len(Encoded(c)) \in 1..4
  BY DEF Encoded
<1>5. \A b : b # "ok" => Broken(b).kind # "ok"
  BY DEF Broken
<1>6. \A given, n, l : Decoded(given, n, l).length = n /\ Decoded(given, n, l).out = given
  BY DEF Decoded
<1>7. ByteAt(k + 1) # -1
  <2>1. ByteAt(k + 1) = -1 => EscapeBehind(k) = Broken("unterminated")
    BY Zenon DEF EscapeBehind
  <2>2. "unterminated" # "ok"
    OBVIOUS
  <2>. QED
    BY <1>5, <2>1, <2>2, Zenon
<1>8. CASE ByteAt(k + 1) \in DOMAIN Simple
  <2>2. EscapeBehind(k) = Decoded(<<Simple[ByteAt(k + 1)]>>, 2, FALSE)
    BY <1>7, <1>8, Zenon DEF EscapeBehind
  <2>3. k + 2 <= Len(input)
    BY <1>1, <1>2, <1>7
  <2>4. \A x : Len(<<x>>) = 1
    OBVIOUS
  <2>. DEFINE one == <<Simple[ByteAt(k + 1)]>>
  <2>5. EscapeBehind(k).length = 2 /\ EscapeBehind(k).out = one /\ Len(one) = 1
    <3>1. Len(one) = 1 /\ \E l : EscapeBehind(k) = Decoded(one, 2, l)
      BY <2>2, <2>4, Zenon
    <3>. HIDE DEF one
    <3>2. PICK l : EscapeBehind(k) = Decoded(one, 2, l)
      BY <3>1
    <3>. QED
      BY <1>6, <3>1, <3>2
  <2>. HIDE DEF one
  <2>6. Len(EscapeBehind(k).out) = 1 /\ EscapeBehind(k).length = 2
    BY <2>5, Zenon
  <2>7. 2 \in Nat /\ 1 \in Nat /\ 1 <= 2
    OBVIOUS
  <2>. QED
    BY <2>3, <2>6, <2>7, Zenon
<1>9. CASE ByteAt(k + 1) \notin DOMAIN Simple
  <2>1. EscapeBehind(k) = IF ByteAt(k + 1) = 117 THEN UnicodeEscape(k) ELSE Broken("invalid_escape")
    BY <1>7, <1>9, Zenon DEF EscapeBehind
  <2>2. "invalid_escape" # "ok"
    OBVIOUS
  <2>3. EscapeBehind(k) = UnicodeEscape(k)
    BY <1>5, <2>1, <2>2, Zenon
  <2>4. \/ Hex4(k + 2) # -1 /\ \E c, l : EscapeBehind(k) = Decoded(Encoded(c), 6, l)
        \/ Hex4(k + 8) # -1 /\ \E c, l : EscapeBehind(k) = Decoded(Encoded(c), 12, l)
    BY <2>3, UnicodeEscapeIs, Zenon
  <2>5. CASE Hex4(k + 2) # -1 /\ \E c, l : EscapeBehind(k) = Decoded(Encoded(c), 6, l)
    <3>1. PICK c, l : EscapeBehind(k) = Decoded(Encoded(c), 6, l)
      BY <2>5
    <3>2. EscapeBehind(k).length = 6 /\ EscapeBehind(k).out = Encoded(c) /\ Len(Encoded(c)) \in 1..4
      BY <1>4, <1>6, <3>1
    <3>3. k + 6 <= Len(input)
      BY <1>1, <1>3, <2>5
    <3>4. Len(EscapeBehind(k).out) \in 1..4 /\ 6 \in Nat
      BY <3>2, Zenon
    <3>5. \A m \in 1..4 : m \in Nat /\ m <= 6
      OBVIOUS
    <3>6. Len(EscapeBehind(k).out) \in Nat /\ Len(EscapeBehind(k).out) <= 6
      BY <3>4, <3>5, Zenon
    <3>7. EscapeBehind(k).length = 6
      BY <3>2
    <3>. QED
      BY <3>3, <3>4, <3>6, <3>7, Zenon
  <2>6. CASE Hex4(k + 8) # -1 /\ \E c, l : EscapeBehind(k) = Decoded(Encoded(c), 12, l)
    <3>1. PICK c, l : EscapeBehind(k) = Decoded(Encoded(c), 12, l)
      BY <2>6
    <3>2. EscapeBehind(k).length = 12 /\ EscapeBehind(k).out = Encoded(c) /\ Len(Encoded(c)) \in 1..4
      BY <1>4, <1>6, <3>1
    <3>3. k + 12 <= Len(input)
      BY <1>1, <1>3, <2>6
    <3>4. Len(EscapeBehind(k).out) \in 1..4 /\ 12 \in Nat
      BY <3>2, Zenon
    <3>5. \A m \in 1..4 : m \in Nat /\ m <= 12
      OBVIOUS
    <3>6. Len(EscapeBehind(k).out) \in Nat /\ Len(EscapeBehind(k).out) <= 12
      BY <3>4, <3>5, Zenon
    <3>7. EscapeBehind(k).length = 12
      BY <3>2
    <3>. QED
      BY <3>3, <3>4, <3>6, <3>7, Zenon
  <2>. QED
    BY <2>4, <2>5, <2>6
<1>. QED
  BY <1>8, <1>9

-----------------------------------------------------------------------------
(* The inductive invariant of the tokenizer: while it decodes, `into` is   *)
(* behind `at`, and the room behind it covers what is left of the input    *)
(* and a chunk more.                                                       *)
DecodingRoom ==
    /\ at \in Nat /\ into \in Nat
    /\ into < at /\ at <= Len(input)
    /\ (Len(input) - 1) + DecodeSlack <= Capacity(scratch)

DInv ==
    /\ inRoom = TRUE
    /\ IsSeq(input)
    /\ Buffer(scratch)
    /\ decoding = "start" => Len(input) > 0
    /\ decoding \in {"escape", "span"} => DecodingRoom

(* No more is stored than the chunk.                                       *)
LEMMA RoomFor ==
    ASSUME DecodingRoom, IsSeq(input), Buffer(scratch), NEW n \in 0..SpanWidth
    PROVE  Room(scratch, into, n) /\ into + n \in 0..Capacity(scratch)
<1>1. VectorWidth \in Nat \ {0} /\ Len(input) \in Nat /\ Len(scratch.mem) \in Nat
  BY VectorAssumption DEF IsSeq, Buffer
<1>2. n \in Nat /\ n <= VectorWidth
  BY <1>1 DEF SpanWidth
<1>3. into \in Nat /\ into + 1 <= Len(input) /\ (Len(input) - 1) + VectorWidth <= Len(scratch.mem)
  BY <1>1 DEF DecodingRoom, DecodeSlack, Capacity
<1>. QED
  BY <1>1, <1>2, <1>3 DEF Room, Capacity

(* The chunk decode_span looks at, and where it may hit.                   *)
LEMMA SpanFacts ==
    ASSUME IsSeq(input), at \in Nat, at < Len(input)
    PROVE  /\ SpanWidth \in Nat \ {0}
           /\ Len(SpanChunk) = SpanWidth
           /\ \A k \in SpanHits : k \in Nat /\ k < SpanWidth /\ at + k < Len(input)
           /\ SpanHits \subseteq Nat
<1>1. VectorWidth \in Nat \ {0} /\ Len(input) \in Nat
  BY VectorAssumption DEF IsSeq
<1>2. SpanWidth \in Nat \ {0}
  BY <1>1 DEF SpanWidth
<1>3. Len(SpanChunk) = SpanWidth
  <2>. DEFINE n == SpanWidth
  <2>0. n \in Nat /\ n = SpanWidth
    BY <1>2
  <2>. HIDE DEF n
  <2>1. CASE Len(input) - at >= n
    <3>1. at + n <= Len(input)
      BY <1>1, <2>0, <2>1
    <3>2. Len(SubSeq(input, at + 1, at + n)) = n
      BY <2>0, <3>1, SliceIs
    <3>. QED
      BY <2>0, <2>1, <3>2 DEF SpanChunk
  <2>2. CASE ~ (Len(input) - at >= n)
    <3>1. Len(input) - at <= n /\ at \in 0..Len(input)
      BY <1>1, <2>0, <2>2
    <3>2. Len(PaddedTail(FromOffset(input, at), n)) = n
      BY <2>0, <3>1, PaddedIs
    <3>. QED
      BY <2>0, <2>2, <3>2 DEF SpanChunk
  <2>. QED
    BY <2>1, <2>2
<1>4. \A k \in SpanHits : k \in Nat /\ k < SpanWidth /\ at + k < Len(input)
  <2>1. CASE machine = "scalar"
    <3>1. \A k \in SpanHits : k = 0
      BY <2>1 DEF SpanHits
    <3>2. \A k : k = 0 => k \in Nat /\ k < SpanWidth /\ at + k < Len(input)
      BY <1>1, <1>2
    <3>. QED
      BY <3>1, <3>2
  <2>2. CASE machine # "scalar"
    <3>1. \A k \in SpanHits : k \in 0..(SpanWidth - 1) /\ k \in 0..(Len(input) - at - 1)
      BY <1>3, <2>2, LanesAre DEF SpanHits
    <3>2. \A k \in 0..(Len(input) - at - 1) : at + k < Len(input)
      BY <1>1
    <3>3. \A k \in 0..(SpanWidth - 1) : k \in Nat /\ k < SpanWidth
      BY <1>2
    <3>. QED
      BY <3>1, <3>2, <3>3
  <2>. QED
    BY <2>1, <2>2
<1>. QED
  BY <1>2, <1>3, <1>4

-----------------------------------------------------------------------------
(* Preservation.                                                           *)

(* The reservation covers what is left of the text, and one chunk more.    *)
LEMMA ScanFirstKeeps ==
    ASSUME DInv, ScanFirst
    PROVE  DInv'
<1>1. decoding = "start" /\ inRoom = TRUE /\ IsSeq(input) /\ Buffer(scratch) /\ Len(input) > 0
      /\ input' = input /\ Len(input) \in Nat
  BY DEF ScanFirst, DInv, IsSeq
<1>2. VectorWidth \in Nat /\ 1 \in Nat /\ 1 <= Len(input)
  BY <1>1, VectorAssumption
<1>3. CASE decoding' = "done" /\ UNCHANGED <<scratch, inRoom>>
  BY <1>1, <1>3 DEF DInv
<1>4. CASE ~ (decoding' = "done" /\ UNCHANGED <<scratch, inRoom>>)
  <2>. DEFINE special == FindSpecial(1)
              least == Lowest(special)
              reserved == Reserve(Publish(scratch, 0), (Len(input) - 1) + DecodeSlack)
              prefix == SubSeq(input, 2, least)
  <2>1. /\ special # {} /\ ByteAt(least) = BACKSLASH
        /\ scratch' = Put(reserved, 0, prefix)
        /\ inRoom' = (inRoom /\ Room(reserved, 0, Len(prefix)))
        /\ at' = least /\ into' = least - 1 /\ decoding' = "escape"
    BY <1>4, Zenon DEF ScanFirst, Return
  <2>2. \A k \in special : k \in Nat /\ 1 <= k
    BY <1>1, <1>2, SpecialsFrom
  <2>. HIDE DEF special
  <2>3. least \in Nat /\ 1 <= least
    <3>1. special \subseteq Nat
      BY <2>2
    <3>2. least \in special
      BY <2>1, <3>1, LowestIs
    <3>. QED
      BY <2>2, <3>2
  <2>. HIDE DEF least
  <2>4. least < Len(input)
    BY <2>1 DEF ByteAt, BACKSLASH
  <2>5. least - 1 \in Nat /\ 1 + (least - 1) = least
    BY <2>3
  <2>6. Len(prefix) = least - 1
    <3>1. 1 + (least - 1) <= Len(input)
      BY <1>1, <2>3, <2>4
    <3>2. Len(SubSeq(input, 1 + 1, 1 + (least - 1))) = least - 1
      BY <1>1, <1>2, <2>5, <3>1, SliceIs
    <3>. QED
      BY <2>5, <3>2
  <2>. HIDE DEF prefix
  <2>7. Buffer(reserved) /\ (Len(input) - 1) + DecodeSlack <= Capacity(reserved)
    <3>1. 0 \in 0..Capacity(scratch)
      BY <1>1 DEF Buffer, IsSeq, Capacity
    <3>2. Buffer(Publish(scratch, 0)) /\ Publish(scratch, 0).len = 0
      BY <1>1, <3>1, PublishKeeps
    <3>3. (Len(input) - 1) + DecodeSlack \in Nat
      BY <1>2, <1>1 DEF DecodeSlack
    <3>4. Buffer(reserved) /\ 0 + ((Len(input) - 1) + DecodeSlack) <= Capacity(reserved)
      BY <3>2, <3>3, ReserveGives
    <3>. QED
      BY <3>3, <3>4
  <2>. HIDE DEF reserved
  <2>8. Capacity(reserved) \in Nat
    BY <2>7 DEF Buffer, IsSeq, Capacity
  <2>9. Room(reserved, 0, Len(prefix))
    BY <1>1, <1>2, <2>4, <2>5, <2>6, <2>7, <2>8 DEF Room, Capacity, DecodeSlack
  <2>10. Buffer(scratch)' /\ Capacity(scratch)' = Capacity(reserved)
    <3>1. Buffer(Put(reserved, 0, prefix)) /\ Capacity(Put(reserved, 0, prefix)) = Capacity(reserved)
      BY <2>7, PutKeeps
    <3>. QED
      BY <2>1, <3>1 DEF Buffer, Capacity
  <2>11. DecodingRoom'
    BY <1>1, <2>1, <2>3, <2>4, <2>7, <2>10 DEF DecodingRoom, DecodeSlack
  <2>12. inRoom' = TRUE
    BY <1>1, <2>1, <2>9
  <2>. QED
    BY <1>1, <2>1, <2>10, <2>11, <2>12 DEF DInv
<1>. QED
  BY <1>3, <1>4

(* A store of at most a chunk while decoding.                              *)
LEMMA FillKeeps ==
    ASSUME DInv, DecodingRoom, NEW given, Len(given) \in Nat, into + Len(given) <= Capacity(scratch),
           Fill(into, given)
    PROVE  Buffer(scratch') /\ Capacity(scratch') = Capacity(scratch) /\ inRoom' = TRUE
<1>1. Buffer(Put(scratch, into, given)) /\ Capacity(Put(scratch, into, given)) = Capacity(scratch)
  BY PutKeeps DEF DInv
<1>2. Room(scratch, into, Len(given))
  BY DEF Room, Capacity
<1>. QED
  BY <1>1, <1>2 DEF Fill, DInv

(* An escape's bytes are stored, no more than it is long.                  *)
LEMMA DecodeEscapeKeeps ==
    ASSUME DInv, DecodeEscape
    PROVE  DInv'
<1>1. inRoom = TRUE /\ IsSeq(input) /\ Buffer(scratch) /\ DecodingRoom
      /\ input' = input /\ Len(input) \in Nat /\ Capacity(scratch) \in Nat /\ VectorWidth \in Nat
  BY VectorAssumption DEF DecodeEscape, DInv, IsSeq, Buffer, Capacity
<1>2. CASE EscapeBehind(at).kind # "ok"
  <2>1. decoding' = "done" /\ UNCHANGED <<scratch, inRoom>>
    BY <1>2, Zenon DEF DecodeEscape, Return
  <2>. QED
    BY <1>1, <2>1 DEF DInv
<1>3. CASE EscapeBehind(at).kind = "ok"
  <2>. DEFINE n == EscapeBehind(at).length
              m == Len(EscapeBehind(at).out)
  <2>1. /\ Fill(into, EscapeBehind(at).out)
        /\ at' = at + n /\ into' = into + m
        /\ decoding' \in {"escape", "span"}
    BY <1>3 DEF DecodeEscape
  <2>2. at \in Nat /\ into \in Nat /\ into < at /\ (Len(input) - 1) + VectorWidth <= Capacity(scratch)
    BY <1>1 DEF DecodingRoom, DecodeSlack
  <2>3. n \in Nat /\ m \in Nat /\ at + n <= Len(input) /\ m <= n
    BY <1>1, <1>3, <2>2, EscapeShrinks
  <2>. HIDE DEF n, m
  <2>4. into + m <= Capacity(scratch)
    BY <1>1, <2>2, <2>3
  <2>5. Buffer(scratch') /\ Capacity(scratch') = Capacity(scratch) /\ inRoom' = TRUE
    BY <1>1, <2>1, <2>3, <2>4, FillKeeps DEF m
  <2>6. DecodingRoom'
    BY <1>1, <2>1, <2>2, <2>3, <2>5 DEF DecodingRoom, DecodeSlack, Capacity
  <2>. QED
    BY <1>1, <2>1, <2>5, <2>6 DEF DInv, Buffer
<1>. QED
  BY <1>2, <1>3

(* A clean chunk is stored whole, the padding of the last with it.         *)
LEMMA CopyCleanChunkKeeps ==
    ASSUME DInv, CopyCleanChunk
    PROVE  DInv'
<1>1. inRoom = TRUE /\ IsSeq(input) /\ Buffer(scratch) /\ DecodingRoom /\ at < Len(input)
      /\ input' = input /\ Len(input) \in Nat /\ Capacity(scratch) \in Nat /\ VectorWidth \in Nat
      /\ decoding = "span"
  BY VectorAssumption DEF CopyCleanChunk, DInv, IsSeq, Buffer, Capacity
<1>2. at \in Nat /\ into \in Nat /\ into < at /\ (Len(input) - 1) + VectorWidth <= Capacity(scratch)
  BY <1>1 DEF DecodingRoom, DecodeSlack
<1>3. SpanWidth \in Nat \ {0} /\ Len(SpanChunk) = SpanWidth
  BY <1>1, <1>2, SpanFacts
<1>4. into + SpanWidth <= Capacity(scratch)
  <2>1. SpanWidth \in 0..SpanWidth
    BY <1>3
  <2>2. into + SpanWidth \in 0..Capacity(scratch)
    BY <1>1, <2>1, RoomFor
  <2>. QED
    BY <2>2
<1>5. Fill(into, SpanChunk)
  BY DEF CopyCleanChunk
<1>6. Buffer(scratch') /\ Capacity(scratch') = Capacity(scratch) /\ inRoom' = TRUE
  <2>1. Len(SpanChunk) \in Nat /\ into + Len(SpanChunk) <= Capacity(scratch)
    BY <1>3, <1>4
  <2>. QED
    BY <1>1, <1>5, <2>1, FillKeeps
<1>7. CASE Len(input) - at >= SpanWidth
  <2>1. at' = at + SpanWidth /\ into' = into + SpanWidth /\ decoding' = decoding
    BY <1>7 DEF CopyCleanChunk
  <2>2. at + SpanWidth <= Len(input)
    BY <1>1, <1>2, <1>3, <1>7
  <2>. DEFINE n == SpanWidth
  <2>3. n \in Nat /\ at' = at + n /\ into' = into + n /\ at + n <= Len(input)
    BY <1>3, <2>1, <2>2
  <2>. HIDE DEF n
  <2>4. DecodingRoom'
    BY <1>1, <1>2, <2>3, <1>6 DEF DecodingRoom, DecodeSlack, Capacity
  <2>. QED
    BY <1>1, <1>6, <2>1, <2>4 DEF DInv, Buffer
<1>8. CASE ~ (Len(input) - at >= SpanWidth)
  <2>1. decoding' = "done"
    BY <1>8, Zenon DEF CopyCleanChunk, Return
  <2>. QED
    BY <1>1, <1>6, <2>1 DEF DInv, Buffer
<1>. QED
  BY <1>7, <1>8

(* The chunk that ends a span is stored whole; less is kept.               *)
LEMMA SpanEndsKeeps ==
    ASSUME DInv, SpanEnds
    PROVE  DInv'
<1>1. inRoom = TRUE /\ IsSeq(input) /\ Buffer(scratch) /\ DecodingRoom /\ at < Len(input)
      /\ input' = input /\ Len(input) \in Nat /\ Capacity(scratch) \in Nat /\ VectorWidth \in Nat
      /\ decoding = "span" /\ SpanHits # {}
  BY VectorAssumption DEF SpanEnds, DInv, IsSeq, Buffer, Capacity
<1>2. at \in Nat /\ into \in Nat /\ into < at /\ (Len(input) - 1) + VectorWidth <= Capacity(scratch)
  BY <1>1 DEF DecodingRoom, DecodeSlack
<1>. DEFINE n == Lowest(SpanHits)
            filled == IF machine = "scalar" THEN scratch ELSE Put(scratch, into, SpanChunk)
<1>3. n \in Nat /\ n < SpanWidth /\ at + n < Len(input) /\ SpanWidth \in Nat
  <2>1. /\ \A k \in SpanHits : k \in Nat /\ k < SpanWidth /\ at + k < Len(input)
        /\ SpanHits \subseteq Nat /\ SpanWidth \in Nat
    BY <1>1, <1>2, SpanFacts
  <2>2. n \in SpanHits
    BY <1>1, <2>1, LowestIs
  <2>. QED
    BY <2>1, <2>2
<1>4. /\ inRoom' = (inRoom /\ (machine = "scalar" \/ Room(scratch, into, SpanWidth)))
      /\ at' = at + n /\ into' = into + n
      /\ scratch' = IF ByteAt(at + n) = QUOTE THEN Publish(filled, into + n) ELSE filled
      /\ decoding' \in {"escape", "done"}
  BY DEF SpanEnds, Return
<1>5. Buffer(filled) /\ Capacity(filled) = Capacity(scratch)
  BY <1>1, PutKeeps
<1>6. Room(scratch, into, SpanWidth) /\ into + n \in 0..Capacity(scratch)
  <2>1. SpanWidth \in 0..SpanWidth /\ n \in 0..SpanWidth
    BY <1>3
  <2>. HIDE DEF n
  <2>. QED
    BY <1>1, <2>1, RoomFor
<1>. HIDE DEF n, filled
<1>7. Buffer(scratch') /\ Capacity(scratch') = Capacity(scratch)
  BY <1>4, <1>5, <1>6, PublishKeeps
<1>8. inRoom' = TRUE
  BY <1>1, <1>4, <1>6
<1>9. DecodingRoom'
  BY <1>1, <1>2, <1>3, <1>4, <1>7 DEF DecodingRoom, DecodeSlack, Capacity
<1>. QED
  BY <1>1, <1>4, <1>7, <1>8, <1>9 DEF DInv, Buffer

(* Every step of the tokenizer.                                            *)
LEMMA StringNextKeeps ==
    ASSUME DInv, StringNext
    PROVE  DInv'
<1>1. CASE SpanRunsOut
  BY <1>1 DEF SpanRunsOut, Return, DInv
<1>. QED
  BY <1>1, ScanFirstKeeps, DecodeEscapeKeeps, CopyCleanChunkKeeps, SpanEndsKeeps DEF StringNext

(* A new text, over the scratch as the last one left it.                   *)
LEMMA BeginStringKeeps ==
    ASSUME DInv, NEW text, IsSeq(text), Len(text) > 0, NEW m, BeginString(text, m)
    PROVE  DInv'
  BY DEF BeginString, DInv

(* The empty scratch.                                                      *)
LEMMA EmptyIs ==
    IsSeq(<<>>) /\ Buffer(EmptyBuffer)
<1>1. IsSeq(<<>>)
  BY DEF IsSeq
<1>2. EmptyBuffer.mem = <<>> /\ EmptyBuffer.len = 0
      /\ EmptyBuffer = [mem |-> EmptyBuffer.mem, len |-> EmptyBuffer.len, gen |-> EmptyBuffer.gen]
  BY DEF EmptyBuffer
<1>3. 0 \in 0..Len(<<>>)
  OBVIOUS
<1>. QED
  BY <1>1, <1>2, <1>3 DEF Buffer

-----------------------------------------------------------------------------
(* The escaper.                                                            *)

(* The length of a character of UTF-8, by its first byte, and the places   *)
(* of a text where one begins, the end with them.                          *)
LeadLen(b) == IF b < 128 THEN 1 ELSE IF b < 224 THEN 2 ELSE IF b < 240 THEN 3 ELSE 4
Chars(t, B) ==
    /\ B \subseteq 0..Len(t) /\ 0 \in B
    /\ \A k \in B : k < Len(t) => k + LeadLen(t[k + 1]) \in B
AtChar(t, k) == \E B : Chars(t, B) /\ k \in B

(* How long escapes are, and the entries of their table.                   *)
LEMMA EscapeSizes ==
    /\ \A c : Len(U16Escape(c)) = 6
    /\ \A c : Len(Surrogates(c)) = 12
    /\ \A b : Len(EscSeq(b)) = 8 /\ EscLen(b) \in {2, 6}
    /\ \A a : DecodeUtf8(a).len = IF bytes[a + 1] < 224 THEN 2 ELSE IF bytes[a + 1] < 240 THEN 3 ELSE 4
<1>1. \A a, b, c, d, e, f : IsSeq(<<a, b, c, d, e, f>>) /\ Len(<<a, b, c, d, e, f>>) = 6
  <2>1. ASSUME NEW a, NEW b, NEW c, NEW d, NEW e, NEW f
        PROVE  IsSeq(<<a, b, c, d, e, f>>) /\ Len(<<a, b, c, d, e, f>>) = 6
    <3>1. <<a, b, c, d, e, f>> \in Seq({a, b, c, d, e, f}) /\ Len(<<a, b, c, d, e, f>>) = 6
      OBVIOUS
    <3>. QED
      BY <3>1, SeqIs
  <2>. QED
    BY <2>1
<1>2. \A x, y, z, v, u, s, r, q : Len(<<x, y, z, v, u, s, r, q>>) = 8
  OBVIOUS
<1>3. \A c : IsSeq(U16Escape(c)) /\ Len(U16Escape(c)) = 6
  <2>1. ASSUME NEW c PROVE IsSeq(U16Escape(c)) /\ Len(U16Escape(c)) = 6
    <3>1. Len(U16Escape(c)) = 6
      BY <1>1, Zenon DEF U16Escape
    <3>2. IsSeq(U16Escape(c))
      <4>. DEFINE tuple == <<BACKSLASH, 117, HEX[c \div 4096], HEX[(c \div 256) % 16],
                              HEX[(c \div 16) % 16], HEX[c % 16]>>
      <4>1. U16Escape(c) = tuple
        BY Zenon DEF U16Escape
      <4>2. IsSeq(tuple)
        BY <1>1
      <4>. HIDE DEF tuple
      <4>. QED
        BY <4>1, <4>2
    <3>. QED
      BY <3>1, <3>2
  <2>. QED
    BY <2>1
<1>4. \A c : Len(Surrogates(c)) = 12
  <2>1. ASSUME NEW c PROVE Len(Surrogates(c)) = 12
    <3>1. \A x, y : Len(U16Escape(x) \o U16Escape(y)) = 12
      <4>1. ASSUME NEW x, NEW y PROVE Len(U16Escape(x) \o U16Escape(y)) = 12
        <5>1. IsSeq(U16Escape(x)) /\ Len(U16Escape(x)) = 6 /\ IsSeq(U16Escape(y)) /\ Len(U16Escape(y)) = 6
          BY <1>3, Zenon
        <5>. DEFINE s == U16Escape(x)
                    t == U16Escape(y)
        <5>. HIDE DEF s, t
        <5>2. IsSeq(s) /\ Len(s) = 6 /\ IsSeq(t) /\ Len(t) = 6
          BY <5>1, Zenon DEF s, t
        <5>3. Len(s \o t) = Len(s) + Len(t)
          BY <5>2, SeqOps
        <5>4. Len(s \o t) = 12
          BY <5>2, <5>3
        <5>. QED
          BY <5>4, Zenon DEF s, t
      <4>. QED
        BY <4>1
    <3>. QED
      BY <3>1, Zenon DEF Surrogates
  <2>. QED
    BY <2>1
<1>5. \A b : Len(EscSeq(b)) = 8
  <2>1. ASSUME NEW b PROVE Len(EscSeq(b)) = 8
    <3>1. CASE b \in DOMAIN ShortEscapes
      <4>1. EscSeq(b) = <<BACKSLASH, ShortEscapes[b], 0, 0, 0, 0, 0, 0>>
        BY <3>1, Zenon DEF EscSeq
      <4>. QED
        BY <1>2, <4>1, Zenon
    <3>2. CASE b \notin DOMAIN ShortEscapes
      <4>1. EscSeq(b) = U16Escape(b) \o <<0, 0>>
        BY <3>2, Zenon DEF EscSeq
      <4>2. IsSeq(<<0, 0>>) /\ Len(<<0, 0>>) = 2
        BY DEF IsSeq
      <4>. DEFINE s == U16Escape(b)
      <4>3. IsSeq(s) /\ Len(s) = 6
        BY <1>3, Zenon
      <4>. HIDE DEF s
      <4>4. Len(s \o <<0, 0>>) = Len(s) + Len(<<0, 0>>)
        BY <4>2, <4>3, SeqOps
      <4>5. Len(s \o <<0, 0>>) = 8
        BY <4>2, <4>3, <4>4
      <4>. QED
        BY <4>1, <4>5, Zenon DEF s
    <3>. QED
      BY <3>1, <3>2
  <2>. QED
    BY <2>1
<1>6. \A b : EscLen(b) \in {2, 6}
  BY DEF EscLen
<1>7. \A a : DecodeUtf8(a).len = IF bytes[a + 1] < 224 THEN 2 ELSE IF bytes[a + 1] < 240 THEN 3 ELSE 4
  <2>1. ASSUME NEW a
        PROVE  DecodeUtf8(a).len = IF bytes[a + 1] < 224 THEN 2 ELSE IF bytes[a + 1] < 240 THEN 3 ELSE 4
    <3>1. \A c, n : [cp |-> c, len |-> n].len = n
      OBVIOUS
    <3>2. CASE bytes[a + 1] < 224
      <4>1. DecodeUtf8(a).len = 2
        BY <3>1, <3>2, Zenon DEF DecodeUtf8
      <4>. QED
        BY <3>2, <4>1, Zenon
    <3>3. CASE ~ (bytes[a + 1] < 224) /\ bytes[a + 1] < 240
      <4>1. DecodeUtf8(a).len = 3
        BY <3>3 DEF DecodeUtf8
      <4>. QED
        BY <3>3, <4>1
    <3>4. CASE ~ (bytes[a + 1] < 224) /\ ~ (bytes[a + 1] < 240)
      <4>1. DecodeUtf8(a).len = 4
        BY <3>1, <3>4, Zenon DEF DecodeUtf8
      <4>. QED
        BY <3>4, <4>1, Zenon
    <3>. QED
      BY <3>2, <3>3, <3>4, Zenon
  <2>. QED
    BY <2>1
<1>. QED
  BY <1>3, <1>4, <1>5, <1>6, <1>7

(* An element of a sequence.                                               *)
LEMMA Element ==
    ASSUME NEW S, NEW s \in Seq(S), NEW p \in 1..Len(s)
    PROVE  s[p] \in S
  OBVIOUS

(* A turn of the escape run stores no more than the worst case, counts no  *)
(* more than it stores, and goes on to where a character begins.           *)
LEMMA EscapeAtIs ==
    ASSUME bytes \in Seq(0..255), NEW k \in Nat, k < Len(bytes),
           mode = "ascii_only" => AtChar(bytes, k)
    PROVE  /\ EscapeAt(k).from \in 1..4 /\ EscapeAt(k).len \in 1..12 /\ Len(EscapeAt(k).out) \in 1..12
           /\ k + EscapeAt(k).from <= Len(bytes)
           /\ EscapeAt(k).len <= 6 * EscapeAt(k).from
           /\ EscapeAt(k).len <= Len(EscapeAt(k).out)
           /\ Len(EscapeAt(k).out) <= 6 * EscapeAt(k).from + 8
           /\ mode = "ascii_only" => AtChar(bytes, k + EscapeAt(k).from)
<1>. DEFINE b == bytes[k + 1]
            Is(given, len, from) == EscapeAt(k) = [out |-> given, len |-> len, from |-> from]
<1>1. b \in 0..255 /\ Len(bytes) \in Nat /\ k + 1 \in 1..Len(bytes)
  <2>1. Len(bytes) \in Nat
    OBVIOUS
  <2>2. k + 1 \in 1..Len(bytes)
    BY <2>1
  <2>4. b \in 0..255
    BY <2>2, Element, Zenon
  <2>. QED
    BY <2>1, <2>2, <2>4
<1>2. \A given, len, from : Is(given, len, from) =>
          EscapeAt(k).out = given /\ EscapeAt(k).len = len /\ EscapeAt(k).from = from
  OBVIOUS
<1>3. \/ (mode = "ascii_only" => b < 128) /\ \E given : Is(given, Len(given), 1) /\ Len(given) \in 1..6
      \/ (mode = "ascii_only" => b < 128) /\ \E given : Is(given, EscLen(b), 1) /\ Len(given) = 8
      \/ IsSeparator(k) /\ mode # "ascii_only" /\ \E given : Is(given, Len(given), 3) /\ Len(given) = 6
      \/ mode = "ascii_only" /\ b >= 128 /\
            \E given : Is(given, Len(given), DecodeUtf8(k).len) /\ Len(given) \in {6, 12}
  <2>. HIDE DEF b
  <2>0. b = bytes[k + 1]
    BY DEF b
  <2>1. CASE b \in {QUOTE, BACKSLASH}
    <3>1. Is(<<BACKSLASH, b>>, Len(<<BACKSLASH, b>>), 1)
      BY <2>0, <2>1, Zenon DEF EscapeAt
    <3>2. Len(<<BACKSLASH, b>>) \in 1..6
      OBVIOUS
    <3>3. b < 128
      BY <2>1 DEF QUOTE, BACKSLASH
    <3>. QED
      BY <3>1, <3>2, <3>3, Zenon
  <2>2. CASE b \notin {QUOTE, BACKSLASH} /\ b < 32
    <3>1. Is(EscSeq(b), EscLen(b), 1)
      BY <2>0, <2>2, Zenon DEF EscapeAt
    <3>2. Len(EscSeq(b)) = 8
      BY EscapeSizes, Zenon
    <3>3. b < 128
      BY <1>1, <2>0, <2>2
    <3>. QED
      BY <3>1, <3>2, <3>3, Zenon
  <2>3. CASE b \notin {QUOTE, BACKSLASH} /\ ~ (b < 32) /\ mode = "script_safe" /\ b = SLASH
    <3>1. Is(<<BACKSLASH, SLASH>>, Len(<<BACKSLASH, SLASH>>), 1)
      BY <2>0, <2>3, Zenon DEF EscapeAt
    <3>2. Len(<<BACKSLASH, SLASH>>) \in 1..6
      OBVIOUS
    <3>3. mode # "ascii_only"
      BY <2>3
    <3>. QED
      BY <3>1, <3>2, <3>3, Zenon
  <2>. DEFINE plain == b \notin {QUOTE, BACKSLASH} /\ ~ (b < 32) /\ ~ (mode = "script_safe" /\ b = SLASH)
              html == EscapesHtmlEntities(mode) /\ b \in Html
              lead == EscapesJsSeparators(mode) /\ b = JS_SEP_LEAD
              wide == mode = "ascii_only" /\ b >= 128
  <2>4. CASE plain /\ html
    <3>1. Is(U16Escape(b), Len(U16Escape(b)), 1)
      BY <2>0, <2>4, Zenon DEF EscapeAt
    <3>2. Len(U16Escape(b)) \in 1..6
      BY EscapeSizes
    <3>3. mode # "ascii_only"
      BY <2>4 DEF EscapesHtmlEntities
    <3>. QED
      BY <3>1, <3>2, <3>3, Zenon
  <2>5. CASE plain /\ ~ html /\ lead /\ IsSeparator(k)
    <3>1. Is(U16Escape(SeparatorAt(k)), Len(U16Escape(SeparatorAt(k))), 3)
      BY <2>0, <2>5, Zenon DEF EscapeAt
    <3>2. Len(U16Escape(SeparatorAt(k))) = 6
      BY EscapeSizes
    <3>3. mode # "ascii_only"
      BY <2>5 DEF EscapesJsSeparators
    <3>. QED
      BY <2>5, <3>1, <3>2, <3>3, Zenon
  <2>6. CASE plain /\ ~ html /\ lead /\ ~ IsSeparator(k)
    <3>1. Is(<<JS_SEP_LEAD>>, Len(<<JS_SEP_LEAD>>), 1)
      BY <2>0, <2>6, Zenon DEF EscapeAt
    <3>2. Len(<<JS_SEP_LEAD>>) \in 1..6
      OBVIOUS
    <3>3. mode # "ascii_only"
      BY <2>6 DEF EscapesJsSeparators
    <3>. QED
      BY <3>1, <3>2, <3>3, Zenon
  <2>7. CASE plain /\ ~ html /\ ~ lead /\ wide
    <3>. DEFINE given == IF Upper(DecodeUtf8(k).cp) THEN Surrogates(DecodeUtf8(k).cp)
                       ELSE U16Escape(DecodeUtf8(k).cp)
    <3>1. Is(given, Len(given), DecodeUtf8(k).len)
      BY <2>0, <2>7, Zenon DEF EscapeAt
    <3>2. Len(given) \in {6, 12}
      BY EscapeSizes
    <3>. HIDE DEF given
    <3>. QED
      BY <2>7, <3>1, <3>2, Zenon
  <2>8. CASE plain /\ ~ html /\ ~ lead /\ ~ wide
    <3>1. Is(<<b>>, Len(<<b>>), 1)
      BY <2>0, <2>8, Zenon DEF EscapeAt
    <3>2. Len(<<b>>) \in 1..6
      OBVIOUS
    <3>3. mode = "ascii_only" => b < 128
      BY <1>1, <2>0, <2>8
    <3>. QED
      BY <3>1, <3>2, <3>3, Zenon
  <2>. HIDE DEF Is, html, lead, wide
  <2>. QED
    BY <2>1, <2>2, <2>3, <2>4, <2>5, <2>6, <2>7, <2>8, Zenon
<1>4. mode = "ascii_only" => k + LeadLen(b) <= Len(bytes) /\ AtChar(bytes, k + LeadLen(b))
  <2>1. SUFFICES ASSUME mode = "ascii_only"
                 PROVE  k + LeadLen(b) <= Len(bytes) /\ AtChar(bytes, k + LeadLen(b))
    BY Zenon
  <2>2. PICK B : Chars(bytes, B) /\ k \in B
    BY <2>1 DEF AtChar
  <2>3. k + LeadLen(bytes[k + 1]) \in B /\ B \subseteq 0..Len(bytes)
    BY <2>2 DEF Chars
  <2>. DEFINE n == k + LeadLen(b)
  <2>4. n \in B /\ n \in 0..Len(bytes)
    BY <2>3
  <2>. HIDE DEF n
  <2>5. n <= Len(bytes)
    BY <1>1, <2>4
  <2>6. AtChar(bytes, n)
    BY <2>2, <2>4, Zenon DEF AtChar
  <2>. QED
    BY <2>5, <2>6 DEF n
<1>5. k + 1 <= Len(bytes)
  BY <1>1
<1>6. /\ b < 128 => LeadLen(b) = 1
      /\ b >= 128 => LeadLen(b) = DecodeUtf8(k).len /\ LeadLen(b) \in 2..4
      /\ EscLen(b) \in {2, 6}
  <2>1. DecodeUtf8(k).len = IF b < 224 THEN 2 ELSE IF b < 240 THEN 3 ELSE 4
    BY EscapeSizes, Zenon
  <2>2. EscLen(b) \in {2, 6}
    BY EscapeSizes, Zenon
  <2>. HIDE DEF b
  <2>. QED
    BY <1>1, <2>1, <2>2 DEF LeadLen
<1>7. IsSeparator(k) => k + 3 <= Len(bytes)
  BY <1>1 DEF IsSeparator
<1>. HIDE DEF b
<1>8. SUFFICES ASSUME NEW given, NEW len, NEW from, Is(given, len, from),
                      \/ (mode = "ascii_only" => b < 128) /\ from = 1 /\ len = Len(given) /\ len \in 1..6
                      \/ (mode = "ascii_only" => b < 128) /\ from = 1 /\ len = EscLen(b) /\ Len(given) = 8
                      \/ IsSeparator(k) /\ mode # "ascii_only" /\ from = 3 /\ len = Len(given) /\ len = 6
                      \/ mode = "ascii_only" /\ b >= 128 /\ from = LeadLen(b) /\ len = Len(given)
                         /\ len \in {6, 12}
               PROVE  /\ from \in 1..4 /\ len \in 1..12 /\ Len(given) \in 1..12
                      /\ k + from <= Len(bytes)
                      /\ len <= 6 * from /\ len <= Len(given) /\ Len(given) <= 6 * from + 8
                      /\ mode = "ascii_only" => AtChar(bytes, k + from)
  <2>1. \E given, len, from :
           /\ Is(given, len, from)
           /\ \/ (mode = "ascii_only" => b < 128) /\ from = 1 /\ len = Len(given) /\ len \in 1..6
              \/ (mode = "ascii_only" => b < 128) /\ from = 1 /\ len = EscLen(b) /\ Len(given) = 8
              \/ IsSeparator(k) /\ mode # "ascii_only" /\ from = 3 /\ len = Len(given) /\ len = 6
              \/ mode = "ascii_only" /\ b >= 128 /\ from = LeadLen(b) /\ len = Len(given)
                 /\ len \in {6, 12}
    <3>. HIDE DEF Is
    <3>. QED
      BY <1>3, <1>6, Zenon
  <2>2. PICK given, len, from :
           /\ Is(given, len, from)
           /\ \/ (mode = "ascii_only" => b < 128) /\ from = 1 /\ len = Len(given) /\ len \in 1..6
              \/ (mode = "ascii_only" => b < 128) /\ from = 1 /\ len = EscLen(b) /\ Len(given) = 8
              \/ IsSeparator(k) /\ mode # "ascii_only" /\ from = 3 /\ len = Len(given) /\ len = 6
              \/ mode = "ascii_only" /\ b >= 128 /\ from = LeadLen(b) /\ len = Len(given)
                 /\ len \in {6, 12}
    BY <2>1
  <2>3. EscapeAt(k).out = given /\ EscapeAt(k).len = len /\ EscapeAt(k).from = from
    BY <1>2, <2>2
  <2>. HIDE DEF Is
  <2>. QED
    BY <1>8, <2>2, <2>3, Zenon
<1>. HIDE DEF Is
<1>9. mode = "ascii_only" => from = LeadLen(b)
  BY <1>6, <1>8
<1>10. mode = "ascii_only" => k + from <= Len(bytes) /\ AtChar(bytes, k + from)
  BY <1>4, <1>9, Zenon
<1>11. /\ from \in 1..4 /\ len \in 1..12 /\ Len(given) \in 1..12
       /\ len <= 6 * from /\ len <= Len(given) /\ Len(given) <= 6 * from + 8
  <2>. DEFINE size == Len(given)
  <2>1. \/ from = 1 /\ len = size /\ len \in 1..6
        \/ from = 1 /\ len \in {2, 6} /\ size = 8
        \/ from = 3 /\ len = size /\ len = 6
        \/ from \in 2..4 /\ len = size /\ len \in {6, 12}
    <3>1. b >= 128 => LeadLen(b) \in 2..4
      BY <1>6, Zenon
    <3>. QED
      BY <1>6, <1>8, <3>1, Zenon
  <2>. HIDE DEF size
  <2>2. /\ from \in 1..4 /\ len \in 1..12 /\ size \in 1..12
        /\ len <= 6 * from /\ len <= size /\ size <= 6 * from + 8
    BY <2>1
  <2>. QED
    BY <2>2, Zenon DEF size
<1>12. mode # "ascii_only" => k + from <= Len(bytes)
  <2>1. from = 1 \/ (from = 3 /\ IsSeparator(k)) \/ mode = "ascii_only"
    BY <1>8, Zenon
  <2>2. CASE from = 1
    BY <1>5, <2>2
  <2>3. CASE from = 3 /\ IsSeparator(k)
    BY <1>7, <2>3
  <2>. QED
    BY <2>1, <2>2, <2>3
<1>. QED
  BY <1>10, <1>11, <1>12, Zenon

-----------------------------------------------------------------------------
(* UTF-8 is made of characters.                                            *)

(* Short tuples of bytes.                                                  *)
LEMMA Tuples ==
    ASSUME NEW x \in 0..255
    PROVE  /\ <<x>> \in Seq(0..255) /\ Len(<<x>>) = 1 /\ <<x>>[1] = x
           /\ \A y \in 0..255 :
                 /\ <<x, y>> \in Seq(0..255) /\ Len(<<x, y>>) = 2 /\ <<x, y>>[1] = x
                 /\ \A z \in 0..255 :
                       /\ <<x, y, z>> \in Seq(0..255) /\ Len(<<x, y, z>>) = 3 /\ <<x, y, z>>[1] = x
                       /\ \A v \in 0..255 : /\ <<x, y, z, v>> \in Seq(0..255)
                                             /\ Len(<<x, y, z, v>>) = 4 /\ <<x, y, z, v>>[1] = x
<1>1. ASSUME NEW y \in 0..255, NEW z \in 0..255, NEW v \in 0..255
      PROVE  /\ <<x, y, z, v>> \in Seq(0..255)
             /\ Len(<<x, y, z, v>>) = 4 /\ <<x, y, z, v>>[1] = x
  OBVIOUS
<1>2. ASSUME NEW y \in 0..255, NEW z \in 0..255
      PROVE  <<x, y, z>> \in Seq(0..255) /\ Len(<<x, y, z>>) = 3 /\ <<x, y, z>>[1] = x
  OBVIOUS
<1>3. ASSUME NEW y \in 0..255
      PROVE  <<x, y>> \in Seq(0..255) /\ Len(<<x, y>>) = 2 /\ <<x, y>>[1] = x
  OBVIOUS
<1>4. <<x>> \in Seq(0..255) /\ Len(<<x>>) = 1 /\ <<x>>[1] = x
  OBVIOUS
<1>. QED
  BY <1>1, <1>2, <1>3, <1>4, Zenon

(* A character's bytes, as many as its first says.                         *)
LEMMA Utf8Is ==
    ASSUME NEW c \in CodePoints
    PROVE  /\ Utf8(c) \in Seq(0..255) /\ Len(Utf8(c)) \in 1..4
           /\ Len(Utf8(c)) = LeadLen(Utf8(c)[1])
<1>. DEFINE a == c \div 64
            b == a \div 64
            d == b \div 64
            more(x) == 128 + (x % 64)
<1>1. c \in Nat /\ c \div 65536 < 17
  BY DEF CodePoints
<1>2. a \in Nat /\ b \in Nat /\ d \in Nat
  BY <1>1
<1>3. \A x \in Nat : more(x) \in 0..255
  OBVIOUS
<1>4. c < 2048 => 192 + a \in 192..223
  BY <1>1
<1>5. ~ Upper(c) => 224 + b \in 224..239
  BY <1>1 DEF Upper
<1>6. 240 + d \in 240..255
  BY <1>1
<1>9. CASE c < 128
  <2>1. Utf8(c) = <<c>>
    BY <1>9, Zenon DEF Utf8
  <2>2. c \in 0..255
    BY <1>1, <1>9
  <2>4. <<c>> \in Seq(0..255) /\ Len(<<c>>) = 1 /\ <<c>>[1] = c
    BY <2>2, Tuples
  <2>3. LeadLen(c) = 1
    BY <1>9 DEF LeadLen
  <2>. QED
    BY <2>1, <2>3, <2>4
<1>10. CASE ~ (c < 128) /\ c < 2048
  <2>. DEFINE least == 192 + a
              second == more(c)
  <2>1. Utf8(c) = <<least, second>>
    BY <1>1, <1>10 DEF Utf8
  <2>2. least \in 192..223 /\ second \in 0..255
    BY <1>1, <1>3, <1>4, <1>10
  <2>. HIDE DEF least, second
  <2>3. least \in 0..255 /\ LeadLen(least) = 2
    BY <2>2 DEF LeadLen
  <2>4. <<least, second>> \in Seq(0..255) /\ Len(<<least, second>>) = 2 /\ <<least, second>>[1] = least
    BY <2>2, <2>3, Tuples
  <2>. QED
    BY <2>1, <2>3, <2>4
<1>11. CASE ~ (c < 128) /\ ~ (c < 2048) /\ ~ Upper(c)
  <2>. DEFINE least == 224 + b
              second == more(a)
              third == more(c)
  <2>1. Utf8(c) = <<least, second, third>>
    BY <1>1, <1>11 DEF Utf8
  <2>2. least \in 224..239 /\ second \in 0..255 /\ third \in 0..255
    BY <1>1, <1>2, <1>3, <1>5, <1>11
  <2>. HIDE DEF least, second, third
  <2>3. least \in 0..255 /\ LeadLen(least) = 3
    BY <2>2 DEF LeadLen
  <2>4. <<least, second, third>> \in Seq(0..255) /\ Len(<<least, second, third>>) = 3 /\ <<least, second, third>>[1] = least
    BY <2>2, <2>3, Tuples
  <2>. QED
    BY <2>1, <2>3, <2>4
<1>12. CASE ~ (c < 128) /\ ~ (c < 2048) /\ Upper(c)
  <2>. DEFINE least == 240 + d
              second == more(b)
              third == more(a)
              fourth == more(c)
  <2>1. Utf8(c) = <<least, second, third, fourth>>
    BY <1>1, <1>12 DEF Utf8
  <2>2. least \in 240..255 /\ second \in 0..255 /\ third \in 0..255 /\ fourth \in 0..255
    BY <1>1, <1>2, <1>3, <1>6
  <2>. HIDE DEF least, second, third, fourth
  <2>3. least \in 0..255 /\ LeadLen(least) = 4
    BY <2>2 DEF LeadLen
  <2>4. <<least, second, third, fourth>> \in Seq(0..255) /\ Len(<<least, second, third, fourth>>) = 4 /\ <<least, second, third, fourth>>[1] = least
    BY <2>2, <2>3, Tuples
  <2>. QED
    BY <2>1, <2>3, <2>4
<1>. QED
  BY <1>9, <1>10, <1>11, <1>12

(* A text of characters, and one more.                                     *)
LEMMA OneMore ==
    ASSUME NEW s \in Seq(0..255), NEW B, Chars(s, B), Len(s) \in B, NEW c \in CodePoints
    PROVE  /\ s \o Utf8(c) \in Seq(0..255)
           /\ Chars(s \o Utf8(c), B \cup {Len(s \o Utf8(c))})
<1>. DEFINE t == Utf8(c)
            n == Len(s)
            m == Len(t)
<1>1. t \in Seq(0..255) /\ m \in 1..4 /\ m = LeadLen(t[1])
  BY Utf8Is
<1>. HIDE DEF t
<1>2. s \o t \in Seq(0..255) /\ Len(s \o t) = n + m /\ n \in Nat
  BY <1>1
<1>3. \A p \in 1..n : (s \o t)[p] = s[p]
  BY <1>1
<1>4. (s \o t)[n + 1] = t[1]
  BY <1>1
<1>. HIDE DEF n, m
<1>5. B \subseteq 0..n /\ 0 \in B /\ n \in B
      /\ \A k \in B : k < n => k + LeadLen(s[k + 1]) \in B
  BY DEF Chars, n
<1>6. ASSUME NEW k \in B \cup {n + m}, k < n + m
      PROVE  k + LeadLen((s \o t)[k + 1]) \in B \cup {n + m}
  <2>1. k \in B /\ k \in 0..n
    BY <1>5, <1>6
  <2>2. CASE k = n
    BY <1>1, <1>4, <2>2
  <2>3. CASE k # n
    <3>1. k < n /\ k + 1 \in 1..n
      BY <1>2, <2>1, <2>3
    <3>2. (s \o t)[k + 1] = s[k + 1]
      BY <1>3, <3>1
    <3>3. k + LeadLen(s[k + 1]) \in B
      BY <1>5, <2>1, <3>1
    <3>. QED
      BY <3>2, <3>3
  <2>. QED
    BY <2>2, <2>3
<1>7. B \cup {n + m} \subseteq 0..(n + m) /\ 0 \in B \cup {n + m}
  <2>1. 0..n \subseteq 0..(n + m) /\ n + m \in 0..(n + m)
    BY <1>1, <1>2
  <2>. QED
    BY <1>5, <2>1, Zenon
<1>. DEFINE e == n + m
<1>8. Len(s \o t) = e /\ Chars(s \o t, B \cup {e})
  BY <1>2, <1>6, <1>7 DEF Chars
<1>. QED
  BY <1>2, <1>8 DEF t

(* The pieces of a flattened sequence, from the left.                      *)
Flattening(seqs) ==
    CHOOSE f : f = [k \in 1..Len(seqs) |-> IF k = 1 THEN seqs[k] ELSE f[k - 1] \o seqs[k]]

(* The flattened sequence is the last of its pieces so far.                *)
LEMMA FlatteningFacts ==
    ASSUME NEW seqs, Len(seqs) \in Nat \ {0}
    PROVE  /\ FlattenSeq(seqs) = Flattening(seqs)[Len(seqs)]
           /\ Flattening(seqs)[1] = seqs[1]
           /\ \A k \in 1..(Len(seqs) - 1) :
                 Flattening(seqs)[k + 1] = Flattening(seqs)[k] \o seqs[k + 1]
<1>. DEFINE Is(f, n) == f = [k \in 1..n |-> IF k = 1 THEN seqs[k] ELSE f[k - 1] \o seqs[k]]
            T == {n \in Nat : \E f : Is(f, n)}
<1>2. 0 \in T
  <2>1. Is([k \in 1..0 |-> 0], 0)
    OBVIOUS
  <2>. QED
    BY <2>1
<1>3. ASSUME NEW n \in Nat, n \in T PROVE n + 1 \in T
  <2>1. PICK f : Is(f, n)
    BY <1>3
  <2>. DEFINE g == [k \in 1..(n + 1) |-> IF k = 1 THEN seqs[1] ELSE IF k = n + 1 THEN f[n] \o seqs[n + 1] ELSE f[k]]
              h == [k \in 1..(n + 1) |-> IF k = 1 THEN seqs[k] ELSE g[k - 1] \o seqs[k]]
  <2>2. ASSUME NEW k \in 1..(n + 1) PROVE g[k] = h[k]
    <3>1. CASE k = 1
      BY <3>1
    <3>2. CASE k = n + 1 /\ k # 1
      <4>1. k - 1 = n /\ n \in 1..(n + 1) /\ n # n + 1 /\ 1 \in 1..n
        BY <3>2
      <4>2. g[k] = f[n] \o seqs[n + 1]
        BY <3>2
      <4>3. f[1] = seqs[1]
        BY <2>1, <4>1
      <4>4. g[n] = f[n]
        BY <4>1, <4>3
      <4>. HIDE DEF g
      <4>5. h[k] = g[n] \o seqs[n + 1]
        BY <3>2, <4>1
      <4>. QED
        BY <4>2, <4>4, <4>5
    <3>3. CASE k # 1 /\ k # n + 1
      <4>1. k \in 1..n /\ k - 1 \in 1..(n + 1) /\ k - 1 # n + 1 /\ k - 1 \in 1..n /\ 1 \in 1..n
        BY <3>3
      <4>2. f[1] = seqs[1]
        BY <2>1, <4>1
      <4>3. g[k] = f[k] /\ g[k - 1] = f[k - 1]
        BY <3>3, <4>1, <4>2
      <4>4. f[k] = f[k - 1] \o seqs[k]
        BY <2>1, <3>3, <4>1
      <4>. HIDE DEF g
      <4>5. h[k] = g[k - 1] \o seqs[k]
        BY <3>3
      <4>. QED
        BY <4>3, <4>4, <4>5
    <3>. QED
      BY <3>1, <3>2, <3>3
  <2>3. g = h
    <3>1. g = [k \in 1..(n + 1) |-> g[k]] /\ h = [k \in 1..(n + 1) |-> h[k]]
      OBVIOUS
    <3>. HIDE DEF g, h
    <3>. QED
      BY <2>2, <3>1
  <2>4. Is(g, n + 1)
    BY <2>3, Zenon
  <2>. HIDE DEF Is, g
  <2>. QED
    BY <2>4
<1>. DEFINE size == Len(seqs)
<1>. HIDE DEF T
<1>4. size \in T
  <2>1. size \in Nat /\ \A n \in 0..(size - 1) : n \in T => n + 1 \in T
    BY <1>3
  <2>. HIDE DEF size
  <2>2. 0..size \subseteq T
    BY <1>2, <2>1, UpTo
  <2>. QED
    BY <2>1, <2>2
<1>5. Is(Flattening(seqs), size)
  <2>1. \E f : Is(f, size)
    BY <1>4 DEF T
  <2>. QED
    BY <2>1, Zenon DEF Flattening
<1>6. FlattenSeq(seqs) = Flattening(seqs)[size]
  BY Zenon DEF FlattenSeq, Flattening
<1>. DEFINE F == Flattening(seqs)
<1>7. \A k \in 1..size : F[k] = IF k = 1 THEN seqs[k] ELSE F[k - 1] \o seqs[k]
  <2>1. Is(F, size)
    BY <1>5
  <2>. HIDE DEF F
  <2>. QED
    BY <2>1
<1>8. 1 \in 1..size
  OBVIOUS
<1>. HIDE DEF F
<1>9. ASSUME NEW k \in 1..(size - 1) PROVE F[k + 1] = F[k] \o seqs[k + 1]
  <2>1. k + 1 \in 1..size /\ k + 1 # 1 /\ (k + 1) - 1 = k
    OBVIOUS
  <2>. QED
    BY <1>7, <2>1
<1>. QED
  BY <1>6, <1>7, <1>8, <1>9 DEF F

(* The bytes of a string are a text of characters.                         *)
LEMMA BytesAre ==
    ASSUME NEW cps \in Seq(CodePoints)
    PROVE  BytesOf(cps) \in Seq(0..255) /\ \E B : Chars(BytesOf(cps), B)
<1>. DEFINE pieces == [k \in DOMAIN cps |-> Utf8(cps[k])]
            n == Len(cps)
            F == Flattening(pieces)
            Good(s) == s \in Seq(0..255) /\ \E B : Chars(s, B) /\ Len(s) \in B
            T == {k \in Nat : Good(F[k + 1])}
<1>1. n \in Nat /\ \A k \in 1..n : cps[k] \in CodePoints
  BY Element
<1>2. DOMAIN cps = 1..n
  OBVIOUS
<1>3. pieces = [k \in 1..n |-> Utf8(cps[k])]
  BY <1>2
<1>4. Len(pieces) = n /\ \A k \in 1..n : pieces[k] = Utf8(cps[k])
  <2>. DEFINE p == [k \in 1..n |-> Utf8(cps[k])]
  <2>1. p = [k \in 1..n |-> p[k]] /\ \A k \in 1..n : p[k] = Utf8(cps[k])
    OBVIOUS
  <2>. HIDE DEF p
  <2>2. Len(p) = n
    BY <1>1, <2>1, FcnSeq
  <2>3. pieces = p
    BY <1>3 DEF p
  <2>. HIDE DEF pieces
  <2>. QED
    BY <2>1, <2>2, <2>3
<1>5. BytesOf(cps) = FlattenSeq(pieces)
  BY Zenon DEF BytesOf
<1>. HIDE DEF n, pieces, F
<1>6. Good(<<>>)
  <2>1. Chars(<<>>, {0}) /\ Len(<<>>) \in {0}
    BY DEF Chars
  <2>. QED
    BY <2>1
<1>7. ASSUME NEW s, Good(s), NEW c \in CodePoints PROVE Good(s \o Utf8(c))
  <2>1. PICK B : Chars(s, B) /\ Len(s) \in B
    BY <1>7
  <2>. DEFINE t == s \o Utf8(c)
  <2>2. t \in Seq(0..255) /\ Chars(t, B \cup {Len(t)})
    BY <1>7, <2>1, OneMore
  <2>. HIDE DEF t
  <2>3. Good(t)
    BY <2>2
  <2>. QED
    BY <2>3 DEF t
<1>. HIDE DEF Good
<1>8. CASE n = 0
  <2>1. BytesOf(cps) = <<>>
    <3>1. FlattenSeq(pieces) = pieces
      BY <1>4, <1>8 DEF FlattenSeq
    <3>2. pieces = <<>>
      BY <1>3, <1>8
    <3>. QED
      BY <1>5, <3>1, <3>2
  <2>. QED
    BY <1>6, <2>1 DEF Good
<1>9. CASE n # 0
  <2>0. n - 1 \in Nat /\ 1 \in 1..n /\ n \in Nat \ {0}
    BY <1>1, <1>9
  <2>1. /\ FlattenSeq(pieces) = F[n]
        /\ F[1] = pieces[1]
        /\ \A k \in 1..(n - 1) : F[k + 1] = F[k] \o pieces[k + 1]
    BY <1>4, <2>0, FlatteningFacts DEF F
  <2>2. 0 \in T
    <3>1. <<>> \o Utf8(cps[1]) = Utf8(cps[1])
      <4>1. Utf8(cps[1]) \in Seq(0..255)
        BY <1>1, <2>0, Utf8Is
      <4>. QED
        BY <4>1
    <3>2. Good(<<>> \o Utf8(cps[1]))
      BY <1>1, <1>6, <1>7, <2>0
    <3>3. Good(F[1])
      BY <1>4, <2>0, <2>1, <3>1, <3>2
    <3>. QED
      BY <3>3
  <2>3. ASSUME NEW k \in 0..((n - 1) - 1), k \in T PROVE k + 1 \in T
    <3>1. k + 1 \in 1..(n - 1) /\ k + 1 + 1 \in 1..n /\ k + 1 \in Nat
      BY <2>0
    <3>2. F[k + 1 + 1] = F[k + 1] \o Utf8(cps[k + 1 + 1])
      BY <1>4, <2>1, <3>1
    <3>3. Good(F[k + 1])
      BY <2>3
    <3>4. Good(F[k + 1 + 1])
      BY <1>1, <1>7, <3>1, <3>2, <3>3
    <3>. QED
      BY <3>1, <3>4
  <2>. HIDE DEF T
  <2>4. 0..(n - 1) \subseteq T
    BY <2>0, <2>2, <2>3, UpTo
  <2>5. n - 1 \in T /\ (n - 1) + 1 = n
    BY <2>0, <2>4
  <2>6. Good(F[n])
    BY <2>5 DEF T
  <2>. QED
    BY <1>5, <2>1, <2>6 DEF Good
<1>. QED
  BY <1>8, <1>9

-----------------------------------------------------------------------------
(* The scan leaves out no byte that is not ASCII under AsciiOnly.          *)

(* Bytes of ASCII are characters of their own.                             *)
LEMMA AsciiSkip ==
    ASSUME bytes \in Seq(0..255), NEW from \in Nat, AtChar(bytes, from), NEW n \in Nat,
           from + n <= Len(bytes), \A j \in from..(from + n - 1) : bytes[j + 1] < 128
    PROVE  AtChar(bytes, from + n)
<1>1. PICK B : Chars(bytes, B) /\ from \in B
  BY DEF AtChar
<1>. DEFINE T == {k \in Nat : from + k \in B}
<1>2. 0 \in T
  BY <1>1
<1>3. ASSUME NEW k \in 0..(n - 1), k \in T PROVE k + 1 \in T
  <2>1. from + k \in B /\ from + k < Len(bytes) /\ from + k \in from..(from + n - 1)
    BY <1>3
  <2>2. from + k + LeadLen(bytes[from + k + 1]) \in B
    BY <1>1, <2>1 DEF Chars
  <2>3. LeadLen(bytes[from + k + 1]) = 1
    BY <2>1 DEF LeadLen
  <2>4. from + k + 1 \in B /\ k + 1 \in Nat /\ from + (k + 1) = from + k + 1
    BY <2>2, <2>3
  <2>. QED
    BY <2>4
<1>. HIDE DEF T
<1>4. 0..n \subseteq T
  BY <1>2, <1>3, UpTo
<1>5. n \in T
  BY <1>4
<1>6. from + n \in B
  BY <1>5 DEF T
<1>. QED
  BY <1>1, <1>6 DEF AtChar

(* A lane that does not hit is of ASCII.                                   *)
LEMMA CleanLanes ==
    ASSUME mode = "ascii_only", NEW chunk \in Seq(0..255), NEW k \in 0..(Len(chunk) - 1)
    PROVE  /\ kernel \in {"neon", "sse2", "avx2"} /\ k \notin HitLanes(kernel, mode, chunk) => chunk[k + 1] < 128
           /\ k \notin SwarLanes(mode, chunk) => chunk[k + 1] < 128
<1>1. k + 1 \in 1..Len(chunk) /\ Len(chunk) \in Nat
  OBVIOUS
<1>2. chunk[k + 1] \in 0..255
  BY <1>1, Element
<1>3. ASSUME chunk[k + 1] >= 128, kernel \in {"neon", "sse2", "avx2"}
      PROVE  k \in HitLanes(kernel, mode, chunk)
  <2>1. NeonHit(mode, chunk[k + 1]) /\ Sse2Hit(mode, chunk[k + 1]) /\ Avx2Hit(mode, chunk[k + 1])
    BY <1>3 DEF NeonHit, Sse2Hit, Avx2Hit, SignBit
  <2>. QED
    BY <1>3, <2>1 DEF HitLanes
<1>4. ASSUME chunk[k + 1] >= 128
      PROVE  k \in SwarLanes(mode, chunk)
  <2>. DEFINE own == CASE mode = "script_safe" -> UNION {EqLanes(chunk, c) : c \in {SLASH, JS_SEP_LEAD}}
                       [] mode = "ascii_only" -> {j \in 0..(Len(chunk) - 1) : chunk[j + 1] >= 128}
                       [] mode = "html_safe" -> UNION {EqLanes(chunk, c) : c \in Html \cup {JS_SEP_LEAD}}
                       [] mode = "html_entities" -> UNION {EqLanes(chunk, c) : c \in Html}
                       [] mode = "js_separators" -> UNION {EqLanes(chunk, c) : c \in {JS_SEP_LEAD}}
                       [] OTHER -> {}
  <2>1. own \subseteq SwarLanes(mode, chunk)
    BY Zenon DEF SwarLanes
  <2>2. own = {j \in 0..(Len(chunk) - 1) : chunk[j + 1] >= 128}
    OBVIOUS
  <2>. HIDE DEF own
  <2>. QED
    BY <1>4, <2>1, <2>2
<1>5. chunk[k + 1] < 128 \/ chunk[k + 1] >= 128
  <2>1. \A b \in 0..255 : b < 128 \/ b >= 128
    OBVIOUS
  <2>. QED
    BY <1>2, <2>1, Zenon
<1>. QED
  BY <1>3, <1>4, <1>5, Zenon

(* Words' lanes are positions of the word.                                 *)
LEMMA SwarLanesAre ==
    ASSUME NEW word, IsSeq(word), NEW m
    PROVE  SwarLanes(m, word) \subseteq 0..(Len(word) - 1)
<1>. DEFINE own == CASE m = "script_safe" -> UNION {EqLanes(word, c) : c \in {SLASH, JS_SEP_LEAD}}
                     [] m = "ascii_only" -> {k \in 0..(Len(word) - 1) : word[k + 1] >= 128}
                     [] m = "html_safe" -> UNION {EqLanes(word, c) : c \in Html \cup {JS_SEP_LEAD}}
                     [] m = "html_entities" -> UNION {EqLanes(word, c) : c \in Html}
                     [] m = "js_separators" -> UNION {EqLanes(word, c) : c \in {JS_SEP_LEAD}}
                     [] OTHER -> {}
            always == UNION {EqLanes(word, c) : c \in {QUOTE, BACKSLASH}}
            places == 0..(Len(word) - 1)
<1>1. \A lanes, sub : BelowLanes(lanes, sub) \subseteq 0..(Len(lanes) - 1)
  BY Zenon DEF BelowLanes
<1>2. \A c : EqLanes(word, c) \subseteq places
  <2>1. ASSUME NEW c PROVE EqLanes(word, c) \subseteq places
    <3>. DEFINE lanes == [k \in 1..Len(word) |-> XorTable[word[k]][c]]
    <3>1. EqLanes(word, c) = BelowLanes(lanes, 1)
      BY Zenon DEF EqLanes
    <3>2. lanes = [k \in 1..Len(word) |-> lanes[k]] /\ Len(word) \in Nat
      BY DEF IsSeq
    <3>. HIDE DEF lanes
    <3>3. Len(lanes) = Len(word)
      BY <3>2, FcnSeq
    <3>. QED
      BY <1>1, <3>1, <3>3
  <2>. QED
    BY <2>1
<1>3. \A set : UNION {EqLanes(word, c) : c \in set} \subseteq places
  <2>. HIDE DEF places
  <2>. QED
    BY <1>2
<1>4. {k \in 0..(Len(word) - 1) : word[k + 1] >= 128} \subseteq places
  BY Zenon
<1>5. SwarLanes(m, word) = always \cup BelowLanes(word, 32) \cup own
  BY Zenon DEF SwarLanes
<1>6. own \subseteq places
  <2>. HIDE DEF places
  <2>. QED
    BY <1>3, <1>4
<1>7. always \subseteq places /\ BelowLanes(word, 32) \subseteq places
  BY <1>1, <1>3, Zenon
<1>. HIDE DEF own, always, places
<1>8. SwarLanes(m, word) \subseteq places
  BY <1>5, <1>6, <1>7
<1>. QED
  BY <1>8 DEF places

(* The start of the word a place is in.                                    *)
LEMMA WordStart ==
    ASSUME NEW x \in Nat, NEW width \in Nat \ {0}
    PROVE  /\ x % width \in 0..(width - 1) /\ x % width <= x
           /\ (x - (x % width)) % width = 0
<1>. DEFINE q == x \div width
            r == x % width
<1>1. r \in 0..(width - 1) /\ q \in Nat /\ x = width * q + r
  OBVIOUS
<1>. HIDE DEF q, r
<1>2. width * q \in Nat
  BY <1>1
<1>3. x - r = width * q /\ r <= x
  BY <1>1, <1>2
<1>4. (width * q) % width = 0
  <2>. DEFINE p == width * q
              a == p \div width
              b == p % width
  <2>1. p \in Nat
    BY <1>2
  <2>2. \A n \in Nat : n % width \in 0..(width - 1) /\ n \div width \in Nat /\ n = width * (n \div width) + (n % width)
    OBVIOUS
  <2>3. b \in 0..(width - 1) /\ a \in Nat /\ p = width * a + b
    BY <2>1, <2>2
  <2>. HIDE DEF a, b
  <2>4. width * (q - a) = b
    <3>1. width * (q - a) = width * q - width * a /\ width * a \in Nat
      BY <1>1, <2>3
    <3>. HIDE DEF p
    <3>2. width * q = width * a + b
      BY <2>3 DEF p
    <3>. QED
      BY <1>2, <2>3, <3>1, <3>2
  <2>. DEFINE d == q - a
  <2>5. d \in Int /\ width * d = b
    BY <1>1, <2>3, <2>4
  <2>. HIDE DEF d
  <2>6. d >= 1 => width * d >= width
    BY <2>5
  <2>7. d <= -1 => width * d <= -width
    BY <2>5
  <2>8. d = 0
    BY <2>3, <2>5, <2>6, <2>7
  <2>9. b = 0
    BY <2>5, <2>8
  <2>. QED
    BY <2>9 DEF b
<1>. QED
  BY <1>1, <1>3, <1>4 DEF r

(* From one multiple to a greater one it is a width at least.              *)
LEMMA NextMultiple ==
    ASSUME NEW width \in Nat \ {0}, NEW x \in Nat, NEW y \in Nat, x < y,
           x % width = 0, y % width = 0
    PROVE  x + width <= y
<1>. DEFINE a == x \div width
            b == y \div width
<1>1. \A n \in Nat : n \div width \in Nat /\ n = width * (n \div width) + (n % width)
  OBVIOUS
<1>2. a \in Nat /\ b \in Nat /\ x = width * a /\ y = width * b
  BY <1>1
<1>. HIDE DEF a, b
<1>3. width * (b - a) = y - x
  <2>1. width * (b - a) = width * b - width * a
    BY <1>2
  <2>. QED
    BY <1>2, <2>1
<1>. DEFINE d == b - a
<1>4. d \in Int /\ width * d = y - x
  BY <1>2, <1>3
<1>. HIDE DEF d
<1>5. d <= 0 => width * d <= 0
  BY <1>4
<1>6. d >= 1 => width * d >= width
  BY <1>4
<1>. QED
  BY <1>4, <1>5, <1>6

(* A slice is of the same elements.                                        *)
LEMMA SliceIn ==
    ASSUME NEW S, NEW s \in Seq(S), NEW a \in Nat, NEW n \in Nat, a + n <= Len(s)
    PROVE  SubSeq(s, a + 1, a + n) \in Seq(S)
<1>1. Len(s) \in Nat
  OBVIOUS
<1>. QED
  BY <1>1

(* A slice of the bytes, by offsets.                                       *)
LEMMA Slice ==
    ASSUME bytes \in Seq(0..255), NEW a \in Nat, NEW n \in Nat, a + n <= Len(bytes)
    PROVE  /\ SubSeq(bytes, a + 1, a + n) \in Seq(0..255)
           /\ Len(SubSeq(bytes, a + 1, a + n)) = n
           /\ \A k \in 0..(n - 1) : SubSeq(bytes, a + 1, a + n)[k + 1] = bytes[a + k + 1]
<1>1. Len(bytes) \in Nat
  OBVIOUS
<1>2. Len(SubSeq(bytes, a + 1, a + n)) = n /\ SubSeq(bytes, a + 1, a + n) \in Seq(0..255)
  <2>1. Len(SubSeq(bytes, a + 1, a + n)) = n
    <3>1. IsSeq(bytes)
      BY SeqIs
    <3>. QED
      BY <3>1, SliceIs
  <2>2. SubSeq(bytes, a + 1, a + n) \in Seq(0..255)
    BY <1>1, SliceIn
  <2>. QED
    BY <2>1, <2>2
<1>3. ASSUME NEW k \in 0..(n - 1)
      PROVE  SubSeq(bytes, a + 1, a + n)[k + 1] = bytes[a + k + 1]
  <2>1. k + 1 \in 1..n /\ (a + 1) + (k + 1) - 1 = a + k + 1
    OBVIOUS
  <2>. QED
    BY <1>1, <2>1
<1>. QED
  BY <1>2, <1>3

(* What the word scan finds is not before its start or past the end, and   *)
(* all before it is of ASCII under AsciiOnly.                              *)
LEMMA FindEscapeIs ==
    ASSUME bytes \in Seq(0..255), NEW from \in Nat, from <= Len(bytes)
    PROVE  /\ FindEscape(from) \in Nat /\ from <= FindEscape(from) /\ FindEscape(from) <= Len(bytes)
           /\ mode = "ascii_only" => \A j \in from..(FindEscape(from) - 1) : bytes[j + 1] < 128
<1>. DEFINE Lanes(p) == SwarLanes(mode, SubSeq(bytes, p + 1, p + WordWidth))
            words == {p \in from..(Len(bytes) - WordWidth) : (p - from) % WordWidth = 0 /\ Lanes(p) # {}}
            tail == Len(bytes) - ((Len(bytes) - from) % WordWidth)
            rest == {p \in tail..(Len(bytes) - 1) : Attend(mode, bytes[p + 1])}
<1>1. WordWidth \in Nat \ {0} /\ Len(bytes) \in Nat
  BY WordAssumption
<1>2. FindEscape(from) = IF words # {} THEN Lowest(words) + Lowest(Lanes(Lowest(words)))
                         ELSE Lowest(rest \cup {Len(bytes)})
  BY Zenon DEF FindEscape
<1>3. \A p \in Nat : p + WordWidth <= Len(bytes) =>
         /\ Lanes(p) \subseteq 0..(WordWidth - 1)
         /\ \A k \in 0..(WordWidth - 1) :
               mode = "ascii_only" /\ k \notin Lanes(p) => bytes[p + k + 1] < 128
  <2>1. ASSUME NEW p \in Nat, p + WordWidth <= Len(bytes)
        PROVE  /\ Lanes(p) \subseteq 0..(WordWidth - 1)
               /\ \A k \in 0..(WordWidth - 1) :
                     mode = "ascii_only" /\ k \notin Lanes(p) => bytes[p + k + 1] < 128
    <3>. DEFINE word == SubSeq(bytes, p + 1, p + WordWidth)
    <3>1. word \in Seq(0..255) /\ Len(word) = WordWidth
          /\ \A k \in 0..(WordWidth - 1) : word[k + 1] = bytes[p + k + 1]
      BY <1>1, <2>1, Slice
    <3>2. Lanes(p) = SwarLanes(mode, word)
      OBVIOUS
    <3>. HIDE DEF word, Lanes
    <3>3. SwarLanes(mode, word) \subseteq 0..(Len(word) - 1)
      BY <3>1, SeqIs, SwarLanesAre
    <3>4. \A k \in 0..(Len(word) - 1) : mode = "ascii_only" /\ k \notin SwarLanes(mode, word) => word[k + 1] < 128
      BY <3>1, CleanLanes
    <3>. QED
      BY <3>1, <3>2, <3>3, <3>4
  <2>. QED
    BY <2>1
<1>4. ASSUME NEW j \in Nat, from <= j, j < Len(bytes)
      PROVE  LET p == j - ((j - from) % WordWidth)
             IN  /\ p \in Nat /\ from <= p /\ p <= j /\ j - p \in 0..(WordWidth - 1)
                 /\ (p - from) % WordWidth = 0
  <2>. DEFINE x == j - from
              r == x % WordWidth
              p == j - r
  <2>1. x \in Nat
    BY <1>4
  <2>2. r \in 0..(WordWidth - 1) /\ r <= x /\ (x - r) % WordWidth = 0
    BY <1>1, <2>1, WordStart
  <2>. HIDE DEF r
  <2>3. x - r = p - from /\ j - p = r
    BY <2>1, <2>2, <1>1
  <2>. QED
    BY <1>1, <2>1, <2>2, <2>3 DEF r
<1>. HIDE DEF Lanes
<1>5. CASE words # {}
  <2>. DEFINE p == Lowest(words)
              k == Lowest(Lanes(p))
  <2>1. words \subseteq Nat
    BY <1>1
  <2>2. p \in words /\ \A y \in words : p <= y
    BY <1>5, <2>1, LowestIs
  <2>. HIDE DEF p
  <2>3. p \in Nat /\ from <= p /\ p + WordWidth <= Len(bytes) /\ Lanes(p) # {}
    BY <1>1, <2>2
  <2>4. Lanes(p) \subseteq 0..(WordWidth - 1)
    BY <1>3, <2>3
  <2>5. k \in Lanes(p) /\ \A y \in Lanes(p) : k <= y
    <3>1. Lanes(p) \subseteq Nat
      BY <2>4
    <3>. QED
      BY <2>3, <3>1, LowestIs
  <2>. HIDE DEF k
  <2>6. k \in 0..(WordWidth - 1)
    BY <2>4, <2>5
  <2>7. FindEscape(from) = p + k
    BY <1>2, <1>5 DEF p, k
  <2>8. ASSUME mode = "ascii_only", NEW j \in from..(p + k - 1)
        PROVE  bytes[j + 1] < 128
    <3>1. CASE j >= p
      <4>1. j - p \in 0..(WordWidth - 1) /\ j - p < k /\ p + (j - p) + 1 = j + 1
        BY <1>1, <2>3, <2>6, <2>8, <3>1
      <4>2. j - p \notin Lanes(p)
        BY <2>5, <2>6, <4>1
      <4>3. bytes[p + (j - p) + 1] < 128
        BY <1>3, <2>3, <2>8, <4>1, <4>2
      <4>. QED
        BY <4>1, <4>3
    <3>2. CASE j < p
      <4>. DEFINE o == j - ((j - from) % WordWidth)
      <4>1. j \in Nat /\ from <= j /\ j < Len(bytes)
        BY <1>1, <2>3, <2>8, <3>2
      <4>2. /\ o \in Nat /\ from <= o /\ o <= j /\ j - o \in 0..(WordWidth - 1)
            /\ (o - from) % WordWidth = 0
        BY <1>4, <4>1
      <4>. HIDE DEF o
      <4>3. o \in from..(Len(bytes) - WordWidth) /\ ~ (p <= o)
        BY <1>1, <2>3, <3>2, <4>1, <4>2
      <4>4. Lanes(o) = {}
        BY <2>2, <4>2, <4>3
      <4>5. o + WordWidth <= Len(bytes) /\ o + (j - o) + 1 = j + 1
        BY <1>1, <4>1, <4>2, <4>3
      <4>6. bytes[o + (j - o) + 1] < 128
        BY <1>3, <2>8, <4>2, <4>4, <4>5
      <4>. QED
        BY <4>5, <4>6
    <3>. QED
      BY <2>3, <2>6, <2>8, <3>1, <3>2
  <2>9. p + k \in Nat /\ from <= p + k /\ p + k <= Len(bytes)
    BY <1>1, <2>3, <2>6
  <2>10. mode = "ascii_only" => \A j \in from..(p + k - 1) : bytes[j + 1] < 128
    BY <2>8
  <2>11. mode = "ascii_only" => \A j \in from..(FindEscape(from) - 1) : bytes[j + 1] < 128
    <3>. DEFINE e == FindEscape(from)
    <3>1. e = p + k
      BY <2>7
    <3>. HIDE DEF e
    <3>2. mode = "ascii_only" => \A j \in from..(e - 1) : bytes[j + 1] < 128
      BY <2>3, <2>6, <2>9, <2>10, <3>1
    <3>. QED
      BY <3>2 DEF e
  <2>12. FindEscape(from) \in Nat /\ from <= FindEscape(from) /\ FindEscape(from) <= Len(bytes)
    BY <2>7, <2>9, Zenon
  <2>. QED
    BY <2>11, <2>12
<1>6. CASE words = {}
  <2>. DEFINE p == Lowest(rest \cup {Len(bytes)})
              over == (Len(bytes) - from) % WordWidth
  <2>1. over \in 0..(WordWidth - 1) /\ over <= Len(bytes) - from /\ (Len(bytes) - from - over) % WordWidth = 0
    <3>. DEFINE x == Len(bytes) - from
    <3>1. x \in Nat
      BY <1>1
    <3>. HIDE DEF x
    <3>2. x % WordWidth \in 0..(WordWidth - 1) /\ x % WordWidth <= x /\ (x - (x % WordWidth)) % WordWidth = 0
      BY <1>1, <3>1, WordStart
    <3>. QED
      BY <3>2 DEF x
  <2>2. tail = Len(bytes) - over
    OBVIOUS
  <2>. HIDE DEF over, tail
  <2>3. tail \in Nat /\ from <= tail /\ tail <= Len(bytes)
    BY <1>1, <2>1, <2>2
  <2>4. rest \cup {Len(bytes)} \subseteq tail..Len(bytes) /\ rest \cup {Len(bytes)} \subseteq Nat
    BY <1>1, <2>3
  <2>5. p \in rest \cup {Len(bytes)} /\ \A y \in rest \cup {Len(bytes)} : p <= y
    <3>1. rest \cup {Len(bytes)} # {}
      OBVIOUS
    <3>. QED
      BY <2>4, <3>1, LowestIs
  <2>. HIDE DEF p
  <2>6. p \in tail..Len(bytes)
    BY <2>4, <2>5
  <2>7. FindEscape(from) = p
    BY <1>2, <1>6 DEF p
  <2>8. ASSUME mode = "ascii_only", NEW j \in from..(p - 1)
        PROVE  bytes[j + 1] < 128
    <3>1. CASE j >= tail
      <4>1. j \in tail..(Len(bytes) - 1) /\ ~ (p <= j) /\ j + 1 \in 1..Len(bytes)
        BY <1>1, <2>3, <2>6, <2>8, <3>1
      <4>2. ~ Attend(mode, bytes[j + 1])
        BY <2>5, <4>1
      <4>3. bytes[j + 1] \in 0..255
        BY <4>1, Element
      <4>4. ASSUME NEW b \in 0..255, ~ Attend(mode, b) PROVE b < 128
        <5>1. "ascii_only" \notin ESCAPE_CLASS[b]
          BY <2>8, <4>4 DEF Attend, ClassBits
        <5>2. b >= 128 => "ascii_only" \in ESCAPE_CLASS[b]
          BY DEF ESCAPE_CLASS
        <5>3. b < 128 \/ b >= 128
          OBVIOUS
        <5>. QED
          BY <5>1, <5>2, <5>3, Zenon
      <4>. QED
        BY <4>2, <4>3, <4>4
    <3>2. CASE j < tail
      <4>. DEFINE o == j - ((j - from) % WordWidth)
      <4>1. j \in Nat /\ from <= j /\ j < Len(bytes)
        BY <1>1, <2>3, <2>8, <3>2
      <4>2. /\ o \in Nat /\ from <= o /\ o <= j /\ j - o \in 0..(WordWidth - 1)
            /\ (o - from) % WordWidth = 0
        BY <1>4, <4>1
      <4>. HIDE DEF o
      <4>3. o + WordWidth <= tail
        <5>1. o - from \in Nat /\ tail - from \in Nat /\ o - from < tail - from
              /\ (tail - from) % WordWidth = 0
          <6>1. tail - from = Len(bytes) - from - over
            BY <1>1, <2>1, <2>2
          <6>. QED
            BY <1>1, <2>1, <2>3, <3>2, <4>2, <6>1
        <5>2. (o - from) + WordWidth <= tail - from
          BY <1>1, <4>2, <5>1, NextMultiple
        <5>. QED
          BY <1>1, <2>3, <4>2, <5>2
      <4>4. o \in from..(Len(bytes) - WordWidth)
        BY <1>1, <2>3, <4>2, <4>3
      <4>5. Lanes(o) = {}
        BY <1>6, <4>2, <4>4
      <4>6. o + WordWidth <= Len(bytes) /\ o + (j - o) + 1 = j + 1
        BY <1>1, <2>3, <4>1, <4>2, <4>3
      <4>7. bytes[o + (j - o) + 1] < 128
        BY <1>3, <2>8, <4>2, <4>5, <4>6
      <4>. QED
        BY <4>6, <4>7
    <3>. QED
      BY <2>3, <2>6, <2>8, <3>1, <3>2
  <2>9. p \in Nat /\ from <= p /\ p <= Len(bytes)
    BY <1>1, <2>3, <2>6
  <2>. QED
    BY <2>7, <2>8, <2>9
<1>. QED
  BY <1>5, <1>6

-----------------------------------------------------------------------------
(* The inductive invariant of the escaper.  Between the steps of the fused *)
(* loop there is room for what is left and a chunk, and for the worst case *)
(* once an escape has been met; a run starts where a character does.       *)
ScanRoom == w + Left + Width <= Capacity(buf)
WorstRoom == w + 6 * Left + 8 + (IF kernel = "swar" THEN 0 ELSE Width) <= Capacity(buf)

EBase ==
    /\ sound = TRUE /\ Buffer(buf)
    /\ bytes \in Seq(0..255)
    /\ i \in 0..Len(bytes) /\ w \in Nat
    /\ worst \in BOOLEAN
    /\ kernel \in {"neon", "sse2", "avx2", "swar"}
    /\ mode = "ascii_only" => AtChar(bytes, i)

ESteps ==
    /\ step = "idle" => worst = FALSE
    /\ step \in {"scan", "inline", "slow", "run"} => base = buf.gen
    /\ step \in {"scan", "inline", "slow"} =>
          kernel # "swar" /\ ScanRoom /\ (worst = TRUE => WorstRoom)
    /\ step \in {"inline", "slow", "run"} => i < Len(bytes)
    /\ step = "inline" => worst = TRUE /\ "standard" \in ESCAPE_CLASS[bytes[i + 1]]
    /\ step = "run" => WorstRoom /\ (kernel # "swar" => worst = TRUE)
    /\ step = "span" => kernel = "swar"

EInv == EBase /\ ESteps

(* The chunk at i: as wide as a vector, and of what is left of the bytes.  *)
LEMMA ChunkFacts ==
    ASSUME bytes \in Seq(0..255), i \in 0..Len(bytes), i < Len(bytes),
           kernel \in {"neon", "sse2", "avx2"}
    PROVE  /\ Width \in Nat \ {0} /\ Left \in Nat \ {0} /\ Len(Chunk) = Width
           /\ \A k \in Hits : k \in Nat /\ k < Left
           /\ \A k \in Nat : mode = "ascii_only" /\ k < Width /\ k < Left /\ k \notin Hits =>
                 bytes[i + k + 1] < 128
<1>1. VectorWidth \in Nat \ {0} /\ Len(bytes) \in Nat /\ i \in Nat
  BY VectorAssumption
<1>2. Width \in Nat \ {0} /\ Left \in Nat \ {0}
  BY <1>1 DEF Width, Left
<1>. DEFINE width == Width
            n == Len(bytes) - i
<1>3. width \in Nat \ {0} /\ n \in Nat \ {0} /\ Left = n /\ Width = width
  BY <1>2 DEF Left
<1>. HIDE DEF width
<1>4. /\ Chunk \in Seq(0..255) /\ Len(Chunk) = width
      /\ \A k \in Nat : k < width /\ k < n => Chunk[k + 1] = bytes[i + k + 1]
  <2>1. CASE n >= width
    <3>1. i + width <= Len(bytes)
      BY <1>1, <1>3, <2>1
    <3>2. Chunk = SubSeq(bytes, i + 1, i + width)
      BY <1>3, <2>1 DEF Chunk
    <3>3. /\ SubSeq(bytes, i + 1, i + width) \in Seq(0..255)
          /\ Len(SubSeq(bytes, i + 1, i + width)) = width
          /\ \A k \in 0..(width - 1) : SubSeq(bytes, i + 1, i + width)[k + 1] = bytes[i + k + 1]
      BY <1>1, <1>3, <3>1, Slice
    <3>4. \A k \in Nat : k < width => k \in 0..(width - 1)
      BY <1>3
    <3>. HIDE DEF n
    <3>. QED
      BY <3>2, <3>3, <3>4, Zenon
  <2>2. CASE ~ (n >= width)
    <3>. DEFINE t == SubSeq(bytes, i + 1, i + n)
                pad == Repeat(0, width - n)
    <3>1. i + n = Len(bytes) /\ n < width
      BY <1>1, <1>3, <2>2
    <3>2. t \in Seq(0..255) /\ Len(t) = n /\ \A k \in 0..(n - 1) : t[k + 1] = bytes[i + k + 1]
      BY <1>1, <1>3, <3>1, Slice
    <3>3. Chunk = t \o pad
      BY <1>3, <2>2, <3>1, <3>2 DEF Chunk, PaddedTail, FromOffset
    <3>4. pad \in Seq(0..255) /\ Len(pad) = width - n
      <4>1. width - n \in Nat
        BY <1>3, <3>1
      <4>. DEFINE m == width - n
      <4>2. m \in Nat /\ pad = [k \in 1..m |-> 0]
        BY <4>1 DEF Repeat
      <4>. HIDE DEF m, pad
      <4>3. pad \in Seq(0..255) /\ Len(pad) = m
        <5>1. pad \in [1..m -> 0..255]
          BY <4>2
        <5>. QED
          BY <4>2, <5>1
      <4>. QED
        BY <4>3 DEF m
    <3>. HIDE DEF t, pad
    <3>5. t \o pad \in Seq(0..255) /\ Len(t \o pad) = n + (width - n)
      <4>1. t \o pad \in Seq(0..255)
        BY <3>2, <3>4
      <4>2. Len(t \o pad) = Len(t) + Len(pad)
        <5>1. t \in Seq(0..255) /\ pad \in Seq(0..255)
          BY <3>2, <3>4
        <5>2. IsSeq(t) /\ IsSeq(pad)
          BY <5>1, SeqIs, Zenon
        <5>. QED
          BY <5>2, SeqOps, Zenon
      <4>. HIDE DEF n
      <4>. QED
        BY <3>2, <3>4, <4>1, <4>2, Zenon
    <3>6. \A k \in 0..(n - 1) : (t \o pad)[k + 1] = t[k + 1]
      BY <1>3, <3>2, <3>4
    <3>7. \A k \in Nat : k < n => k \in 0..(n - 1)
      BY <1>3
    <3>8. n + (width - n) = width
      BY <1>3
    <3>. HIDE DEF n
    <3>. QED
      BY <3>2, <3>3, <3>5, <3>6, <3>7, <3>8, Zenon
  <2>. QED
    BY <2>1, <2>2
<1>5. Hits = HitLanes(kernel, mode, Chunk) \cap 0..(n - 1)
  BY <1>3 DEF Hits
<1>6. ASSUME NEW k \in Nat, mode = "ascii_only", k < width, k < n, k \notin Hits
      PROVE  bytes[i + k + 1] < 128
  <2>1. k \in 0..(n - 1) /\ k \in 0..(Len(Chunk) - 1)
    BY <1>3, <1>4, <1>6
  <2>2. k \notin HitLanes(kernel, mode, Chunk)
    BY <1>5, <1>6, <2>1
  <2>3. Chunk[k + 1] < 128
    BY <1>4, <1>6, <2>1, <2>2, CleanLanes
  <2>. QED
    BY <1>4, <1>6, <2>3
<1>7. \A k \in Hits : k \in Nat /\ k < n
  BY <1>3, <1>5
<1>. HIDE DEF n
<1>. QED
  BY <1>3, <1>4, <1>6, <1>7

(* The clean bytes before a place are characters of their own.             *)
LEMMA ChunkSkip ==
    ASSUME EBase, i < Len(bytes), kernel \in {"neon", "sse2", "avx2"}, NEW n \in Nat,
           n <= Width, n <= Left, \A k \in Hits : n <= k, mode = "ascii_only"
    PROVE  AtChar(bytes, i + n)
<1>1. bytes \in Seq(0..255) /\ i \in 0..Len(bytes) /\ AtChar(bytes, i) /\ Len(bytes) \in Nat /\ i \in Nat
  BY DEF EBase
<1>2. /\ Width \in Nat \ {0} /\ Left \in Nat
      /\ \A k \in Hits : k \in Nat
      /\ \A k \in Nat : k < Width /\ k < Left /\ k \notin Hits => bytes[i + k + 1] < 128
  BY <1>1, ChunkFacts
<1>3. ASSUME NEW j \in i..(i + n - 1) PROVE bytes[j + 1] < 128
  <2>. DEFINE k == j - i
  <2>1. k \in Nat /\ k < n /\ i + k + 1 = j + 1
    BY <1>1, <1>3
  <2>. HIDE DEF k
  <2>2. k < Width /\ k < Left /\ k \notin Hits
    BY <1>2, <2>1
  <2>3. bytes[i + k + 1] < 128
    BY <1>2, <2>1, <2>2
  <2>. QED
    BY <2>1, <2>3
<1>4. i + n <= Len(bytes)
  BY <1>1 DEF Left
<1>. QED
  BY <1>1, <1>3, <1>4, AsciiSkip

-----------------------------------------------------------------------------
(* Preservation.                                                           *)

(* The room there is for a store, by the phase.                            *)
LEMMA StoreKeeps ==
    ASSUME EBase, NEW given, Store(w, given), base = buf.gen, w + Len(given) <= Capacity(buf)
    PROVE  sound' = TRUE /\ Buffer(buf') /\ Capacity(buf') = Capacity(buf) /\ buf'.gen = buf.gen
<1>1. Buffer(buf) /\ sound = TRUE
  BY DEF EBase
<1>2. Room(buf, w, Len(given))
  BY DEF Room, Capacity
<1>3. buf' = Put(buf, w, given) /\ sound' = TRUE
  BY <1>1, <1>2 DEF Store
<1>. QED
  BY <1>1, <1>3, PutKeeps

(* The rooms, with the numbers named.                                      *)
LEMMA Rooms ==
    ASSUME EBase
    PROVE  /\ Width \in Nat \ {0} /\ Left \in Nat /\ Left = Len(bytes) - i /\ Len(bytes) \in Nat /\ i \in Nat
           /\ Capacity(buf) \in Nat /\ w \in Nat
           /\ kernel # "swar" => (WorstRoom <=> w + 6 * Left + 8 + Width <= Capacity(buf))
           /\ kernel = "swar" => (WorstRoom <=> w + 6 * Left + 8 <= Capacity(buf))
<1>1. VectorWidth \in Nat \ {0} /\ Len(bytes) \in Nat /\ i \in 0..Len(bytes) /\ w \in Nat
  BY VectorAssumption DEF EBase
<1>2. Width \in Nat \ {0} /\ Left \in Nat
  BY <1>1 DEF Width, Left
<1>3. Capacity(buf) \in Nat
  BY DEF EBase, Buffer, IsSeq, Capacity
<1>4. kernel # "swar" => (WorstRoom <=> w + 6 * Left + 8 + Width <= Capacity(buf))
  BY Zenon DEF WorstRoom
<1>5. kernel = "swar" => (WorstRoom <=> w + 6 * Left + 8 + 0 <= Capacity(buf))
  BY Zenon DEF WorstRoom
<1>6. w + 6 * Left + 8 + 0 = w + 6 * Left + 8
  BY <1>1, <1>2
<1>. QED
  BY <1>1, <1>2, <1>3, <1>4, <1>5, <1>6 DEF Left

(* A step of the fused loop, which keeps what is fixed: i moves to n, w to *)
(* m, and the rooms are those of the new places.                           *)
LEMMA Moved ==
    ASSUME EBase, UNCHANGED fixed, NEW n \in 0..Len(bytes), NEW m \in Nat, i' = n, w' = m,
           sound' = TRUE, Buffer(buf'), worst' \in BOOLEAN, mode = "ascii_only" => AtChar(bytes, n)
    PROVE  /\ EBase'
           /\ Left' = Len(bytes) - n /\ Width' = Width
           /\ ScanRoom' <=> m + (Len(bytes) - n) + Width <= Capacity(buf')
           /\ kernel # "swar" => (WorstRoom' <=> m + 6 * (Len(bytes) - n) + 8 + Width <= Capacity(buf'))
           /\ kernel = "swar" => (WorstRoom' <=> m + 6 * (Len(bytes) - n) + 8 <= Capacity(buf'))
<1>1. bytes' = bytes /\ mode' = mode /\ kernel' = kernel
  BY DEF fixed
<1>2. EBase'
  BY <1>1 DEF EBase
<1>3. Left' = Len(bytes) - n /\ Width' = Width
  BY <1>1 DEF Left, Width
<1>4. ScanRoom' <=> m + (Len(bytes) - n) + Width <= Capacity(buf')
  BY <1>1, <1>3 DEF ScanRoom
<1>. DEFINE r == 6 * (Len(bytes) - n)
<1>5. 6 * Left' = r
  BY <1>3
<1>. HIDE DEF r
<1>6. kernel # "swar" => (WorstRoom' <=> m + r + 8 + Width <= Capacity(buf'))
  BY <1>1, <1>3, <1>5 DEF WorstRoom
<1>7. kernel = "swar" => (WorstRoom' <=> m + r + 8 + 0 <= Capacity(buf'))
  BY <1>1, <1>3, <1>5 DEF WorstRoom
<1>8. m + r + 8 + 0 = m + r + 8
  <2>1. r \in Int
    BY DEF r, EBase
  <2>. QED
    BY <2>1
<1>. QED
  BY <1>2, <1>3, <1>4, <1>6, <1>7, <1>8 DEF r

(* A clean chunk stored.                                                   *)
LEMMA CleanChunkKeeps ==
    ASSUME EInv, CleanChunk
    PROVE  EInv'
<1>1. EBase /\ step = "scan" /\ kernel # "swar" /\ ScanRoom /\ (worst = TRUE => WorstRoom)
      /\ base = buf.gen /\ Left >= Width /\ Hits = {} /\ Store(w, Chunk)
      /\ i' = i + Width /\ w' = w + Width /\ UNCHANGED <<fixed, base, worst, step>>
  BY DEF EInv, ESteps, CleanChunk
<1>2. Width \in Nat \ {0} /\ Left \in Nat /\ Left = Len(bytes) - i /\ Len(bytes) \in Nat /\ i \in Nat
      /\ Capacity(buf) \in Nat /\ w \in Nat
      /\ (WorstRoom <=> w + 6 * Left + 8 + Width <= Capacity(buf))
  BY <1>1, Rooms
<1>3. kernel \in {"neon", "sse2", "avx2"} /\ i < Len(bytes) /\ bytes \in Seq(0..255)
      /\ i \in 0..Len(bytes) /\ worst \in BOOLEAN
  BY <1>1, <1>2 DEF EBase
<1>4. w + Left + Width <= Capacity(buf)
  BY <1>1 DEF ScanRoom
<1>5. Len(Chunk) = Width
  BY <1>3, ChunkFacts
<1>6. sound' = TRUE /\ Buffer(buf') /\ Capacity(buf') = Capacity(buf) /\ buf'.gen = buf.gen
  <2>1. w + Len(Chunk) <= Capacity(buf)
    BY <1>1, <1>2, <1>4, <1>5
  <2>. QED
    BY <1>1, <2>1, StoreKeeps
<1>. DEFINE n == i + Width
            m == w + Width
<1>7. n \in 0..Len(bytes) /\ m \in Nat /\ i' = n /\ w' = m
  BY <1>1, <1>2
<1>8. mode = "ascii_only" => AtChar(bytes, n)
  <2>1. Width \in Nat /\ Width <= Width /\ Width <= Left /\ \A k \in Hits : Width <= k
    BY <1>1, <1>2
  <2>2. mode = "ascii_only" => AtChar(bytes, i + Width)
    BY <1>1, <1>3, <2>1, ChunkSkip
  <2>. QED
    BY <2>2
<1>9. m + (Len(bytes) - n) + Width <= Capacity(buf)
  BY <1>1, <1>2, <1>4
<1>10. worst = TRUE => m + 6 * (Len(bytes) - n) + 8 + Width <= Capacity(buf)
  BY <1>1, <1>2
<1>. HIDE DEF n, m
<1>11. EBase' /\ ScanRoom' /\ (worst = TRUE => WorstRoom')
  <2>1. worst' = worst /\ UNCHANGED fixed
    BY <1>1
  <2>. QED
    BY <1>1, <1>3, <1>6, <1>7, <1>8, <1>9, <1>10, <2>1, Moved
<1>12. step' = "scan" /\ base' = buf'.gen /\ kernel' # "swar" /\ worst' = worst
  BY <1>1, <1>6 DEF fixed
<1>. QED
  BY <1>11, <1>12 DEF EInv, ESteps

(* A chunk with a hit is stored whole; what is before the hit is kept.     *)
LEMMA HitChunkKeeps ==
    ASSUME EInv, HitChunk
    PROVE  EInv'
<1>. DEFINE p == Lowest(Hits)
            n == i + p
            m == w + p
<1>1. EBase /\ step = "scan" /\ kernel # "swar" /\ ScanRoom /\ (worst = TRUE => WorstRoom)
      /\ base = buf.gen /\ Left > 0 /\ Hits # {} /\ Store(w, Chunk)
      /\ i' = n /\ w' = m /\ UNCHANGED <<fixed, base, worst>>
  BY DEF EInv, ESteps, HitChunk
<1>2. Width \in Nat \ {0} /\ Left \in Nat /\ Left = Len(bytes) - i /\ Len(bytes) \in Nat /\ i \in Nat
      /\ Capacity(buf) \in Nat /\ w \in Nat
      /\ (WorstRoom <=> w + 6 * Left + 8 + Width <= Capacity(buf))
  BY <1>1, Rooms
<1>3. kernel \in {"neon", "sse2", "avx2"} /\ i < Len(bytes) /\ bytes \in Seq(0..255)
      /\ i \in 0..Len(bytes) /\ worst \in BOOLEAN
  BY <1>1, <1>2 DEF EBase
<1>4. w + Left + Width <= Capacity(buf)
  BY <1>1 DEF ScanRoom
<1>5. Len(Chunk) = Width /\ \A k \in Hits : k \in Nat /\ k < Left
  BY <1>3, ChunkFacts
<1>6. sound' = TRUE /\ Buffer(buf') /\ Capacity(buf') = Capacity(buf) /\ buf'.gen = buf.gen
  <2>1. w + Len(Chunk) <= Capacity(buf)
    BY <1>1, <1>2, <1>4, <1>5
  <2>. QED
    BY <1>1, <2>1, StoreKeeps
<1>7. p \in Nat /\ p < Left /\ p \in Hits /\ \A k \in Hits : p <= k
  <2>1. Hits \subseteq Nat
    BY <1>5
  <2>2. p \in Hits /\ \A k \in Hits : p <= k
    BY <1>1, <2>1, LowestIs
  <2>. QED
    BY <1>5, <2>2
<1>8. step' \in {"inline", "slow"} /\ (step' = "inline" => worst = TRUE /\ "standard" \in ESCAPE_CLASS[bytes[n + 1]])
  BY <1>1, <1>3 DEF HitChunk
<1>. HIDE DEF p
<1>9. p < Width
  <2>1. p \in HitLanes(kernel, mode, Chunk)
    BY <1>7 DEF Hits
  <2>2. p \in 0..(Len(Chunk) - 1)
    BY <2>1, LanesAre
  <2>. QED
    BY <1>2, <1>5, <2>2
<1>10. n \in 0..Len(bytes) /\ n < Len(bytes) /\ m \in Nat
  BY <1>2, <1>7
<1>11. mode = "ascii_only" => AtChar(bytes, n)
  <2>1. p <= Width /\ p <= Left
    BY <1>2, <1>7, <1>9
  <2>. QED
    BY <1>1, <1>3, <1>7, <2>1, ChunkSkip
<1>12. m + (Len(bytes) - n) + Width <= Capacity(buf)
  BY <1>2, <1>4, <1>7
<1>13. worst = TRUE => m + 6 * (Len(bytes) - n) + 8 + Width <= Capacity(buf)
  BY <1>1, <1>2, <1>7
<1>. HIDE DEF n, m
<1>14. EBase' /\ ScanRoom' /\ (worst = TRUE => WorstRoom')
  <2>1. worst' = worst /\ UNCHANGED fixed
    BY <1>1
  <2>. QED
    BY <1>1, <1>3, <1>6, <1>10, <1>11, <1>12, <1>13, <2>1, Moved
<1>15. base' = buf'.gen /\ kernel' # "swar" /\ worst' = worst /\ bytes' = bytes
  BY <1>1, <1>6 DEF fixed
<1>. QED
  BY <1>1, <1>8, <1>10, <1>14, <1>15 DEF EInv, ESteps

(* The padded chunk is stored whole; what is left of the text is kept.     *)
LEMMA CleanTailKeeps ==
    ASSUME EInv, CleanTail
    PROVE  EInv'
<1>1. EBase /\ step = "scan" /\ kernel # "swar" /\ ScanRoom /\ (worst = TRUE => WorstRoom)
      /\ base = buf.gen /\ 0 < Left /\ UNCHANGED <<fixed, i, w, base, worst>> /\ step' = "escaped"
      /\ buf' = Publish(Put(buf, w, Chunk), w + Left)
      /\ sound' = (sound /\ base = buf.gen /\ Room(buf, w, Width))
  BY DEF EInv, ESteps, CleanTail
<1>2. Width \in Nat \ {0} /\ Left \in Nat /\ Capacity(buf) \in Nat /\ w \in Nat
  BY <1>1, Rooms
<1>3. w + Left + Width <= Capacity(buf)
  BY <1>1 DEF ScanRoom
<1>4. Room(buf, w, Width) /\ w + Left \in 0..Capacity(buf)
  BY <1>2, <1>3 DEF Room, Capacity
<1>5. Buffer(buf')
  <2>1. Buffer(Put(buf, w, Chunk)) /\ Capacity(Put(buf, w, Chunk)) = Capacity(buf)
    BY <1>1, PutKeeps DEF EBase
  <2>. QED
    BY <1>1, <1>4, <2>1, PublishKeeps
<1>6. sound' = TRUE
  BY <1>1, <1>4 DEF EBase
<1>7. i \in 0..Len(bytes) /\ w \in Nat /\ i' = i /\ w' = w /\ worst' \in BOOLEAN /\ UNCHANGED fixed
      /\ (mode = "ascii_only" => AtChar(bytes, i))
  BY <1>1 DEF EBase
<1>8. EBase'
  BY <1>1, <1>5, <1>6, <1>7, Moved
<1>. QED
  BY <1>1, <1>8 DEF EInv, ESteps

(* The end of the text at the end of a chunk.                              *)
LEMMA EndOfScanKeeps ==
    ASSUME EInv, EndOfScan
    PROVE  EInv'
<1>1. EBase /\ step = "scan" /\ kernel # "swar" /\ ScanRoom
      /\ UNCHANGED <<fixed, i, w, base, worst, sound>> /\ step' = "escaped" /\ buf' = Publish(buf, w)
  BY DEF EInv, ESteps, EndOfScan, Finished
<1>2. Width \in Nat \ {0} /\ Left \in Nat /\ Capacity(buf) \in Nat /\ w \in Nat
  BY <1>1, Rooms
<1>3. w \in 0..Capacity(buf)
  BY <1>1, <1>2 DEF ScanRoom
<1>4. Buffer(buf')
  BY <1>1, <1>3, PublishKeeps DEF EBase
<1>5. i \in 0..Len(bytes) /\ w \in Nat /\ i' = i /\ w' = w /\ worst' \in BOOLEAN /\ UNCHANGED fixed
      /\ (mode = "ascii_only" => AtChar(bytes, i)) /\ sound' = TRUE
  BY <1>1 DEF EBase
<1>6. EBase'
  BY <1>1, <1>4, <1>5, Moved
<1>. QED
  BY <1>1, <1>6 DEF EInv, ESteps

(* An escape stored, published or not, within the room of the worst case:  *)
(* what is left has the worst case still.                                  *)
LEMMA EscapeStored ==
    ASSUME EBase, WorstRoom, base = buf.gen, UNCHANGED fixed,
           NEW given, NEW len \in 1..12, NEW from \in 1..4, i + from <= Len(bytes),
           len <= 6 * from, Len(given) \in Nat, len <= Len(given), Len(given) <= 6 * from + 8,
           mode = "ascii_only" => AtChar(bytes, i + from),
           i' = i + from, w' = w + len, worst' = worst,
           sound' = (sound /\ base = buf.gen /\ Room(buf, w, Len(given))),
           buf' = Put(buf, w, given) \/ buf' = Publish(Put(buf, w, given), w + len)
    PROVE  EBase' /\ WorstRoom' /\ (kernel # "swar" => ScanRoom') /\ buf'.gen = buf.gen
<1>. DEFINE n == i + from
            m == w + len
            size == Len(bytes)
            room == Capacity(buf)
            stored == Put(buf, w, given)
            rest == IF kernel = "swar" THEN 0 ELSE Width
<1>1. /\ Width \in Nat \ {0} /\ size \in Nat /\ i \in Nat /\ room \in Nat /\ w \in Nat
      /\ w + 6 * (size - i) + 8 + rest <= room /\ rest \in Nat
  <2>1. /\ Width \in Nat \ {0} /\ Left = size - i /\ size \in Nat /\ i \in Nat /\ room \in Nat /\ w \in Nat
        /\ kernel # "swar" => w + 6 * Left + 8 + Width <= room
        /\ kernel = "swar" => w + 6 * Left + 8 <= room
    BY Rooms
  <2>. HIDE DEF size, room
  <2>. QED
    BY <2>1
<1>2. Buffer(stored) /\ Capacity(stored) = room /\ stored.gen = buf.gen
  BY PutKeeps DEF EBase
<1>. HIDE DEF room, stored, rest
<1>3. w + Len(given) <= room /\ m \in 0..room /\ m \in Nat /\ n \in 0..size
      /\ m + 6 * (size - n) + 8 + rest <= room
      /\ m + (size - n) + rest <= room
  <2>. HIDE DEF size
  <2>. QED
    BY <1>1 DEF size
<1>. HIDE DEF n, m
<1>4. Room(buf, w, Len(given))
  BY <1>3 DEF Room, room, Capacity
<1>5. sound' = TRUE /\ worst' \in BOOLEAN
  BY <1>4 DEF EBase
<1>6. Buffer(buf') /\ Capacity(buf') = room /\ buf'.gen = buf.gen
  <2>1. CASE buf' = stored
    BY <1>2, <2>1
  <2>2. CASE buf' = Publish(stored, m)
    BY <1>2, <1>3, <2>2, PublishKeeps
  <2>. QED
    BY <2>1, <2>2 DEF stored, m
<1>7. /\ EBase'
      /\ ScanRoom' <=> m + (size - n) + Width <= room
      /\ kernel # "swar" => (WorstRoom' <=> m + 6 * (size - n) + 8 + Width <= room)
      /\ kernel = "swar" => (WorstRoom' <=> m + 6 * (size - n) + 8 <= room)
  <2>1. n \in 0..Len(bytes) /\ m \in Nat /\ i' = n /\ w' = m /\ (mode = "ascii_only" => AtChar(bytes, n))
    BY <1>3 DEF n, m
  <2>. QED
    BY <1>5, <1>6, <2>1, Moved
<1>8. kernel # "swar" => rest = Width
  BY DEF rest
<1>9. kernel = "swar" => m + 6 * (size - n) + 8 <= room
  BY <1>1, <1>3 DEF rest
<1>. HIDE DEF size
<1>10. kernel # "swar" => WorstRoom' /\ ScanRoom'
  BY <1>3, <1>7, <1>8, Zenon
<1>. QED
  BY <1>6, <1>7, <1>9, <1>10, Zenon

(* A byte that every mode escapes is of ASCII, and its escape is short.    *)
LEMMA StandardEscape ==
    ASSUME NEW b \in 0..255, "standard" \in ESCAPE_CLASS[b]
    PROVE  LET given == IF b \in {QUOTE, BACKSLASH} THEN <<BACKSLASH, b>> ELSE EscSeq(b)
           IN  b < 128 /\ Len(given) \in {2, 8} /\ EscLen(b) \in {2, 6} /\ EscLen(b) <= Len(given)
<1>1. b \in {QUOTE, BACKSLASH} \cup 0..31
  BY DEF ESCAPE_CLASS
<1>2. b < 128
  BY <1>1 DEF QUOTE, BACKSLASH
<1>3. EscLen(b) \in {2, 6} /\ Len(EscSeq(b)) = 8
  BY EscapeSizes, Zenon
<1>4. b \in {QUOTE, BACKSLASH} => EscLen(b) = 2 /\ Len(<<BACKSLASH, b>>) = 2
  BY DEF EscLen, ShortEscapes, QUOTE, BACKSLASH
<1>5. CASE b \in {QUOTE, BACKSLASH}
  BY <1>2, <1>4, <1>5
<1>6. CASE b \notin {QUOTE, BACKSLASH}
  <2>1. Len(EscSeq(b)) \in {2, 8} /\ EscLen(b) <= Len(EscSeq(b))
    BY <1>3
  <2>. QED
    BY <1>2, <1>3, <1>6, <2>1, Zenon
<1>. QED
  BY <1>5, <1>6

(* An escape written inline, without a look at the capacity.               *)
LEMMA InlineEscapeKeeps ==
    ASSUME EInv, InlineEscape
    PROVE  EInv'
<1>. DEFINE b == bytes[i + 1]
            given == IF b \in {QUOTE, BACKSLASH} THEN <<BACKSLASH, b>> ELSE EscSeq(b)
            len == EscLen(b)
<1>1. EBase /\ step = "inline" /\ kernel # "swar" /\ worst = TRUE /\ WorstRoom /\ base = buf.gen
      /\ i < Len(bytes) /\ "standard" \in ESCAPE_CLASS[b]
  BY DEF EInv, ESteps, InlineEscape
<1>2. /\ UNCHANGED <<fixed, base, worst>>
      /\ sound' = (sound /\ base = buf.gen /\ Room(buf, w, Len(given)))
      /\ i' = i + 1 /\ w' = w + len
      /\ \/ buf' = Publish(Put(buf, w, given), w') /\ step' = "escaped"
         \/ buf' = Put(buf, w, given) /\ step' = "scan"
  BY DEF InlineEscape
<1>3. i \in Nat /\ Len(bytes) \in Nat /\ i + 1 \in 1..Len(bytes) /\ bytes \in Seq(0..255)
  BY <1>1 DEF EBase
<1>4. b \in 0..255
  BY <1>3, Element
<1>5. b < 128 /\ Len(given) \in {2, 8} /\ len \in {2, 6} /\ len <= Len(given)
  <2>. HIDE DEF b
  <2>. QED
    BY <1>1, <1>4, StandardEscape DEF b
<1>6. mode = "ascii_only" => AtChar(bytes, i + 1)
  <2>1. mode = "ascii_only" => AtChar(bytes, i)
    BY <1>1 DEF EBase
  <2>2. \A j \in i..(i + 1 - 1) : bytes[j + 1] < 128
    BY <1>3, <1>5
  <2>3. 1 \in Nat /\ i + 1 <= Len(bytes)
    BY <1>3
  <2>. QED
    BY <1>3, <2>1, <2>2, <2>3, AsciiSkip
<1>. HIDE DEF b, given, len
<1>7. len \in 1..12 /\ 1 \in 1..4 /\ i + 1 <= Len(bytes) /\ len <= 6 * 1 /\ Len(given) \in Nat
      /\ len <= Len(given) /\ Len(given) <= 6 * 1 + 8
  <2>. DEFINE size == Len(given)
  <2>1. len \in {2, 6} /\ size \in {2, 8} /\ len <= size
    BY <1>5, Zenon
  <2>2. i + 1 <= Len(bytes)
    BY <1>3
  <2>. HIDE DEF size
  <2>3. len \in 1..12 /\ 1 \in 1..4 /\ len <= 6 * 1 /\ size \in Nat /\ len <= size /\ size <= 6 * 1 + 8
    BY <2>1
  <2>. QED
    BY <2>2, <2>3, Zenon DEF size
<1>8. /\ UNCHANGED fixed /\ worst' = worst
      /\ buf' = Put(buf, w, given) \/ buf' = Publish(Put(buf, w, given), w + len)
  BY <1>2
<1>9. EBase' /\ WorstRoom' /\ (kernel # "swar" => ScanRoom') /\ buf'.gen = buf.gen
  BY <1>1, <1>2, <1>6, <1>7, <1>8, EscapeStored
<1>10. kernel' = kernel /\ base' = base /\ step' \in {"escaped", "scan"}
  BY <1>2 DEF fixed
<1>. QED
  BY <1>1, <1>9, <1>10 DEF EInv, ESteps

(* The worst case of all that is left is reserved at the first escape.     *)
LEMMA SlowPathKeeps ==
    ASSUME EInv, SlowPath
    PROVE  EInv'
<1>1. EBase /\ step = "slow" /\ kernel # "swar" /\ ScanRoom /\ (worst = TRUE => WorstRoom)
      /\ base = buf.gen /\ i < Len(bytes) /\ worst \in BOOLEAN
  BY DEF EInv, ESteps, EBase, SlowPath
<1>2. UNCHANGED <<fixed, i, w, sound>> /\ step' = "run"
  BY DEF SlowPath
<1>3. CASE worst = TRUE
  <2>1. UNCHANGED <<buf, base, worst>>
    BY <1>3 DEF SlowPath
  <2>2. EBase' /\ WorstRoom'
    BY <1>1, <1>2, <1>3, <2>1 DEF EBase, WorstRoom, Left, Width, fixed
  <2>3. base' = buf'.gen /\ worst' = TRUE /\ i' < Len(bytes')
    BY <1>1, <1>2, <1>3, <2>1 DEF fixed
  <2>. QED
    BY <1>2, <2>2, <2>3 DEF EInv, ESteps
<1>4. CASE worst = FALSE
  <2>. DEFINE grown == Reserve(Publish(buf, w), WorstCase)
  <2>1. buf' = grown /\ base' = grown.gen /\ worst' = TRUE
    BY <1>4 DEF SlowPath
  <2>2. Width \in Nat \ {0} /\ Left \in Nat /\ Left = Len(bytes) - i /\ Capacity(buf) \in Nat /\ w \in Nat
    BY <1>1, Rooms
  <2>3. w \in 0..Capacity(buf)
    BY <1>1, <2>2 DEF ScanRoom
  <2>4. Buffer(Publish(buf, w)) /\ Publish(buf, w).len = w
    BY <1>1, <2>3, PublishKeeps DEF EBase
  <2>5. WorstCase \in Nat /\ WorstCase = 6 * Left + Width + 8
    BY <2>2 DEF WorstCase, MAX_ESCAPE_EXPANSION
  <2>6. Buffer(grown) /\ w + WorstCase <= Capacity(grown)
    BY <2>4, <2>5, ReserveGives
  <2>. HIDE DEF grown
  <2>7. Buffer(buf') /\ w + WorstCase <= Capacity(buf') /\ base' = buf'.gen
    BY <2>1, <2>6
  <2>8. Capacity(buf') \in Nat
    BY <2>7 DEF Buffer, IsSeq, Capacity
  <2>9. w + 6 * (Len(bytes) - i) + 8 + Width <= Capacity(buf')
    BY <2>2, <2>5, <2>7, <2>8
  <2>10. i \in 0..Len(bytes) /\ w \in Nat /\ i' = i /\ w' = w /\ worst' \in BOOLEAN /\ UNCHANGED fixed
        /\ (mode = "ascii_only" => AtChar(bytes, i)) /\ sound' = TRUE
    BY <1>1, <1>2, <2>1 DEF EBase
  <2>11. EBase' /\ WorstRoom'
    BY <1>1, <2>7, <2>9, <2>10, Moved
  <2>12. i' < Len(bytes')
    BY <1>1, <1>2 DEF fixed
  <2>. QED
    BY <1>2, <2>1, <2>7, <2>11, <2>12 DEF EInv, ESteps
<1>. QED
  BY <1>1, <1>3, <1>4

(* An escape of the run, in any mode.                                      *)
LEMMA EscapeRunKeeps ==
    ASSUME EInv, EscapeRun
    PROVE  EInv'
<1>. DEFINE given == EscapeAt(i).out
            len == EscapeAt(i).len
            from == EscapeAt(i).from
<1>1. EBase /\ step = "run" /\ WorstRoom /\ base = buf.gen /\ i < Len(bytes)
      /\ (kernel # "swar" => worst = TRUE)
  BY DEF EInv, ESteps, EscapeRun
<1>2. /\ UNCHANGED fixed /\ base' = base /\ worst' = worst
      /\ sound' = (sound /\ base = buf.gen /\ Room(buf, w, Len(given)))
      /\ i' = i + from /\ w' = w + len
      /\ buf' = Put(buf, w, given) \/ buf' = Publish(Put(buf, w, given), w')
  BY DEF EscapeRun
<1>3. /\ step' \in {"run", "span", "escaped", "scan"}
      /\ step' = "run" => ~ (i + from >= Len(bytes))
      /\ step' = "span" => kernel = "swar"
      /\ step' = "scan" => kernel # "swar"
  <2>. DEFINE over == \/ mode # "ascii_only" \/ i + from >= Len(bytes)
                      \/ ~ Attend(mode, bytes[i + from + 1])
              ended == i + from >= Len(bytes)
  <2>1. step' = CASE ~ over -> "run"
                  [] over /\ kernel = "swar" -> "span"
                  [] over /\ kernel # "swar" -> IF ended THEN "escaped" ELSE "scan"
    BY Zenon DEF EscapeRun
  <2>2. ~ over => ~ ended
    OBVIOUS
  <2>. HIDE DEF over, ended
  <2>3. CASE ~ over
    BY <2>1, <2>2, <2>3 DEF ended
  <2>4. CASE over /\ kernel = "swar"
    <3>1. step' = "span"
      BY <2>1, <2>4
    <3>. QED
      BY <2>4, <3>1
  <2>5. CASE over /\ kernel # "swar"
    <3>1. step' \in {"escaped", "scan"}
      BY <2>1, <2>5
    <3>. QED
      BY <2>5, <3>1
  <2>. QED
    BY <2>3, <2>4, <2>5
<1>4. bytes \in Seq(0..255) /\ i \in Nat /\ Len(bytes) \in Nat /\ (mode = "ascii_only" => AtChar(bytes, i))
  BY <1>1 DEF EBase
<1>5. /\ from \in 1..4 /\ len \in 1..12 /\ Len(given) \in 1..12
      /\ i + from <= Len(bytes) /\ len <= 6 * from /\ len <= Len(given) /\ Len(given) <= 6 * from + 8
      /\ mode = "ascii_only" => AtChar(bytes, i + from)
  BY <1>1, <1>4, EscapeAtIs
<1>. HIDE DEF given, len, from
<1>6. EBase' /\ WorstRoom' /\ (kernel # "swar" => ScanRoom') /\ buf'.gen = buf.gen
  <2>1. buf' = Put(buf, w, given) \/ buf' = Publish(Put(buf, w, given), w + len)
    BY <1>2
  <2>2. Len(given) \in Nat
    BY <1>5
  <2>. QED
    BY <1>1, <1>2, <1>5, <2>1, <2>2, EscapeStored
<1>7. kernel' = kernel /\ bytes' = bytes /\ base' = buf'.gen
  BY <1>1, <1>2, <1>6 DEF fixed
<1>8. step' = "run" => i' < Len(bytes')
  <2>1. ~ (i + from >= Len(bytes)) => i + from < Len(bytes)
    BY <1>4, <1>5
  <2>. QED
    BY <1>2, <1>3, <1>7, <2>1
<1>. QED
  BY <1>1, <1>2, <1>3, <1>6, <1>7, <1>8 DEF EInv, ESteps

(* A clean span pushed behind what is published.                           *)
LEMMA PushSpanKeeps ==
    ASSUME Buffer(buf), NEW span, IsSeq(span)
    PROVE  Buffer(PushSpan(span))
<1>. DEFINE asked == IF Len(span) <= 16 THEN 16 ELSE Len(span)
            room == Reserve(buf, asked)
            stored == IF Len(span) <= 16 THEN CopySmall(room, buf.len, span)
                      ELSE Put(room, buf.len, span)
            n == buf.len + Len(span)
<1>1. Len(span) \in Nat /\ buf.len \in Nat
  BY DEF IsSeq, Buffer
<1>2. asked \in Nat /\ Len(span) <= asked
  BY <1>1
<1>3. PushSpan(span) = Publish(stored, n)
  <2>1. CASE Len(span) <= 16
    BY <2>1, Zenon DEF PushSpan
  <2>2. CASE ~ (Len(span) <= 16)
    BY <2>2, Zenon DEF PushSpan
  <2>. QED
    BY <2>1, <2>2
<1>. HIDE DEF asked
<1>4. Buffer(room) /\ buf.len + asked <= Capacity(room)
  BY <1>2, ReserveGives
<1>. HIDE DEF room
<1>5. Buffer(stored) /\ Capacity(stored) = Capacity(room)
  BY <1>4, CopySmallKeeps, PutKeeps
<1>. HIDE DEF stored
<1>6. n \in 0..Capacity(stored)
  <2>1. Capacity(room) \in Nat
    BY <1>4 DEF Buffer, IsSeq, Capacity
  <2>. QED
    BY <1>1, <1>2, <1>4, <1>5, <2>1
<1>. QED
  BY <1>3, <1>5, <1>6, PublishKeeps

(* The fallback's clean span, and the reservation for the run behind it.   *)
LEMMA CopySpanKeeps ==
    ASSUME EInv, CopySpan
    PROVE  EInv'
<1>. DEFINE next == FindEscape(i)
            pushed == PushSpan(SubSeq(bytes, i + 1, next))
            asked == MAX_ESCAPE_EXPANSION * (Len(bytes) - next) + 8
            reserved == Reserve(pushed, asked)
<1>1. EBase /\ kernel = "swar" /\ i < Len(bytes)
  BY DEF EInv, ESteps, CopySpan
<1>2. /\ UNCHANGED <<fixed, worst, sound>> /\ i' = next
      /\ \/ next = Len(bytes) /\ buf' = pushed /\ step' = "escaped" /\ w' = w
         \/ /\ next # Len(bytes) /\ buf' = reserved /\ base' = reserved.gen /\ w' = reserved.len
            /\ step' = "run"
  BY DEF CopySpan
<1>3. bytes \in Seq(0..255) /\ i \in Nat /\ Len(bytes) \in Nat /\ i <= Len(bytes) /\ Buffer(buf)
      /\ w \in Nat /\ sound = TRUE /\ worst \in BOOLEAN
  BY <1>1 DEF EBase
<1>4. /\ next \in Nat /\ i <= next /\ next <= Len(bytes)
      /\ mode = "ascii_only" => \A j \in i..(next - 1) : bytes[j + 1] < 128
  BY <1>3, FindEscapeIs
<1>. HIDE DEF next
<1>5. mode = "ascii_only" => AtChar(bytes, next)
  <2>. DEFINE n == next - i
  <2>1. n \in Nat /\ i + n = next
    BY <1>3, <1>4
  <2>. HIDE DEF n
  <2>2. mode = "ascii_only" => AtChar(bytes, i)
    BY <1>1 DEF EBase
  <2>3. mode = "ascii_only" => AtChar(bytes, i + n)
    <3>1. SUFFICES ASSUME mode = "ascii_only" PROVE AtChar(bytes, i + n)
      OBVIOUS
    <3>2. \A j \in i..(i + n - 1) : bytes[j + 1] < 128
      <4>1. \A j \in i..(next - 1) : bytes[j + 1] < 128
        BY <1>4, <3>1, Zenon
      <4>2. \A j \in i..(i + n - 1) : j \in i..(next - 1)
        BY <1>3, <1>4, <2>1
      <4>. QED
        BY <4>1, <4>2, Zenon
    <3>3. i + n <= Len(bytes)
      BY <1>4, <2>1
    <3>. QED
      BY <1>3, <2>1, <2>2, <3>1, <3>2, <3>3, AsciiSkip
  <2>. QED
    BY <2>1, <2>3
<1>6. Buffer(pushed)
  <2>1. IsSeq(SubSeq(bytes, i + 1, next))
    <3>. DEFINE n == next - i
    <3>1. n \in Nat /\ i + n = next
      BY <1>3, <1>4
    <3>. HIDE DEF n
    <3>2. SubSeq(bytes, i + 1, i + n) \in Seq(0..255)
      BY <1>3, <1>4, <3>1, Slice
    <3>3. IsSeq(SubSeq(bytes, i + 1, i + n))
      BY <3>2, SeqIs
    <3>. QED
      BY <3>1, <3>3
  <2>. QED
    BY <1>3, <2>1, PushSpanKeeps
<1>. HIDE DEF pushed
<1>7. asked \in Nat /\ asked = 6 * (Len(bytes) - next) + 8
  BY <1>3, <1>4 DEF MAX_ESCAPE_EXPANSION
<1>. HIDE DEF asked
<1>8. Buffer(reserved) /\ reserved.len = pushed.len /\ pushed.len + asked <= Capacity(reserved)
  BY <1>6, <1>7, ReserveGives
<1>. HIDE DEF reserved
<1>9. reserved.len \in Nat
  BY <1>8 DEF Buffer, IsSeq
<1>10. next \in 0..Len(bytes) /\ UNCHANGED fixed /\ sound' = TRUE /\ worst' \in BOOLEAN /\ kernel' = kernel
       /\ bytes' = bytes
  BY <1>2, <1>3, <1>4 DEF fixed
<1>11. CASE next = Len(bytes) /\ buf' = pushed /\ step' = "escaped" /\ w' = w
  <2>1. EBase'
    BY <1>1, <1>2, <1>3, <1>5, <1>6, <1>10, <1>11, Moved
  <2>. QED
    BY <1>11, <2>1 DEF EInv, ESteps
<1>12. CASE next # Len(bytes) /\ buf' = reserved /\ base' = reserved.gen /\ w' = reserved.len
            /\ step' = "run"
  <2>. DEFINE m == reserved.len
  <2>1. m \in Nat /\ w' = m /\ Buffer(buf') /\ m + asked <= Capacity(buf') /\ Capacity(buf') \in Nat
    <3>1. Buffer(buf') /\ m + asked <= Capacity(buf')
      BY <1>8, <1>12
    <3>2. Capacity(buf') \in Nat
      BY <3>1 DEF Buffer, IsSeq, Capacity
    <3>. QED
      BY <1>9, <1>12, <3>1, <3>2
  <2>. HIDE DEF m
  <2>2. m + 6 * (Len(bytes) - next) + 8 <= Capacity(buf')
    BY <1>3, <1>4, <1>7, <2>1
  <2>3. EBase' /\ WorstRoom'
    BY <1>1, <1>2, <1>5, <1>10, <2>1, <2>2, Moved
  <2>4. i' < Len(bytes') /\ base' = buf'.gen
    BY <1>2, <1>3, <1>4, <1>10, <1>12
  <2>. QED
    BY <1>1, <1>10, <1>12, <2>3, <2>4 DEF EInv, ESteps
<1>. QED
  BY <1>2, <1>11, <1>12

(* The end of the text in the fallback.                                    *)
LEMMA EndOfSpansKeeps ==
    ASSUME EInv, EndOfSpans
    PROVE  EInv'
<1>1. EBase /\ UNCHANGED <<fixed, i, w, buf, base, worst, sound>> /\ step' = "escaped"
  BY DEF EInv, EndOfSpans
<1>2. EBase'
  BY <1>1 DEF EBase, fixed
<1>. QED
  BY <1>1, <1>2 DEF EInv, ESteps

(* A string begins: the text and one chunk more are reserved.              *)
LEMMA BeginEscapeKeeps ==
    ASSUME EInv, BeginEscape
    PROVE  EInv'
<1>1. /\ sound = TRUE /\ Buffer(buf) /\ worst = FALSE
      /\ host' \in Hosts /\ chars' \in Strings /\ bytes' = BytesOf(chars')
      /\ kernel' = KernelOn(host', Len(bytes'))
      /\ buf' = IF kernel' = "swar" THEN buf ELSE Reserve(buf, Len(bytes') + Width')
      /\ base' = buf'.gen /\ i' = 0 /\ w' = buf.len
      /\ step' = IF kernel' = "swar" THEN "span" ELSE "scan"
      /\ worst' = worst /\ sound' = sound
  BY DEF EInv, EBase, ESteps, BeginEscape
<1>2. bytes' \in Seq(0..255) /\ \E B : Chars(bytes', B)
  <2>. DEFINE cps == chars'
  <2>1. cps \in Seq(CodePoints)
    BY <1>1, StringsAssumption
  <2>. HIDE DEF cps
  <2>2. BytesOf(cps) \in Seq(0..255) /\ \E B : Chars(BytesOf(cps), B)
    BY <2>1, BytesAre
  <2>. QED
    BY <1>1, <2>2 DEF cps
<1>3. AtChar(bytes', 0)
  <2>1. PICK B : Chars(bytes', B)
    BY <1>2
  <2>2. 0 \in B
    BY <2>1 DEF Chars
  <2>. QED
    BY <2>1, <2>2 DEF AtChar
<1>4. kernel' \in {"neon", "sse2", "avx2", "swar"}
  BY <1>1, HostsAssumption DEF KernelOn
<1>5. VectorWidth \in Nat \ {0} /\ Len(bytes') \in Nat /\ buf.len \in Nat
  BY <1>1, <1>2, VectorAssumption DEF Buffer, IsSeq
<1>6. Width' \in Nat
  BY <1>5 DEF Width
<1>7. Left' = Len(bytes')
  BY <1>1, <1>5 DEF Left
<1>10. /\ bytes' \in Seq(0..255) /\ i' \in 0..Len(bytes') /\ w' \in Nat
       /\ worst' \in BOOLEAN /\ sound' = TRUE /\ AtChar(bytes', i')
  <2>1. 0 \in 0..Len(bytes')
    BY <1>5
  <2>2. AtChar(bytes', i')
    BY <1>1, <1>3, Zenon
  <2>. QED
    BY <1>1, <1>2, <1>5, <2>1, <2>2
<1>8. CASE kernel' = "swar"
  <2>1. buf' = buf
    BY <1>1, <1>8
  <2>2. EBase'
    BY <1>1, <1>4, <1>10, <2>1 DEF EBase
  <2>3. step' = "span" /\ worst' = FALSE
    BY <1>1, <1>8
  <2>. QED
    BY <1>8, <2>2, <2>3 DEF EInv, ESteps
<1>9. CASE kernel' # "swar"
  <2>. DEFINE asked == Len(bytes') + Width'
              grown == Reserve(buf, asked)
  <2>1. asked \in Nat
    BY <1>5, <1>6
  <2>2. buf' = grown
    BY <1>1, <1>9
  <2>. HIDE DEF asked
  <2>3. Buffer(grown) /\ buf.len + asked <= Capacity(grown)
    BY <1>1, <2>1, ReserveGives
  <2>. HIDE DEF grown
  <2>4. Buffer(buf') /\ buf.len + asked <= Capacity(buf')
    BY <2>2, <2>3
  <2>5. ScanRoom'
    <3>1. w' + Left' + Width' = buf.len + asked
      BY <1>1, <1>5, <1>6, <1>7 DEF asked
    <3>. QED
      BY <2>4, <3>1 DEF ScanRoom, Capacity
  <2>6. EBase'
    BY <1>1, <1>4, <1>10, <2>4 DEF EBase
  <2>7. step' = "scan" /\ worst' = FALSE /\ base' = buf'.gen
    BY <1>1, <1>9
  <2>. QED
    BY <1>9, <2>5, <2>6, <2>7 DEF EInv, ESteps
<1>. QED
  BY <1>8, <1>9

(* Every step of the escaper.                                              *)
LEMMA EscapeNextKeeps ==
    ASSUME EInv, EscapeNext
    PROVE  EInv'
  BY BeginEscapeKeeps, CleanChunkKeeps, CleanTailKeeps, EndOfScanKeeps, HitChunkKeeps,
     InlineEscapeKeeps, SlowPathKeeps, EscapeRunKeeps, CopySpanKeeps, EndOfSpansKeeps DEF EscapeNext

(* The buffers a string starts in.                                         *)
LEMMA Fresh ==
    /\ \A n \in Nat : Buffer([mem |-> <<QUOTE>> \o Repeat(Junk, n), len |-> 1, gen |-> 0])
    /\ Buffer([mem |-> <<QUOTE>>, len |-> 1, gen |-> 0])
    /\ AtChar(<<>>, 0)
<1>1. IsSeq(<<QUOTE>>) /\ Len(<<QUOTE>>) = 1
  BY DEF IsSeq
<1>2. \A m : IsSeq(m) /\ Len(m) >= 1 => Buffer([mem |-> m, len |-> 1, gen |-> 0])
  BY DEF Buffer, IsSeq
<1>3. \A n \in Nat : IsSeq(<<QUOTE>> \o Repeat(Junk, n)) /\ Len(<<QUOTE>> \o Repeat(Junk, n)) >= 1
  <2>1. ASSUME NEW n \in Nat
        PROVE  IsSeq(<<QUOTE>> \o Repeat(Junk, n)) /\ Len(<<QUOTE>> \o Repeat(Junk, n)) >= 1
    <3>1. IsSeq(Repeat(Junk, n)) /\ Len(Repeat(Junk, n)) = n
      BY RepeatIs
    <3>2. IsSeq(<<QUOTE>> \o Repeat(Junk, n)) /\ Len(<<QUOTE>> \o Repeat(Junk, n)) = 1 + n
      BY <1>1, <3>1, SeqOps
    <3>. QED
      BY <3>2
  <2>. QED
    BY <2>1
<1>4. AtChar(<<>>, 0)
  <2>1. Chars(<<>>, {0})
    BY DEF Chars
  <2>. QED
    BY <2>1 DEF AtChar
<1>5. Buffer([mem |-> <<QUOTE>>, len |-> 1, gen |-> 0])
  BY <1>1, <1>2, 1 >= 1
<1>6. \A n \in Nat : Buffer([mem |-> <<QUOTE>> \o Repeat(Junk, n), len |-> 1, gen |-> 0])
  BY <1>2, <1>3, Zenon
<1>. QED
  BY <1>4, <1>5, <1>6

(* The first states.                                                       *)
LEMMA EscapeInitInv ==
    ASSUME EscapeInit
    PROVE  EInv
<1>1. Buffer(buf)
  <2>1. \E n \in Nat : buf = [mem |-> <<QUOTE>> \o Repeat(Junk, n), len |-> 1, gen |-> 0]
    BY SparesAssumption DEF EscapeInit
  <2>. QED
    BY <2>1, Fresh
<1>2. EBase
  <2>1. /\ bytes = <<>> /\ mode = "standard" /\ kernel = "swar" /\ i = 0 /\ w = 0
        /\ worst = FALSE /\ sound = TRUE
    BY DEF EscapeInit
  <2>2. bytes \in Seq(0..255) /\ i \in 0..Len(bytes) /\ w \in Nat /\ mode # "ascii_only"
    BY <2>1
  <2>. QED
    BY <1>1, <2>1, <2>2 DEF EBase
<1>. QED
  BY <1>2 DEF EscapeInit, EInv, ESteps

(* A new buffer.                                                           *)
LEMMA EscapeForgetKeeps ==
    ASSUME EscapeForget
    PROVE  EInv'
<1>1. Buffer(buf')
  BY Fresh DEF EscapeForget
<1>2. EBase'
  <2>1. /\ bytes' = <<>> /\ mode' = "standard" /\ kernel' = "swar" /\ i' = 0 /\ w' = 0
        /\ worst' = FALSE /\ sound' = TRUE
    BY DEF EscapeForget
  <2>2. bytes' \in Seq(0..255) /\ i' \in 0..Len(bytes') /\ w' \in Nat /\ mode' # "ascii_only"
    BY <2>1
  <2>. QED
    BY <1>1, <2>1, <2>2 DEF EBase
<1>. QED
  BY <1>2 DEF EscapeForget, EInv, ESteps

-----------------------------------------------------------------------------
(* Both together.                                                          *)

SInv == EInv /\ DInv

(* Steps of neither.                                                       *)
LEMMA SInvStuttering ==
    ASSUME SInv, UNCHANGED <<escapeVars, stringVars>>
    PROVE  SInv'
<1>1. EInv'
  BY DEF SInv, escapeVars, EInv, EBase, ESteps, ScanRoom, WorstRoom, Left, Width
<1>2. DInv'
  BY DEF SInv, stringVars, DInv, DecodingRoom
<1>. QED
  BY <1>1, <1>2 DEF SInv

(* Every step of the escaper, of the tokenizer, and between them.          *)
LEMMA StringsNextKeeps ==
    ASSUME SInv, StringsNext
    PROVE  SInv'
<1>0. EInv /\ DInv
  BY DEF SInv
<1>1. UNCHANGED escapeVars => EInv'
  BY <1>0 DEF escapeVars, EInv, EBase, ESteps, ScanRoom, WorstRoom, Left, Width
<1>2. UNCHANGED stringVars => DInv'
  BY <1>0 DEF stringVars, DInv, DecodingRoom
<1>3. CASE EscapeNext /\ UNCHANGED stringVars
  BY <1>0, <1>2, <1>3, EscapeNextKeeps DEF SInv
<1>4. CASE ReadBack
  <2>1. PICK trailer \in Trailers : BeginString(Published(buf) \o <<QUOTE>> \o trailer, host)
    BY <1>4 DEF ReadBack
  <2>. DEFINE text == Published(buf) \o <<QUOTE>> \o trailer
  <2>2. IsSeq(text) /\ Len(text) > 0
    <3>1. IsSeq(Published(buf)) /\ Len(Published(buf)) \in Nat
      <4>1. Buffer(buf)
        BY <1>0 DEF EInv, EBase
      <4>2. IsSeq(Take(buf.mem, buf.len)) /\ Len(Take(buf.mem, buf.len)) = buf.len /\ buf.len \in Nat
        <5>1. IsSeq(buf.mem) /\ buf.len \in 0..Len(buf.mem) /\ Len(buf.mem) \in Nat
          BY <4>1 DEF Buffer, IsSeq
        <5>. QED
          BY <5>1, SeqOps
      <4>. QED
        BY <4>2 DEF Published
    <3>2. IsSeq(<<QUOTE>>) /\ Len(<<QUOTE>>) = 1
      BY DEF IsSeq
    <3>3. IsSeq(trailer) /\ Len(trailer) \in Nat
      BY TrailersAssumption, SeqIs DEF IsSeq
    <3>4. IsSeq(Published(buf) \o <<QUOTE>>) /\ Len(Published(buf) \o <<QUOTE>>) = Len(Published(buf)) + 1
      BY <3>1, <3>2, SeqOps
    <3>5. IsSeq(text) /\ Len(text) = Len(Published(buf) \o <<QUOTE>>) + Len(trailer)
      BY <3>3, <3>4, SeqOps
    <3>. QED
      BY <3>1, <3>3, <3>4, <3>5
  <2>. HIDE DEF text
  <2>3. BeginString(text, host)
    BY <2>1 DEF text
  <2>4. DInv'
    BY <1>0, <2>2, <2>3, BeginStringKeeps
  <2>. QED
    BY <1>1, <1>4, <2>4 DEF ReadBack, SInv
<1>5. CASE ReadRaw
  <2>1. PICK text \in RawTexts : BeginString(text, host)
    BY <1>5 DEF ReadRaw
  <2>2. IsSeq(text) /\ Len(text) > 0
    <3>1. text \in Seq(0..255) /\ text # <<>>
      BY RawTextsAssumption
    <3>. QED
      BY <3>1, SeqIs
  <2>3. DInv'
    BY <1>0, <2>1, <2>2, BeginStringKeeps
  <2>. QED
    BY <1>1, <1>5, <2>3 DEF ReadRaw, SInv
<1>6. CASE Forget
  <2>1. EInv'
    BY <1>6, EscapeForgetKeeps DEF Forget
  <2>2. DInv'
    <3>1. Buffer(scratch')
      BY <1>6, EmptyIs DEF Forget, StringForget
    <3>. QED
      BY <1>6, <3>1, EmptyIs DEF Forget, StringForget, DInv
  <2>. QED
    BY <2>1, <2>2 DEF SInv
<1>7. CASE StringNext /\ UNCHANGED escapeVars
  BY <1>0, <1>1, <1>7, StringNextKeeps DEF SInv
<1>. QED
  BY <1>3, <1>4, <1>5, <1>6, <1>7 DEF StringsNext

(* The invariant of the escaper and of the tokenizer, of every behaviour.  *)
LEMMA StringsInvariant == StringsSpec => []SInv
<1>1. StringsInit => SInv
  <2>. SUFFICES ASSUME StringsInit PROVE SInv
    OBVIOUS
  <2>1. EInv
    BY EscapeInitInv DEF StringsInit
  <2>2. DInv
    BY EmptyIs DEF StringsInit, StringInit, DInv
  <2>. QED
    BY <2>1, <2>2 DEF SInv
<1>2. SInv /\ [StringsNext]_<<escapeVars, stringVars>> => SInv'
  BY StringsNextKeeps, SInvStuttering
<1>. QED
  BY <1>1, <1>2, PTL DEF StringsSpec

(* No store of the escaper, a whole chunk past the text or a table entry   *)
(* past its escape, falls outside the capacity reserved before it or goes  *)
(* through a pointer older than the last growth: for every string, mode,   *)
(* machine, vector and word width, and first capacity (emit.rs 496-612).   *)
THEOREM EscaperStaysReserved == StringsSpec => []EscapeStoresReserved
<1>1. SInv => EscapeStoresReserved
  BY DEF SInv, EInv, EBase, EscapeStoresReserved
<1>. QED
  BY <1>1, StringsInvariant, PTL

(* No store of the tokenizer into its scratch falls outside what it has    *)
(* reserved before the first escape: what is decoded never outruns the     *)
(* source, whatever text, chunks and machine (scalars.rs 317-480).         *)
THEOREM TokenizerStaysReserved == StringsSpec => []ScratchStoresReserved
<1>1. SInv => ScratchStoresReserved
  BY DEF SInv, DInv, ScratchStoresReserved
<1>. QED
  BY <1>1, StringsInvariant, PTL

-----------------------------------------------------------------------------
(* The tokens of a text.                                                   *)

(* In which order texts are put together is all the same.                  *)
LEMMA Texts3 ==
    ASSUME NEW a \in Seq(Pieces), NEW b \in Seq(Pieces), NEW c \in Seq(Pieces)
    PROVE  (a \o b) \o c = a \o (b \o c)
BY ConcatAssociative

(* They are tokens.                                                        *)
LEMMA TokensTyped ==
    ASSUME NEW text \in Seq(Pieces)
    PROVE  TokensOf(text) \in Seq(Token)
<1>1. Pieces \ LayoutFields \subseteq Token
  BY DEF Pieces
<1>2. TokensOf(text) \in Seq(Pieces \ LayoutFields)
  BY WithoutType DEF TokensOf
<1>. QED
  BY <1>1, <1>2

(* Layout adds none.                                                       *)
LEMMA LayoutAdded ==
    ASSUME NEW text \in Seq(Pieces), NEW layout \in Seq(LayoutFields)
    PROVE  text \o layout \in Seq(Pieces) /\ TokensOf(text \o layout) = TokensOf(text)
<1>1. layout \in Seq(Pieces \cap LayoutFields) /\ layout \in Seq(Pieces)
  <2>1. Pieces \cap LayoutFields = LayoutFields
    BY DEF Pieces
  <2>2. LayoutFields \subseteq Pieces
    BY DEF Pieces
  <2>. QED
    BY <2>1, <2>2
<1>. QED
  BY <1>1, WithoutTail, Texts2 DEF TokensOf

(* A token adds itself.                                                    *)
LEMMA TokenAdded ==
    ASSUME NEW text \in Seq(Pieces), NEW t \in Token
    PROVE  text \o <<t>> \in Seq(Pieces) /\ TokensOf(text \o <<t>>) = Append(TokensOf(text), t)
<1>1. t \in Pieces /\ t \notin LayoutFields
  BY DEF Pieces, LayoutFields, Token, Delimiter, Openers, Closers, Scalars, PlainScalars,
         NanKeywords
<1>2. text \o <<t>> = Append(text, t)
  BY AppendProperties, ConcatProperties
<1>3. Without(Append(text, t), LayoutFields) = Append(Without(text, LayoutFields), t)
  BY <1>1, WithoutMore
<1>4. Append(text, t) \in Seq(Pieces)
  BY <1>1, AppendProperties
<1>. QED
  BY <1>2, <1>3, <1>4, Zenon DEF TokensOf

(* What is layout.                                                         *)
LEMMA LayoutWritten ==
    /\ \A name \in LayoutFields : Field(name) \in Seq(LayoutFields)
    /\ \A n \in Nat : Indent(n) \in Seq(LayoutFields)
<1>1. <<>> \in Seq(LayoutFields)
  BY EmptySeq
<1>2. ASSUME NEW name \in LayoutFields PROVE Field(name) \in Seq(LayoutFields)
  BY <1>1 DEF Field
<1>3. ASSUME NEW n \in Nat PROVE Indent(n) \in Seq(LayoutFields)
  <2>1. "indent" \in LayoutFields
    BY DEF LayoutFields
  <2>2. [j \in 1 .. n |-> "indent"] \in Seq(LayoutFields)
    BY <2>1, SeqDef
  <2>. QED
    BY <1>1, <2>2 DEF Indent
<1>. QED
  BY <1>2, <1>3

(* A separator and the layout after it.                                    *)
LEMMA SeparatorAdded ==
    ASSUME NEW text \in Seq(Pieces), NEW field \in LayoutFields, NEW n \in Nat
    PROVE  /\ text \o (Comma \o Field(field) \o Indent(n)) \in Seq(Pieces)
           /\ TokensOf(text \o (Comma \o Field(field) \o Indent(n))) =
                  IF first THEN TokensOf(text) ELSE Append(TokensOf(text), ",")
<1>. DEFINE c == text \o Comma
            f == Field(field)
            d == Indent(n)
<1>1. c \in Seq(Pieces) /\ TokensOf(c) = IF first THEN TokensOf(text)
                                                  ELSE Append(TokensOf(text), ",")
  <2>1. CASE first
    <3>1. c = text
      BY <2>1, ConcatEmptySeq DEF Comma
    <3>. QED
      BY <2>1, <3>1
  <2>2. CASE ~ first
    <3>1. c = text \o <<",">> /\ "," \in Token
      BY <2>2 DEF Comma, Token, Delimiter
    <3>. QED
      BY <2>2, <3>1, TokenAdded
  <2>. QED
    BY <2>1, <2>2
<1>2. f \in Seq(LayoutFields) /\ d \in Seq(LayoutFields)
  BY LayoutWritten
<1>3. Comma \in Seq(Pieces) /\ f \in Seq(Pieces) /\ d \in Seq(Pieces)
  BY LayoutTexts
<1>4. text \o (Comma \o f \o d) = (c \o f) \o d
  <2>. HIDE DEF f, d
  <2>0. f \o d \in Seq(Pieces)
    BY <1>3, Texts2
  <2>1. (Comma \o f) \o d = Comma \o (f \o d)
    BY <1>3, Texts3, Zenon
  <2>2. text \o (Comma \o (f \o d)) = (text \o Comma) \o (f \o d)
    BY <1>3, <2>0, Texts3, Zenon
  <2>3. (c \o f) \o d = c \o (f \o d)
    BY <1>1, <1>3, Texts3, Zenon
  <2>. QED
    BY <2>1, <2>2, <2>3
<1>5. c \o f \in Seq(Pieces) /\ TokensOf(c \o f) = TokensOf(c)
  BY <1>1, <1>2, LayoutAdded
<1>6. (c \o f) \o d \in Seq(Pieces) /\ TokensOf((c \o f) \o d) = TokensOf(c \o f)
  BY <1>2, <1>5, LayoutAdded
<1>. QED
  BY <1>1, <1>4, <1>5, <1>6

(* A value, or the opener of one, with what is owed before it.             *)
LEMMA ValueAdded ==
    ASSUME TypeOK, NEW t \in Token
    PROVE  TokensOf(out \o ValuePrefix \o <<t>>) =
               Append(IF after_key \/ depth = 0 \/ first THEN TokensOf(out)
                      ELSE Append(TokensOf(out), ","), t)
<1>1. out \in Seq(Pieces) /\ depth \in Nat
  BY DEF TypeOK
<1>2. CASE after_key \/ depth = 0
  <2>1. out \o ValuePrefix = out
    BY <1>1, <1>2, ConcatEmptySeq DEF ValuePrefix
  <2>. QED
    BY <1>1, <1>2, <2>1, TokenAdded
<1>3. CASE ~ (after_key \/ depth = 0)
  <2>1. ValuePrefix = Comma \o Field("array_nl") \o Indent(depth)
    BY <1>3 DEF ValuePrefix
  <2>2. "array_nl" \in LayoutFields
    BY DEF LayoutFields
  <2>3. /\ out \o ValuePrefix \in Seq(Pieces)
        /\ TokensOf(out \o ValuePrefix) = IF first THEN TokensOf(out)
                                                   ELSE Append(TokensOf(out), ",")
    BY <1>1, <2>1, <2>2, SeparatorAdded
  <2>. QED
    BY <1>3, <2>3, TokenAdded
<1>. QED
  BY <1>2, <1>3

(* A key, with its colon.                                                  *)
LEMMA KeyAdded ==
    ASSUME TypeOK, NEW t \in Token
    PROVE  TokensOf(out \o KeyPrefix \o <<t>> \o KeySuffix) =
               Append(Append(IF first THEN TokensOf(out) ELSE Append(TokensOf(out), ","), t),
                      ":")
<1>. DEFINE p == out \o KeyPrefix
            k == p \o <<t>>
            b == Field("space_before")
            a == Field("space")
<1>1. /\ out \in Seq(Pieces) /\ depth \in Nat /\ "object_nl" \in LayoutFields
      /\ "space_before" \in LayoutFields /\ "space" \in LayoutFields
      /\ ":" \in Token
  BY DEF TypeOK, LayoutFields, Token, Delimiter
<1>2. p \in Seq(Pieces) /\ TokensOf(p) = IF first THEN TokensOf(out)
                                                  ELSE Append(TokensOf(out), ",")
  BY <1>1, SeparatorAdded DEF KeyPrefix
<1>3. k \in Seq(Pieces) /\ TokensOf(k) = Append(TokensOf(p), t)
  BY <1>2, TokenAdded
<1>4. b \in Seq(LayoutFields) /\ a \in Seq(LayoutFields)
  BY <1>1, LayoutWritten
<1>5. /\ b \in Seq(Pieces) /\ a \in Seq(Pieces)
      /\ <<":">> \in Seq(Pieces)
  BY <1>1, LayoutTexts, TokenText DEF Pieces
<1>6. KeySuffix = (b \o <<":">>) \o a
  BY DEF KeySuffix
<1>. HIDE DEF p, k, b, a
<1>7. k \o ((b \o <<":">>) \o a) = ((k \o b) \o <<":">>) \o a
  <2>1. b \o <<":">> \in Seq(Pieces)
    BY <1>5, ConcatProperties
  <2>2. k \o ((b \o <<":">>) \o a) = (k \o (b \o <<":">>)) \o a
    BY <1>3, <1>5, <2>1, Texts3, Zenon
  <2>3. k \o (b \o <<":">>) = (k \o b) \o <<":">>
    BY <1>3, <1>5, Texts3, Zenon
  <2>. QED
    BY <2>2, <2>3
<1>8. k \o b \in Seq(Pieces) /\ TokensOf(k \o b) = TokensOf(k)
  BY <1>3, <1>4, LayoutAdded
<1>9. /\ (k \o b) \o <<":">> \in Seq(Pieces)
      /\ TokensOf((k \o b) \o <<":">>) = Append(TokensOf(k \o b), ":")
  BY <1>1, <1>8, TokenAdded
<1>10. TokensOf(((k \o b) \o <<":">>) \o a) = TokensOf((k \o b) \o <<":">>)
  BY <1>4, <1>9, LayoutAdded
<1>. QED
  BY <1>2, <1>3, <1>6, <1>7, <1>8, <1>9, <1>10 DEF p, k

(* A closer.                                                               *)
LEMMA CloserAdded ==
    ASSUME TypeOK, NEW kind \in Kinds, NEW t \in Token
    PROVE  TokensOf(out \o BeforeCloser(kind) \o <<t>>) = Append(TokensOf(out), t)
<1>1. out \in Seq(Pieces) /\ Outer \in Nat /\ Newline(kind) \in LayoutFields
  BY DEF TypeOK, Outer, Newline, LayoutFields
<1>2. out \o BeforeCloser(kind) \in Seq(Pieces)
      /\ TokensOf(out \o BeforeCloser(kind)) = TokensOf(out)
  <2>1. CASE first \/ Newline(kind) \notin cfg
    BY <1>1, <2>1, ConcatEmptySeq DEF BeforeCloser
  <2>2. CASE ~ (first \/ Newline(kind) \notin cfg)
    <3>. DEFINE f == Field(Newline(kind))
                d == Indent(Outer)
    <3>1. BeforeCloser(kind) = f \o d
      BY <2>2 DEF BeforeCloser
    <3>2. f \in Seq(LayoutFields) /\ d \in Seq(LayoutFields)
      BY <1>1, LayoutWritten
    <3>. HIDE DEF f, d
    <3>3. f \o d \in Seq(LayoutFields)
      BY <3>2, ConcatProperties
    <3>. QED
      BY <1>1, <3>1, <3>3, LayoutAdded
  <2>. QED
    BY <2>1, <2>2
<1>. QED
  BY <1>2, TokenAdded

-----------------------------------------------------------------------------
(* The parse of a text as it is written: all of it read, token by token,   *)
(* with nothing refused and no end to it yet.                              *)
Reads(run, text) ==
    /\ run \in [0 .. Len(text) -> ParseStates]
    /\ run[0] = Unread
    /\ \A j \in 0 .. Len(text) - 1 :
          /\ run[j].outcome = "parsing" /\ run[j].at # "finish" /\ run[j].taken = j
          /\ run[j + 1] = TokenStep(run[j], text[j + 1], 0)

IsReading(s, place, taken, o, v, log) == IsState(s, place, taken, o, v, log, "parsing", 0)

ReadTo(text, place, o, v, log) ==
    \E run : Reads(run, text) /\ IsReading(run[Len(text)], place, Len(text), o, v, log)

(* The place the legal calls made so far leave the parse at.               *)
HostPlace ==
    IF open = <<>> THEN IF calls = <<>> THEN "root" ELSE "finish"
    ELSE IF first THEN "first" ELSE IF after_key THEN "value" ELSE "after"

(* The text of a legal host is one that can be read so far, and what was   *)
(* read of it are the calls it made.                                       *)
Readable ==
    Legal =>
        /\ Delivered(calls) = calls
        /\ ReadTo(TokensOf(out), HostPlace, open, vals, calls)

(* Nothing written, nothing read.                                          *)
LEMMA NothingRead == ReadTo(<<>>, "root", <<>>, 0, <<>>)
<1>. DEFINE run == [j \in 0 .. 0 |-> Unread]
<1>1. Unread \in ParseStates
  BY EmptySeq DEF Unread, ParseStates, Places
<1>2. /\ Len(<<>>) = 0 /\ run \in [0 .. 0 -> ParseStates] /\ run[0] = Unread
  BY <1>1
<1>3. Reads(run, <<>>)
  <2>. HIDE DEF run
  <2>. QED
    BY <1>2 DEF Reads
<1>4. IsReading(Unread, "root", 0, <<>>, 0, <<>>)
  BY <1>1, DeliveredNone DEF IsReading, IsState, Unread
<1>5. IsReading(run[Len(<<>>)], "root", Len(<<>>), <<>>, 0, <<>>)
  BY <1>2, <1>4, Zenon
<1>. QED
  BY <1>3, <1>5 DEF ReadTo

(* A token more is read.                                                   *)
LEMMA TokenRead ==
    ASSUME NEW text \in Seq(Token), NEW t \in Token,
           NEW place, NEW o, NEW v, NEW log, ReadTo(text, place, o, v, log), place # "finish",
           NEW place2, NEW o2, NEW v2, NEW log2,
           \A s : IsReading(s, place, Len(text), o, v, log) =>
                      IsReading(TokenStep(s, t, 0), place2, Len(text) + 1, o2, v2, log2)
    PROVE  ReadTo(Append(text, t), place2, o2, v2, log2)
<1>. DEFINE n == Len(text)
            longer == Append(text, t)
<1>1. /\ n \in Nat /\ Len(longer) = n + 1 /\ longer[n + 1] = t
      /\ \A j \in 1 .. n : longer[j] = text[j]
  BY AppendProperties, LenProperties
<1>2. PICK run : Reads(run, text) /\ IsReading(run[n], place, n, o, v, log)
  BY DEF ReadTo
<1>3. PICK s : s = run[n]
  OBVIOUS
<1>4. PICK u : u = TokenStep(s, t, 0)
  OBVIOUS
<1>5. IsReading(u, place2, n + 1, o2, v2, log2)
  BY <1>2, <1>3, <1>4, Zenon
<1>6. u \in ParseStates /\ s.outcome = "parsing" /\ s.at # "finish" /\ s.taken = n
  BY <1>2, <1>3, <1>5 DEF IsReading, IsState
<1>. DEFINE run2 == [j \in 0 .. n + 1 |-> IF j = n + 1 THEN u ELSE run[j]]
<1>. HIDE DEF n, longer
<1>7. /\ run \in [0 .. n -> ParseStates] /\ run[0] = Unread
      /\ \A j \in 0 .. n - 1 :
            /\ run[j].outcome = "parsing" /\ run[j].at # "finish" /\ run[j].taken = j
            /\ run[j + 1] = TokenStep(run[j], text[j + 1], 0)
  BY <1>2 DEF Reads, n
<1>8. /\ run2 \in [0 .. n + 1 -> ParseStates]
      /\ run2[n + 1] = u /\ \A j \in 0 .. n : run2[j] = run[j]
  BY <1>1, <1>6, <1>7
<1>. HIDE DEF run2
<1>9. ASSUME NEW j \in 0 .. (n + 1) - 1
      PROVE  /\ run2[j].outcome = "parsing" /\ run2[j].at # "finish" /\ run2[j].taken = j
             /\ run2[j + 1] = TokenStep(run2[j], longer[j + 1], 0)
  <2>1. CASE j = n
    <3>1. run2[j] = s /\ run2[j + 1] = u /\ longer[j + 1] = t
      BY <1>1, <1>3, <1>8, <2>1
    <3>. QED
      BY <1>4, <1>6, <2>1, <3>1
  <2>2. CASE j # n
    <3>1. /\ j \in 0 .. n - 1 /\ j \in 0 .. n /\ j + 1 \in 0 .. n /\ j + 1 \in 1 .. n
      BY <1>1, <2>2
    <3>2. run2[j] = run[j] /\ run2[j + 1] = run[j + 1] /\ longer[j + 1] = text[j + 1]
      BY <1>1, <1>8, <3>1
    <3>. QED
      BY <1>7, <3>1, <3>2
  <2>. QED
    BY <2>1, <2>2
<1>10. run2[0] = Unread
  <2>1. 0 \in 0 .. n
    BY <1>1
  <2>. QED
    BY <1>7, <1>8, <2>1
<1>11. Reads(run2, longer)
  BY <1>1, <1>8, <1>9, <1>10 DEF Reads
<1>12. IsReading(run2[Len(longer)], place2, Len(longer), o2, v2, log2)
  BY <1>1, <1>5, <1>8
<1>. QED
  BY <1>11, <1>12 DEF ReadTo, longer

(* Where the parse waits for a value.                                      *)
ValueAwaited(place) ==
    \/ place \in {"root", "value"}
    \/ place = "first" /\ open # <<>> /\ Top(open).kind = "array"

(* The token of a value, there.                                            *)
LEMMA ValueTaken ==
    ASSUME NEW s, NEW place, NEW n, NEW o, NEW v, NEW log, IsReading(s, place, n, open, v, log),
           ValueAwaited(place), NEW t \in Token, t \notin Closers
    PROVE  TokenStep(s, t, 0) = TakeValue(s, t, 0)
<1>1. s.at = place /\ s.open = open
  BY DEF IsReading, IsState
<1>2. CASE place \in {"root", "value"}
  BY <1>1, <1>2, Zenon DEF TokenStep
<1>3. CASE place = "first" /\ open # <<>> /\ Top(open).kind = "array"
  <2>1. t # CloserOf(Top(s.open).kind) /\ Top(s.open).kind # "object"
    BY <1>1, <1>3 DEF CloserOf, Closers
  <2>2. TakeFirst(s, t, 0) = TakeValue(s, t, 0)
    BY <2>1, Zenon DEF TakeFirst
  <2>3. s.at \notin {"root", "value"} /\ s.at = "first"
    BY <1>1, <1>3
  <2>. QED
    BY <2>2, <2>3, Zenon DEF TokenStep
<1>. QED
  BY <1>2, <1>3 DEF ValueAwaited

(* The host's calls are accepted.                                          *)
LEMMA NoRefusal ==
    ASSUME NEW log \in Seq(CallRecord), NEW c \in CallRecord, c.reply = "ok",
           c.call # "checkpoint"
    PROVE  /\ RefusesAt(Append(log, c), 0)
           /\ Delivered(log) = log => Delivered(Append(log, c)) = Append(log, c)
<1>1. Delivered(Append(log, c)) = Append(Delivered(log), c)
  BY DeliveredMore
<1>2. Append(log, c)[Len(Append(log, c))] = c
  BY AppendProperties
<1>3. Len(Append(Delivered(log), c)) # 0
  <2>. DEFINE checkpoints == {x \in CallRecord : x.call = "checkpoint"}
  <2>1. Delivered(log) \in Seq(CallRecord \ checkpoints)
    BY WithoutType DEF Delivered
  <2>2. Delivered(log) \in Seq(CallRecord)
    BY <2>1
  <2>. QED
    BY <2>2, AppendProperties, LenProperties
<1>. QED
  BY <1>1, <1>2, <1>3 DEF RefusesAt

(* A scalar read.                                                          *)
LEMMA ScalarRead ==
    ASSUME SinkTypeOK, NEW text \in Seq(Token), NEW place, ValueAwaited(place),
           ReadTo(text, place, open, vals, calls), NEW t \in PlainScalars, SinkScalar(t)
    PROVE  ReadTo(Append(text, t), Behind(open), open', vals', calls')
<1>1. t \in Token /\ t \notin Closers /\ t \notin Openers /\ place # "finish"
  BY DEF PlainScalars, Token, Scalars, Closers, Openers, ValueAwaited
<1>2. RefusesAt(calls', 0)
  <2>1. ScalarCall(t) \in CallRecord /\ ScalarCall(t).reply = "ok" /\ ScalarCall(t).call = "scalar"
    BY <1>1, CallFacts
  <2>. QED
    BY <2>1, NoRefusal DEF SinkTypeOK, SinkScalar
<1>3. ASSUME NEW s, IsReading(s, place, Len(text), open, vals, calls)
      PROVE  IsReading(TokenStep(s, t, 0), Behind(open), Len(text) + 1, open', vals', calls')
  <2>1. ShowsParsing(s, place, Len(text))
    BY <1>3, Zenon DEF IsReading, ShowsParsing
  <2>2. TakeValue(s, t, 0) = TakeScalar(s, t, 0)
    BY <1>1, Zenon DEF TakeValue
  <2>3. TokenStep(s, t, 0) = TakeScalar(s, t, 0)
    BY <1>1, <1>3, <2>2, ValueTaken, Zenon
  <2>4. IsState(TakeScalar(s, t, 0), Behind(open), Len(text) + 1, open', vals', calls', "parsing", 0)
    BY <1>1, <1>2, <2>1, ScalarShown, Zenon
  <2>. QED
    BY <2>3, <2>4, Zenon DEF IsReading
<1>. QED
  BY <1>1, <1>3, TokenRead, Zenon

(* The opener of a container read.                                         *)
LEMMA OpenerRead ==
    ASSUME SinkTypeOK, NEW text \in Seq(Token), NEW place, ValueAwaited(place),
           ReadTo(text, place, open, vals, calls), NEW k \in Kinds, SinkBegin(k)
    PROVE  ReadTo(Append(text, Opener(k)), "first", open', vals', calls')
<1>. DEFINE t == Opener(k)
<1>1. /\ t \in Token /\ t \notin Closers /\ t \in Openers /\ KindOf(t) = k /\ place # "finish"
  BY DEF Opener, Kinds, Token, Delimiter, Closers, Openers, KindOf, ValueAwaited
<1>2. RefusesAt(calls', 0)
  <2>1. BeginCall(k) \in CallRecord /\ BeginCall(k).reply = "ok" /\ BeginCall(k).call = "begin"
    BY CallFacts
  <2>. QED
    BY <2>1, NoRefusal DEF SinkTypeOK, SinkBegin
<1>. HIDE DEF t
<1>3. ASSUME NEW s, IsReading(s, place, Len(text), open, vals, calls)
      PROVE  IsReading(TokenStep(s, t, 0), "first", Len(text) + 1, open', vals', calls')
  <2>1. ShowsParsing(s, place, Len(text))
    BY <1>3, Zenon DEF IsReading, ShowsParsing
  <2>2. TakeValue(s, t, 0) = TakeOpener(s, t, 0)
    BY <1>1, Zenon DEF TakeValue
  <2>3. TokenStep(s, t, 0) = TakeOpener(s, t, 0)
    BY <1>1, <1>3, <2>2, ValueTaken, Zenon
  <2>4. SinkBegin(KindOf(t))
    BY <1>1
  <2>5. IsState(TakeOpener(s, t, 0), "first", Len(text) + 1, open', vals', calls', "parsing", 0)
    BY <1>1, <1>2, <2>1, <2>4, BeginShown, Zenon
  <2>. QED
    BY <2>3, <2>5, Zenon DEF IsReading
<1>4. ReadTo(Append(text, t), "first", open', vals', calls')
  BY <1>1, <1>3, TokenRead, Zenon
<1>. QED
  BY <1>4 DEF t

(* A separator read.                                                       *)
LEMMA SeparatorRead ==
    ASSUME NEW text \in Seq(Token), ReadTo(text, "after", open, vals, calls)
    PROVE  ReadTo(Append(text, ","), IF Top(open).kind = "object" THEN "key" ELSE "value",
                  open, vals, calls)
<1>. DEFINE place == IF Top(open).kind = "object" THEN "key" ELSE "value"
<1>1. "," \in Token /\ place \in Places
  BY DEF Token, Delimiter, Places
<1>2. ASSUME NEW s, IsReading(s, "after", Len(text), open, vals, calls)
      PROVE  IsReading(TokenStep(s, ",", 0), place, Len(text) + 1, open, vals, calls)
  <2>1. s.at = "after" /\ s.open = open
    BY <1>2 DEF IsReading, IsState
  <2>2. TokenStep(s, ",", 0) = Moving(s, place)
    <3>1. TokenStep(s, ",", 0) = TakeSeparator(s, ",", 0)
      BY <2>1 DEF TokenStep
    <3>. QED
      BY <2>1, <3>1, Zenon DEF TakeSeparator
  <2>. HIDE DEF place
  <2>3. IsState(Moving(s, place), place, Len(text) + 1, open, vals, calls, "parsing", 0)
    BY <1>1, <1>2, MovedState, Zenon DEF IsReading
  <2>. QED
    BY <2>2, <2>3, Zenon DEF IsReading
<1>3. ReadTo(Append(text, ","), place, open, vals, calls)
  <2>. HIDE DEF place
  <2>1. "after" # "finish"
    OBVIOUS
  <2>. QED
    BY <1>1, <1>2, <2>1, TokenRead, Zenon
<1>. QED
  BY <1>3

(* A key and its colon read.                                               *)
LEMMA KeyRead ==
    ASSUME SinkTypeOK, open # <<>>, Top(open).kind = "object", NEW text \in Seq(Token),
           NEW place \in {"first", "key"}, ReadTo(text, place, open, vals, calls),
           NEW t \in KeyText, SinkKey(t)
    PROVE  ReadTo(Append(Append(text, t), ":"), "value", open', vals', calls')
<1>0. /\ t \in Token /\ ":" \in Token /\ t # "}" /\ place # "finish"
  BY DEF KeyText, Token, Delimiter, Scalars, PlainScalars
<1>1. /\ t \in Token /\ ":" \in Token /\ t # "}" /\ place # "finish"
      /\ Append(text, t) \in Seq(Token) /\ Len(Append(text, t)) = Len(text) + 1
  BY <1>0, AppendProperties
<1>2. RefusesAt(calls', 0)
  <2>1. KeyCall(t) \in CallRecord /\ KeyCall(t).reply = "ok" /\ KeyCall(t).call = "key"
    BY <1>1, CallFacts
  <2>. QED
    BY <2>1, NoRefusal DEF SinkTypeOK, SinkKey
<1>3. ASSUME NEW s, IsReading(s, place, Len(text), open, vals, calls)
      PROVE  IsReading(TokenStep(s, t, 0), "colon", Len(text) + 1, open', vals', calls')
  <2>1. ShowsParsing(s, place, Len(text)) /\ s.at = place /\ s.open = open
    BY <1>3, Zenon DEF IsReading, ShowsParsing, IsState
  <2>2. TokenStep(s, t, 0) = TakeKey(s, t, 0)
    BY <1>1, <2>1 DEF TokenStep, TakeFirst, CloserOf
  <2>3. IsState(TakeKey(s, t, 0), "colon", Len(text) + 1, open', vals', calls', "parsing", 0)
    BY <1>2, <2>1, KeyShown, Zenon
  <2>. QED
    BY <2>2, <2>3, Zenon DEF IsReading
<1>4. ReadTo(Append(text, t), "colon", open', vals', calls')
  BY <1>1, <1>3, TokenRead, Zenon
<1>5. ASSUME NEW s, IsReading(s, "colon", Len(Append(text, t)), open', vals', calls')
      PROVE  IsReading(TokenStep(s, ":", 0), "value", Len(Append(text, t)) + 1, open', vals', calls')
  <2>1. s.at = "colon"
    BY <1>5 DEF IsReading, IsState
  <2>2. TokenStep(s, ":", 0) = Moving(s, "value") /\ "value" \in Places
    BY <2>1 DEF TokenStep, TakeColon, Places
  <2>3. IsState(Moving(s, "value"), "value", Len(Append(text, t)) + 1, open', vals', calls',
                "parsing", 0)
    BY <1>5, <2>2, MovedState, Zenon DEF IsReading
  <2>. QED
    BY <2>2, <2>3, Zenon DEF IsReading
<1>6. "colon" # "finish"
  OBVIOUS
<1>. QED
  BY <1>1, <1>4, <1>5, <1>6, TokenRead, Zenon

(* The closer of a container read.                                         *)
LEMMA CloserRead ==
    ASSUME SinkTypeOK, open # <<>>, NEW text \in Seq(Token), NEW place \in {"first", "after"},
           ReadTo(text, place, open, vals, calls),
           SinkEnd(Top(open).kind, Top(open).mark, Top(open).len)
    PROVE  ReadTo(Append(text, CloserOf(Top(open).kind)), Behind(Pop(open)), open', vals', calls')
<1>. DEFINE t == CloserOf(Top(open).kind)
<1>1. t \in Token /\ t # "," /\ place # "finish"
  BY DEF CloserOf, Token, Delimiter, Closers
<1>2. RefusesAt(calls', 0)
  <2>. DEFINE c == EndCall(Top(open).kind, Top(open).mark, Top(open).len)
  <2>1. c \in CallRecord /\ c.reply = "ok" /\ c.call = "end"
    BY TopFields, CallFacts
  <2>2. calls' = Append(calls, c)
    BY DEF SinkEnd
  <2>. HIDE DEF c
  <2>. QED
    BY <2>1, <2>2, NoRefusal DEF SinkTypeOK
<1>3. ASSUME NEW s, IsReading(s, place, Len(text), open, vals, calls)
      PROVE  IsReading(TokenStep(s, t, 0), Behind(Pop(open)), Len(text) + 1, open', vals', calls')
  <2>1. ShowsParsing(s, place, Len(text)) /\ s.at = place /\ s.open = open
    BY <1>3, Zenon DEF IsReading, ShowsParsing, IsState
  <2>2. TokenStep(s, t, 0) = TakeCloser(s, 0)
    BY <1>1, <2>1 DEF TokenStep, TakeFirst, TakeSeparator
  <2>3. IsState(TakeCloser(s, 0), Behind(Pop(open)), Len(text) + 1, open', vals', calls',
                "parsing", 0)
    BY <1>2, <2>1, EndShown, Zenon
  <2>. QED
    BY <2>2, <2>3, Zenon DEF IsReading
<1>. HIDE DEF t
<1>4. ReadTo(Append(text, t), Behind(Pop(open)), open', vals', calls')
  BY <1>1, <1>3, TokenRead, Zenon
<1>. QED
  BY <1>4 DEF t

-----------------------------------------------------------------------------
(* The legal calls keep the text readable.                                 *)

(* A value's call: where the parse waits for it, the separator read.       *)
LEMMA ValueCall ==
    ASSUME WInv, Legal, Readable, ValueExpected, NEW t \in Token
    PROVE  \E text \in Seq(Token) : \E place :
              /\ TokensOf(out \o ValuePrefix \o <<t>>) = Append(text, t)
              /\ ValueAwaited(place) /\ ReadTo(text, place, open, vals, calls)
<1>. DEFINE text == TokensOf(out)
<1>1. /\ TypeOK /\ text \in Seq(Token) /\ depth \in Nat /\ first \in BOOLEAN /\ after_key \in BOOLEAN
      /\ ReadTo(text, HostPlace, open, vals, calls)
  BY TokensTyped DEF WInv, TypeOK, Readable
<1>2. /\ depth = Len(open)
      /\ after_key <=> open # <<>> /\ Top(open).keys > Top(open).len
      /\ first <=> IF open = <<>> THEN calls = <<>>
                                  ELSE Top(open).keys = 0 /\ Top(open).len = 0
  BY DEF WInv, RegistersMatchNesting
<1>3. TokensOf(out \o ValuePrefix \o <<t>>) =
          Append(IF after_key \/ depth = 0 \/ first THEN text ELSE Append(text, ","), t)
  BY <1>1, ValueAdded
<1>. HIDE DEF text
<1>4. CASE open = <<>>
  <2>1. depth = 0 /\ HostPlace = "root"
    BY <1>2, <1>4 DEF HostPlace, ValueExpected
  <2>2. ValueAwaited("root")
    BY DEF ValueAwaited
  <2>. QED
    BY <1>1, <1>3, <2>1, <2>2
<1>5. CASE open # <<>> /\ Top(open).kind = "object"
  <2>1. Top(open).len \in Nat /\ Top(open).keys = Top(open).len + 1
    BY <1>5, TopRecord DEF ValueExpected, Container
  <2>2. after_key /\ ~ first
    BY <1>2, <1>5, <2>1
  <2>3. HostPlace = "value" /\ ValueAwaited("value")
    BY <1>5, <2>2 DEF HostPlace, ValueAwaited
  <2>. QED
    BY <1>1, <1>3, <2>2, <2>3
<1>6. CASE open # <<>> /\ Top(open).kind = "array"
  <2>1. Top(open).keys = 0 /\ Top(open).len \in Nat /\ Len(open) \in Nat \ {0}
    BY <1>6, TopRecord DEF Container
  <2>2. ~ after_key /\ depth # 0
    BY <1>2, <2>1
  <2>3. CASE first
    <3>1. HostPlace = "first" /\ ValueAwaited("first")
      BY <1>6, <2>3 DEF HostPlace, ValueAwaited
    <3>. QED
      BY <1>1, <1>3, <2>3, <3>1
  <2>4. CASE ~ first
    <3>1. HostPlace = "after" /\ ValueAwaited("value")
      BY <1>6, <2>2, <2>4 DEF HostPlace, ValueAwaited
    <3>2. ReadTo(Append(text, ","), "value", open, vals, calls)
      BY <1>1, <1>6, <3>1, SeparatorRead
    <3>3. Append(text, ",") \in Seq(Token)
      <4>1. "," \in Token
        BY DEF Token, Delimiter
      <4>. QED
        BY <1>1, <4>1, AppendProperties
    <3>. QED
      BY <1>3, <2>2, <2>4, <3>1, <3>2, <3>3
  <2>. QED
    BY <2>3, <2>4
<1>. QED
  BY <1>4, <1>5, <1>6 DEF ValueExpected

(* A scalar.                                                               *)
LEMMA ScalarKeepsReadable ==
    ASSUME WInv, Readable, NEW t \in Texts, Scalar(t)
    PROVE  Readable'
<1>1. /\ t \in PlainScalars /\ t \in Token /\ Legal /\ Legal' /\ ValueExpected
      /\ SinkScalar(t) /\ WriteScalar(t)
  BY TextsAssumption DEF Scalar, LegalCall, Legal, Token, Scalars, PlainScalars
<1>2. PICK text \in Seq(Token) : \E place :
          /\ TokensOf(out \o ValuePrefix \o <<t>>) = Append(text, t)
          /\ ValueAwaited(place) /\ ReadTo(text, place, open, vals, calls)
  BY <1>1, ValueCall
<1>2a. PICK place :
          /\ TokensOf(out \o ValuePrefix \o <<t>>) = Append(text, t)
          /\ ValueAwaited(place) /\ ReadTo(text, place, open, vals, calls)
  BY <1>2
<1>3. SinkTypeOK /\ calls \in Seq(CallRecord)
  BY DEF WInv, TypeOK, SinkTypeOK
<1>4. ReadTo(Append(text, t), Behind(open), open', vals', calls')
  BY <1>1, <1>3, <1>2a, ScalarRead, Zenon
<1>5. TokensOf(out') = Append(text, t)
  BY <1>1, <1>2a DEF WriteScalar
<1>6. HostPlace' = Behind(open)
  <2>1. /\ calls' # <<>> /\ (open = <<>> => open' = <<>>) /\ (open # <<>> => open' # <<>>)
    BY <1>1, <1>3, SinkScalarFacts
  <2>2. first' = FALSE /\ after_key' = FALSE
    BY <1>1, PrefixClearsFirst DEF WriteScalar
  <2>. QED
    BY <2>1, <2>2 DEF HostPlace, Behind
<1>7. Delivered(calls') = calls'
  <2>1. ScalarCall(t) \in CallRecord /\ ScalarCall(t).reply = "ok" /\ ScalarCall(t).call = "scalar"
    BY <1>1, CallFacts
  <2>. QED
    BY <1>1, <1>3, <2>1, NoRefusal DEF SinkScalar, Readable
<1>. QED
  BY <1>4, <1>5, <1>6, <1>7, Zenon DEF Readable

(* A container begun.                                                      *)
LEMMA BeginKeepsReadable ==
    ASSUME WInv, Readable, NEW k \in Kinds, Begin(k)
    PROVE  Readable'
<1>1. /\ Legal /\ Legal' /\ ValueExpected /\ SinkBegin(k) /\ WriteBegin(k)
      /\ Opener(k) \in Token
  BY DEF Begin, LegalCall, Legal, Opener, Token, Delimiter, Openers
<1>2. PICK text \in Seq(Token) : \E place :
          /\ TokensOf(out \o ValuePrefix \o <<Opener(k)>>) = Append(text, Opener(k))
          /\ ValueAwaited(place) /\ ReadTo(text, place, open, vals, calls)
  BY <1>1, ValueCall
<1>2a. PICK place :
          /\ TokensOf(out \o ValuePrefix \o <<Opener(k)>>) = Append(text, Opener(k))
          /\ ValueAwaited(place) /\ ReadTo(text, place, open, vals, calls)
  BY <1>2
<1>3. SinkTypeOK /\ calls \in Seq(CallRecord)
  BY DEF WInv, TypeOK, SinkTypeOK
<1>4. ReadTo(Append(text, Opener(k)), "first", open', vals', calls')
  BY <1>1, <1>3, <1>2a, OpenerRead, Zenon
<1>5. TokensOf(out') = Append(text, Opener(k))
  BY <1>1, <1>2a DEF WriteBegin
<1>6. HostPlace' = "first"
  <2>1. open' # <<>> /\ first' = TRUE
    BY <1>1, <1>3, SinkBeginFacts DEF WriteBegin
  <2>. QED
    BY <2>1 DEF HostPlace
<1>7. Delivered(calls') = calls'
  <2>1. BeginCall(k) \in CallRecord /\ BeginCall(k).reply = "ok" /\ BeginCall(k).call = "begin"
    BY CallFacts
  <2>. QED
    BY <1>1, <1>3, <2>1, NoRefusal DEF SinkBegin, Readable
<1>. QED
  BY <1>4, <1>5, <1>6, <1>7, Zenon DEF Readable

(* A key.                                                                  *)
LEMMA KeyKeepsReadable ==
    ASSUME WInv, Readable, Key("str")
    PROVE  Readable'
<1>. DEFINE text == TokensOf(out)
            before == IF first THEN text ELSE Append(text, ",")
<1>1. /\ "str" \in Token /\ "str" \in KeyText /\ Legal /\ Legal' /\ KeyExpected
      /\ SinkKey("str") /\ WriteKey("str")
  BY DEF Key, LegalCall, Legal, Token, Scalars, PlainScalars, KeyText
<1>2. /\ TypeOK /\ SinkTypeOK /\ text \in Seq(Token) /\ calls \in Seq(CallRecord)
      /\ ReadTo(text, HostPlace, open, vals, calls)
  BY <1>1, TokensTyped DEF WInv, TypeOK, Readable, SinkTypeOK
<1>3. open # <<>> /\ Top(open).kind = "object" /\ Top(open).keys = Top(open).len
  BY <1>1 DEF KeyExpected
<1>4. ~ after_key
  <2>1. Top(open).len \in Nat
    BY <1>1, <1>3, TopRecord DEF Container
  <2>2. ~ (Top(open).keys > Top(open).len)
    BY <1>3, <2>1
  <2>. QED
    BY <1>1, <2>2 DEF WInv, RegistersMatchNesting
<1>5. TokensOf(out') = Append(Append(before, "str"), ":")
  BY <1>1, <1>2, KeyAdded DEF WriteKey
<1>6. before \in Seq(Token) /\ \E place \in {"first", "key"} : ReadTo(before, place, open, vals, calls)
  <2>1. CASE first
    <3>1. HostPlace = "first" /\ before = text
      BY <1>3, <2>1 DEF HostPlace
    <3>. HIDE DEF before, text
    <3>. QED
      BY <1>2, <3>1
  <2>2. CASE ~ first
    <3>1. HostPlace = "after" /\ before = Append(text, ",") /\ "," \in Token
      BY <1>3, <1>4, <2>2 DEF HostPlace, Token, Delimiter
    <3>. HIDE DEF before, text
    <3>2. ReadTo(before, "key", open, vals, calls)
      BY <1>2, <1>3, <3>1, SeparatorRead
    <3>3. before \in Seq(Token)
      BY <1>2, <3>1, AppendProperties
    <3>. QED
      BY <3>2, <3>3
  <2>. QED
    BY <2>1, <2>2
<1>. HIDE DEF before, text
<1>7. PICK place \in {"first", "key"} : ReadTo(before, place, open, vals, calls)
  BY <1>6
<1>8. ReadTo(Append(Append(before, "str"), ":"), "value", open', vals', calls')
  BY <1>1, <1>2, <1>3, <1>6, <1>7, KeyRead, Zenon
<1>9. HostPlace' = "value"
  <2>1. open' # <<>>
    BY <1>1, <1>2, <1>3, SinkKeyFacts
  <2>2. first' = FALSE /\ after_key' = TRUE
    BY <1>1 DEF WriteKey
  <2>. QED
    BY <2>1, <2>2 DEF HostPlace
<1>10. Delivered(calls') = calls'
  <2>1. KeyCall("str") \in CallRecord /\ KeyCall("str").reply = "ok" /\ KeyCall("str").call = "key"
    BY <1>1, CallFacts
  <2>. QED
    BY <1>1, <1>2, <2>1, NoRefusal DEF SinkKey, Readable
<1>. QED
  BY <1>5, <1>8, <1>9, <1>10, Zenon DEF Readable

(* The end of a container.                                                 *)
LEMMA EndKeepsReadable ==
    ASSUME WInv, Readable, End
    PROVE  Readable'
<1>. DEFINE text == TokensOf(out)
<1>1. /\ Legal /\ Legal' /\ EndExpected /\ WriteEnd(Top(open).kind)
      /\ SinkEnd(Top(open).kind, Top(open).mark, Top(open).len)
  BY DEF End, LegalCall, Legal
<1>2. /\ TypeOK /\ SinkTypeOK /\ text \in Seq(Token) /\ calls \in Seq(CallRecord)
      /\ ReadTo(text, HostPlace, open, vals, calls)
  BY <1>1, TokensTyped DEF WInv, TypeOK, Readable, SinkTypeOK
<1>3. /\ open # <<>> /\ Top(open).kind \in Kinds
      /\ Top(open).mark \in Nat /\ Top(open).len \in Nat
  BY <1>1, <1>2, TopFields DEF EndExpected, KeyExpected
<1>4. after_key = FALSE
  <2>1. Top(open).kind = "array" => Top(open).keys = 0
    BY <1>1, <1>3, TopRecord
  <2>2. ~ (Top(open).keys > Top(open).len)
    BY <1>1, <1>3, <2>1 DEF EndExpected, KeyExpected
  <2>. QED
    BY <1>1, <2>2 DEF WInv, RegistersMatchNesting, TypeOK
<1>5. TokensOf(out') = Append(text, CloserOf(Top(open).kind))
  <2>1. CloserOf(Top(open).kind) \in Token
    BY DEF CloserOf, Token, Delimiter, Closers
  <2>. QED
    BY <1>1, <1>2, <1>3, <2>1, CloserAdded DEF WriteEnd
<1>6. HostPlace \in {"first", "after"}
  BY <1>3, <1>4 DEF HostPlace
<1>. HIDE DEF text
<1>7. ReadTo(Append(text, CloserOf(Top(open).kind)), Behind(Pop(open)), open', vals', calls')
  BY <1>1, <1>2, <1>3, <1>6, CloserRead, Zenon
<1>8. HostPlace' = Behind(Pop(open))
  <2>1. first' = FALSE /\ after_key' = FALSE
    BY <1>1, <1>4 DEF WriteEnd
  <2>2. calls' # <<>> /\ open' = WithValue(Pop(open))
    BY <1>1 DEF SinkEnd
  <2>3. Pop(open) \in Seq(Container) 
    BY <1>2, <1>3, PopFacts DEF SinkTypeOK
  <2>4. open' = <<>> <=> Pop(open) = <<>>
    BY <2>2, <2>3, WithValueFacts
  <2>. QED
    BY <2>1, <2>2, <2>4 DEF HostPlace, Behind
<1>9. Delivered(calls') = calls'
  <2>. DEFINE c == EndCall(Top(open).kind, Top(open).mark, Top(open).len)
  <2>1. c \in CallRecord /\ c.reply = "ok" /\ c.call = "end"
    BY <1>3, CallFacts
  <2>2. calls' = Append(calls, c) /\ Delivered(calls) = calls
    BY <1>1 DEF SinkEnd, Readable
  <2>. HIDE DEF c
  <2>. QED
    BY <1>2, <2>1, <2>2, NoRefusal
<1>. QED
  BY <1>5, <1>7, <1>8, <1>9, Zenon DEF Readable

(* Nothing written yet.                                                    *)
LEMMA BlankReadable ==
    ASSUME out = <<>>, open = <<>>, vals = 0, calls = <<>>
    PROVE  Readable
<1>1. HostPlace = "root"
  BY DEF HostPlace
<1>2. TokensOf(out) = <<>> /\ Delivered(calls) = calls
  BY WithoutNone, DeliveredNone DEF TokensOf
<1>. QED
  BY <1>1, <1>2, NothingRead DEF Readable

(* Every step of the host and its writer keeps the text readable.          *)
LEMMA WriterReadable ==
    /\ Init => Readable
    /\ WInv /\ Readable /\ [Next]_vars => Readable'
<1>1. Init => Readable
  BY BlankReadable DEF Init
<1>2. NewWriter => Readable'
  <2>. SUFFICES ASSUME NewWriter PROVE Readable'
    OBVIOUS
  <2>1. out' = <<>> /\ open' = <<>> /\ vals' = 0 /\ calls' = <<>>
    BY DEF NewWriter, SinkStart
  <2>2. HostPlace' = "root"
    BY <2>1 DEF HostPlace
  <2>3. TokensOf(out') = <<>> /\ Delivered(calls') = calls'
    BY <2>1, WithoutNone, DeliveredNone DEF TokensOf
  <2>. QED
    BY <2>1, <2>2, <2>3, NothingRead DEF Readable
<1>3. ASSUME WInv, Readable, [Next]_vars PROVE Readable'
  <2>1. ASSUME NEW t \in Texts, Scalar(t) PROVE Readable'
    BY <1>3, <2>1, ScalarKeepsReadable
  <2>2. CASE Key("str")
    BY <1>3, <2>2, KeyKeepsReadable
  <2>3. ASSUME NEW k \in Kinds, Begin(k) PROVE Readable'
    BY <1>3, <2>3, BeginKeepsReadable
  <2>4. CASE End
    BY <1>3, <2>4, EndKeepsReadable
  <2>5. CASE FloatPanics \/ UNCHANGED vars
    <3>1. UNCHANGED <<out, first, after_key, misuses, open, vals, calls>>
      BY <2>5 DEF FloatPanics, writerVars, sinkVars, vars
    <3>2. (Legal' <=> Legal) /\ HostPlace' = HostPlace
      BY <3>1 DEF Legal, HostPlace
    <3>. QED
      BY <1>3, <3>1, <3>2, Zenon DEF Readable
  <2>6. CASE Misuse
    <3>1. misuses' # 0
      BY <1>3, <2>6 DEF Misuse, WInv, TypeOK
    <3>. QED
      BY <3>1 DEF Legal, Readable
  <2>7. CASE NewWriter
    BY <1>2, <2>7
  <2>. QED
    BY <1>3, <2>1, <2>2, <2>3, <2>4, <2>5, <2>6, <2>7 DEF Next
<1>. QED
  BY <1>1, <1>3

-----------------------------------------------------------------------------
(* The parse of the text.                                                  *)
CP == INSTANCE FusedCursorProofs WITH
        Docs <- Seq(Token), Options <- {Strict},
        mark <- pmark, kind <- pkind, open <- popen, vals <- pvals, calls <- pcalls

(* C and CP are the same cursor.                                           *)
LEMMA SameCursor ==
    /\ C!Init <=> CP!Init
    /\ C!Start <=> CP!Start
    /\ C!Step <=> CP!Step
    /\ C!Collect <=> CP!Collect
BY Zenon
   DEF C!Openers, CP!Openers, C!Closers, CP!Closers, C!Delimiter, CP!Delimiter,
       C!PlainScalars, CP!PlainScalars, C!NanKeywords, CP!NanKeywords, C!Scalars,
       CP!Scalars, C!Token, CP!Token, C!Quoted, CP!Quoted, C!KeyText, CP!KeyText, C!Kinds,
       CP!Kinds, C!KindOf, CP!KindOf, C!CloserOf, CP!CloserOf, C!Accepted, CP!Accepted,
       C!ValueError, CP!ValueError, C!ParseErrors, CP!ParseErrors, C!Top, CP!Top, C!Pop,
       CP!Pop, C!SetTop, CP!SetTop, C!Call, CP!Call, C!ScalarCall, CP!ScalarCall, C!KeyCall,
       CP!KeyCall, C!BeginCall, CP!BeginCall, C!EndCall, CP!EndCall, C!CheckpointCall,
       CP!CheckpointCall, C!OneMoreValue, CP!OneMoreValue, C!OneMoreKey, CP!OneMoreKey,
       C!WithValue, CP!WithValue, C!sinkVars, CP!sinkVars, C!Opened, CP!Opened, C!SinkStart,
       CP!SinkStart, C!SinkScalar, CP!SinkScalar, C!SinkKey, CP!SinkKey, C!SinkBegin,
       CP!SinkBegin, C!SinkEnd, CP!SinkEnd, C!SinkCheckpoint, CP!SinkCheckpoint,
       C!SinkRefuses, CP!SinkRefuses, C!ROOT_MARK, CP!ROOT_MARK, C!Strict, CP!Strict,
       C!RootFrame, CP!RootFrame, C!EmptyFlat, CP!EmptyFlat, C!CurrentFrame,
       CP!CurrentFrame, C!Running, CP!Running, C!Reading, CP!Reading, C!Tok, CP!Tok,
       C!ScalarTok, CP!ScalarTok, C!ErrorTok, CP!ErrorTok, C!AtRoot, CP!AtRoot, C!Return,
       CP!Return, C!Fail, CP!Fail, C!Continue, CP!Continue, C!RefusedBy, CP!RefusedBy,
       C!Consume, CP!Consume, C!Start, CP!Start, C!Collect, CP!Collect, C!UnexpectedEnd,
       CP!UnexpectedEnd, C!Finish, CP!Finish, C!Attempt, CP!Attempt, C!Descend, CP!Descend,
       C!FlatEnd, CP!FlatEnd, C!FlatElement, CP!FlatElement, C!EmitKey, CP!EmitKey,
       C!FlatMayClose, CP!FlatMayClose, C!FlatCloses, CP!FlatCloses, C!Flat, CP!Flat,
       C!FlatColon, CP!FlatColon, C!FlatValue, CP!FlatValue, C!CheckpointDue,
       CP!CheckpointDue, C!FlatComma, CP!FlatComma, C!FlatSeparator, CP!FlatSeparator,
       C!Root, CP!Root, C!MainEnd, CP!MainEnd, C!MainComma, CP!MainComma, C!Main, CP!Main,
       C!TrailingComma, CP!TrailingComma, C!MainKey, CP!MainKey, C!MainColon, CP!MainColon,
       C!CountElement, CP!CountElement, C!MainNext, CP!MainNext, C!MainValue, CP!MainValue,
       C!Step, CP!Step, C!InFlatLoop, CP!InFlatLoop, C!InMainLoop, CP!InMainLoop,
       C!Describes, CP!Describes, C!AncestorOf, CP!AncestorOf, C!CurrentOf, CP!CurrentOf,
       C!Innermost, CP!Innermost, C!Init, CP!Init

(* The parse is the same from either side.                                 *)
LEMMA SameParse ==
    ASSUME NEW s, NEW text, NEW n
    PROVE  CP!ParseStep(s, text, n) = ParseStep(s, text, n)
BY Zenon
   DEF Openers, CP!Openers, Closers, CP!Closers, Delimiter, CP!Delimiter, PlainScalars,
       CP!PlainScalars, NanKeywords, CP!NanKeywords, Scalars, CP!Scalars, Token, CP!Token,
       Quoted, CP!Quoted, KeyText, CP!KeyText, Kinds, CP!Kinds, KindOf, CP!KindOf, CloserOf,
       CP!CloserOf, Accepted, CP!Accepted, ValueError, CP!ValueError, ParseErrors,
       CP!ParseErrors, Top, CP!Top, Pop, CP!Pop, SetTop, CP!SetTop, Call, CP!Call,
       ScalarCall, CP!ScalarCall, KeyCall, CP!KeyCall, BeginCall, CP!BeginCall, EndCall,
       CP!EndCall, CheckpointCall, CP!CheckpointCall, OneMoreValue, CP!OneMoreValue,
       OneMoreKey, CP!OneMoreKey, WithValue, CP!WithValue, Returning, CP!Returning,
       Rejecting, CP!Rejecting, Moving, CP!Moving, Delivering, CP!Delivering, Behind,
       CP!Behind, TakeScalar, CP!TakeScalar, Begun, CP!Begun, TakeOpener, CP!TakeOpener,
       TakeValue, CP!TakeValue, KeyError, CP!KeyError, TakeKey, CP!TakeKey, TakeColon,
       CP!TakeColon, TakeCloser, CP!TakeCloser, TakeFirst, CP!TakeFirst, TakeSeparator,
       CP!TakeSeparator, TokenStep, CP!TokenStep, ParseStep, CP!ParseStep

(* So are the states of it.                                                *)
LEMMA SameStates == CP!ParseStates = ParseStates
BY Zenon
   DEF ParseStates, CP!ParseStates, Places, CP!Places, Container, CP!Container, CallRecord,
       CP!CallRecord, Kinds, CP!Kinds, ParseErrors, CP!ParseErrors, Token, CP!Token,
       Delimiter, CP!Delimiter, Scalars, CP!Scalars, PlainScalars, CP!PlainScalars,
       NanKeywords, CP!NanKeywords, Openers, CP!Openers, Closers, CP!Closers

(* And the first of them.                                                  *)
LEMMA SameUnread == CP!Unread = Unread
BY Zenon DEF Unread, CP!Unread

(* And the events of a log.                                                *)
LEMMA SameEventsOf ==
    ASSUME NEW log
    PROVE  CP!Delivered(log) = Delivered(log)
BY Zenon
   DEF Delivered, CP!Delivered, Without, CP!Without, CallRecord, CP!CallRecord, Kinds,
       CP!Kinds, Token, CP!Token, Delimiter, CP!Delimiter, Scalars, CP!Scalars,
       PlainScalars, CP!PlainScalars, NanKeywords, CP!NanKeywords, Openers, CP!Openers,
       Closers, CP!Closers

(* And the sink's refusals.                                                *)
LEMMA SameRefusals ==
    ASSUME NEW log, NEW n
    PROVE  RefusesAt(log, n) <=> CP!RefusesAt(log, n)
BY SameEventsOf, Zenon DEF RefusesAt, CP!RefusesAt

(* And the calls there are.                                                *)
LEMMA SameCalls == CP!CallRecord = CallRecord
BY Zenon
   DEF CallRecord, CP!CallRecord, Kinds, CP!Kinds, Token, CP!Token, Delimiter, CP!Delimiter,
       Scalars, CP!Scalars, PlainScalars, CP!PlainScalars, NanKeywords, CP!NanKeywords,
       Openers, CP!Openers, Closers, CP!Closers

(* What the documents and the period are assumed to be.                    *)
LEMMA SameAssumptions ==
    CP!DocsAssumption /\ CP!CheckpointAssumption /\ CP!OptionsAssumption
<1>1. CP!DocsAssumption
  BY DEF CP!DocsAssumption,
         Token, CP!Token, Delimiter, CP!Delimiter, Scalars, CP!Scalars, PlainScalars,
         CP!PlainScalars, NanKeywords, CP!NanKeywords, Openers, CP!Openers, Closers,
         CP!Closers
<1>2. CP!CheckpointAssumption
  BY CheckpointAssumption DEF CP!CheckpointAssumption
<1>3. CP!OptionsAssumption
  BY DEF CP!OptionsAssumption, Strict
<1>. QED
  BY <1>1, <1>2, <1>3

(* What the cursor shows of a state of the parse.                          *)
ParserShows(s) == IsState(s, CP!Place, pos, popen, pvals, pcalls, outcome, errorAt)

(* The two views of it, before and after a step.                           *)
LEMMA SameShows ==
    ASSUME NEW s
    PROVE  /\ ParserShows(s) <=> CP!Shows(s)
           /\ ParserShows(s)' <=> CP!Shows(s)'
BY SameStates, SameEventsOf, Zenon DEF ParserShows, CP!Shows, IsState, CP!IsState

-----------------------------------------------------------------------------
(* A finished text has one parse, which succeeds with what was read of it. *)
WholeParse(run, last, text, events) ==
    /\ IsParse(run, last, text, 0)
    /\ run[last].outcome = "ok" /\ run[last].events = events

LEMMA FinishedText ==
    ASSUME NEW text \in Seq(Token), NEW o, NEW v, NEW log, ReadTo(text, "finish", o, v, log)
    PROVE  \E last \in Nat : \E run : WholeParse(run, last, text, Delivered(log))
<1>. DEFINE n == Len(text)
<1>1. n \in Nat
  OBVIOUS
<1>2. PICK run : Reads(run, text) /\ IsReading(run[n], "finish", n, o, v, log)
  BY DEF ReadTo
<1>3. PICK s : s = run[n]
  OBVIOUS
<1>4. PICK u : u = Returning(s, "ok", 0)
  OBVIOUS
<1>5. /\ s \in ParseStates /\ s.outcome = "parsing" /\ s.at = "finish" /\ s.taken = n
      /\ s.events = Delivered(log)
  BY <1>2, <1>3 DEF IsReading, IsState
<1>6. u \in ParseStates /\ u.outcome = "ok" /\ u.events = s.events
  <2>1. "ok" \in ParseResults /\ 0 \in Nat
    BY DEF ParseResults
  <2>. QED
    BY <1>4, <1>5, <2>1, ReturningFacts
<1>7. ParseStep(s, text, 0) = u
  BY <1>1, <1>4, <1>5 DEF ParseStep
<1>. DEFINE whole == [j \in 0 .. n + 1 |-> IF j = n + 1 THEN u ELSE run[j]]
<1>. HIDE DEF n
<1>8. /\ run \in [0 .. n -> ParseStates] /\ run[0] = Unread
      /\ \A j \in 0 .. n - 1 :
            /\ run[j].outcome = "parsing" /\ run[j].at # "finish" /\ run[j].taken = j
            /\ run[j + 1] = TokenStep(run[j], text[j + 1], 0)
  BY <1>2 DEF Reads, n
<1>9. /\ whole \in [0 .. n + 1 -> ParseStates]
      /\ whole[n + 1] = u /\ \A j \in 0 .. n : whole[j] = run[j]
  BY <1>1, <1>6, <1>8
<1>. HIDE DEF whole
<1>10. ASSUME NEW j \in 0 .. (n + 1) - 1
       PROVE  whole[j].outcome = "parsing" /\ whole[j + 1] = ParseStep(whole[j], text, 0)
  <2>1. CASE j = n
    <3>1. whole[j] = s /\ whole[j + 1] = u
      BY <1>1, <1>3, <1>9, <2>1
    <3>. QED
      BY <1>5, <1>7, <3>1
  <2>2. CASE j # n
    <3>1. j \in 0 .. n - 1 /\ j \in 0 .. n /\ j + 1 \in 0 .. n
      BY <1>1, <2>2
    <3>2. whole[j] = run[j] /\ whole[j + 1] = run[j + 1]
      BY <1>9, <3>1
    <3>3. ParseStep(run[j], text, 0) = TokenStep(run[j], text[j + 1], 0)
      <4>1. run[j].at # "finish" /\ run[j].taken = j /\ j # Len(text)
        BY <1>8, <2>2, <3>1 DEF n
      <4>. QED
        BY <4>1, Zenon DEF ParseStep
    <3>. QED
      BY <1>8, <3>1, <3>2, <3>3
  <2>. QED
    BY <2>1, <2>2
<1>11. whole[0] = Unread
  <2>1. 0 \in 0 .. n
    BY <1>1
  <2>. QED
    BY <1>8, <1>9, <2>1
<1>12. n + 1 \in Nat /\ IsParse(whole, n + 1, text, 0)
  BY <1>1, <1>9, <1>10, <1>11 DEF IsParse
<1>. QED
  BY <1>5, <1>6, <1>9, <1>12 DEF WholeParse

(* Calls that were all accepted.                                           *)
LEMMA AllAccepted ==
    ASSUME NEW log \in Seq(CallRecord), \A j \in DOMAIN log : log[j].reply = "ok"
    PROVE  RefusesAt(log, 0)
<1>. SUFFICES ASSUME log # <<>> PROVE RefusesAt(log, 0)
  BY DEF RefusesAt
<1>1. PICK s \in Seq(CallRecord), c \in CallRecord : log = Append(s, c)
  BY SequenceEmptyOrAppend
<1>2. Len(log) \in DOMAIN log /\ log[Len(log)] = c
  BY <1>1, AppendProperties, LenProperties
<1>3. c.reply = "ok"
  BY <1>2
<1>4. CASE c.call = "checkpoint"
  BY <1>2, <1>3, <1>4 DEF RefusesAt
<1>5. CASE c.call # "checkpoint"
  BY <1>1, <1>3, <1>5, NoRefusal
<1>. QED
  BY <1>4, <1>5

-----------------------------------------------------------------------------
(* The text being parsed is that of a finished value; its parse is one the *)
(* cursor is in, and ends with the host's calls.                           *)
BeingRead ==
    outcome # "none" =>
        \E last \in Nat : \E run :
            /\ WholeParse(run, last, doc, calls)
            /\ \E k \in 0 .. last : ParserShows(run[k])

TripInv ==
    /\ WInv /\ Readable
    /\ CP!CInv /\ CP!SeparatorCounted /\ opts = Strict
    /\ BeingRead

(* What the cursor shows is its own.                                       *)
LEMMA ShowsKept ==
    ASSUME NEW s, UNCHANGED parserVars
    PROVE  ParserShows(s)' <=> ParserShows(s)
BY Zenon DEF parserVars, ParserShows, CP!Place, CP!FlatPlace

(* Nothing has been written.                                               *)
LEMMA InitTripInv == TripInit => TripInv
<1>. SUFFICES ASSUME TripInit PROVE TripInv
  OBVIOUS
<1>1. Init /\ CP!Init
  BY SameCursor, Zenon DEF TripInit
<1>2. WInv /\ Readable
  BY <1>1, InitWInv, WriterReadable
<1>3. CP!CInv /\ CP!SeparatorCounted
  BY <1>1, SameAssumptions, CP!InitCInv, CP!InitCounted
<1>4. outcome = "none" /\ opts = Strict
  BY <1>1 DEF CP!Init, CP!Strict, Strict
<1>. QED
  BY <1>2, <1>3, <1>4 DEF TripInv, BeingRead

(* The cursor's own invariant.                                             *)
LEMMA CursorKeeps ==
    ASSUME TripInv, C!Start \/ C!Step \/ C!Collect \/ UNCHANGED parserVars
    PROVE  CP!CInv' /\ CP!SeparatorCounted'
<1>1. [CP!Next]_(CP!vars)
  <2>1. CASE C!Start \/ C!Step \/ C!Collect
    BY <2>1, SameCursor, Zenon DEF CP!Next
  <2>2. CASE UNCHANGED parserVars
    BY <2>2 DEF parserVars, CP!vars
  <2>. QED
    BY <2>1, <2>2
<1>. QED
  BY <1>1, SameAssumptions, CP!NextCInv, CP!NextCounted DEF TripInv

(* The host writes on.                                                     *)
LEMMA WriteStep ==
    ASSUME TripInv, Write
    PROVE  TripInv'
<1>1. WInv' /\ Readable'
  BY NextWInv, WriterReadable DEF Write, TripInv
<1>2. CP!CInv' /\ CP!SeparatorCounted'
  BY CursorKeeps DEF Write
<1>3. outcome' = "none" /\ opts' = Strict
  BY DEF Write, parserVars, TripInv
<1>. QED
  BY <1>1, <1>2, <1>3 DEF TripInv, BeingRead

(* The text goes to parse.                                                 *)
LEMMA StartParseStep ==
    ASSUME TripInv, StartParse
    PROVE  TripInv'
<1>1. /\ CP!Start /\ Complete /\ doc' = TokensOf(out) /\ UNCHANGED vars /\ UNCHANGED calls
  BY SameCursor DEF StartParse, vars
<1>2. WInv' /\ Readable'
  BY <1>1, NextWInv, WriterReadable DEF TripInv
<1>3. CP!CInv' /\ CP!SeparatorCounted'
  BY CursorKeeps DEF StartParse
<1>4. opts' = Strict
  BY <1>1 DEF CP!Start
<1>5. TokensOf(out) \in Seq(Token)
  BY TokensTyped DEF TripInv, WInv, TypeOK
<1>6. PICK last \in Nat : \E run : WholeParse(run, last, doc', calls')
  <2>1. HostPlace = "finish" /\ Legal
    BY <1>1 DEF Complete, HostPlace
  <2>2. ReadTo(TokensOf(out), "finish", open, vals, calls) /\ Delivered(calls) = calls
    BY <2>1 DEF TripInv, Readable
  <2>3. \E l \in Nat : \E run : WholeParse(run, l, TokensOf(out), Delivered(calls))
    BY <1>5, <2>2, FinishedText, Zenon
  <2>. QED
    BY <1>1, <2>2, <2>3
<1>7. PICK run : WholeParse(run, last, doc', calls')
  BY <1>6
<1>8. ParserShows(Unread)'
  BY <1>1, SameAssumptions, SameUnread, SameShows, CP!StartShows DEF TripInv
<1>9. 0 \in 0 .. last /\ run[0] = Unread
  BY <1>7 DEF WholeParse, IsParse
<1>10. IsState(run[0], CP!Place', pos', popen', pvals', pcalls', outcome', errorAt')
  BY <1>8, <1>9, Zenon DEF ParserShows
<1>11. BeingRead'
  BY <1>7, <1>9, <1>10 DEF BeingRead, ParserShows
<1>. QED
  BY <1>2, <1>3, <1>4, <1>11 DEF TripInv

(* The parse goes on: the cursor stays where it is in the run of the text, *)
(* or goes on in it.                                                       *)
LEMMA ParseForward ==
    ASSUME TripInv, Parse
    PROVE  TripInv'
<1>1. /\ CP!Step /\ UNCHANGED vars /\ UNCHANGED calls
      /\ \A j \in DOMAIN pcalls' : pcalls'[j].reply = "ok"
  BY SameCursor DEF Parse, vars
<1>2. outcome = "parsing" /\ UNCHANGED <<doc, opts>> /\ opts = CP!Strict
  BY <1>1, SameAssumptions, CP!StepRuns DEF TripInv, Strict, CP!Strict
<1>3. WInv' /\ Readable'
  BY <1>1, NextWInv, WriterReadable DEF TripInv
<1>4. CP!CInv' /\ CP!SeparatorCounted'
  BY CursorKeeps DEF Parse
<1>5. CP!RefusesAt(pcalls', 0)
  <2>1. pcalls' \in Seq(CallRecord)
    BY <1>4, SameCalls DEF CP!CInv, CP!TypeOK, CP!SinkTypeOK
  <2>. QED
    BY <1>1, <2>1, AllAccepted, SameRefusals
<1>6. PICK last \in Nat : \E run : /\ WholeParse(run, last, doc, calls)
                                   /\ \E k \in 0 .. last : ParserShows(run[k])
  BY <1>2 DEF TripInv, BeingRead
<1>7. PICK run : /\ WholeParse(run, last, doc, calls)
                 /\ \E k \in 0 .. last : ParserShows(run[k])
  BY <1>6
<1>8. PICK k \in 0 .. last : ParserShows(run[k])
  BY <1>7
<1>9. PICK s : s = run[k]
  OBVIOUS
<1>10. PICK u : u = CP!ParseStep(s, doc, 0)
  OBVIOUS
<1>11. CP!Shows(s)
  BY <1>8, <1>9, SameShows, Zenon
<1>12. CP!Shows(s)' \/ CP!Shows(u)'
  BY <1>1, <1>2, <1>5, <1>10, <1>11, SameAssumptions, SpillsAssumption, CP!StepFollows
     DEF TripInv
<1>13. ParserShows(s)' \/ ParserShows(u)'
  BY <1>12, SameShows, Zenon
<1>14. k + 1 \in 0 .. last /\ run[k + 1] = u
  <2>1. s.outcome = "parsing"
    BY <1>2, <1>8, <1>9 DEF ParserShows, IsState
  <2>2. run[last].outcome = "ok"
    BY <1>7 DEF WholeParse
  <2>3. k # last
    BY <1>9, <2>1, <2>2
  <2>4. k \in 0 .. last - 1 /\ k + 1 \in 0 .. last
    BY <2>3
  <2>5. run[k + 1] = ParseStep(s, doc, 0)
    BY <1>7, <1>9, <2>4, Zenon DEF WholeParse, IsParse
  <2>. QED
    BY <1>10, <2>4, <2>5, SameParse
<1>15. \E m \in 0 .. last : IsState(run[m], CP!Place', pos', popen', pvals', pcalls', outcome',
                                   errorAt')
  <2>1. CASE ParserShows(s)'
    BY <1>9, <2>1, Zenon DEF ParserShows
  <2>2. CASE ParserShows(u)'
    BY <1>14, <2>2, Zenon DEF ParserShows
  <2>. QED
    BY <1>13, <2>1, <2>2
<1>16. BeingRead'
  BY <1>1, <1>2, <1>7, <1>15 DEF BeingRead, ParserShows
<1>. QED
  BY <1>2, <1>3, <1>4, <1>16 DEF TripInv

(* The values have been compared.                                          *)
LEMMA NextRoundStep ==
    ASSUME TripInv, NextRound
    PROVE  TripInv'
<1>1. WInv' /\ Readable'
  BY NextWInv, WriterReadable DEF NextRound, Next, TripInv
<1>2. CP!CInv' /\ CP!SeparatorCounted'
  BY CursorKeeps DEF NextRound
<1>3. outcome' = "none" /\ opts' = Strict
  BY DEF NextRound, C!Collect, C!Strict, Strict
<1>. QED
  BY <1>1, <1>2, <1>3 DEF TripInv, BeingRead

(* The invariant is inductive.                                             *)
LEMMA NextTripInv ==
    ASSUME TripInv, [TripNext]_tripVars
    PROVE  TripInv'
<1>1. CASE UNCHANGED tripVars
  <2>1. UNCHANGED vars /\ UNCHANGED parserVars /\ UNCHANGED calls
    BY <1>1 DEF tripVars, vars
  <2>2. WInv' /\ Readable'
    BY <2>1, NextWInv, WriterReadable DEF TripInv
  <2>3. CP!CInv' /\ CP!SeparatorCounted'
    BY <2>1, CursorKeeps
  <2>4. UNCHANGED <<outcome, doc, opts>>
    BY <2>1 DEF parserVars
  <2>5. BeingRead'
    <3>1. \A s : ParserShows(s)' <=> ParserShows(s)
      BY <2>1, ShowsKept
    <3>. QED
      BY <2>1, <2>4, <3>1, Zenon DEF TripInv, BeingRead
  <2>. QED
    BY <2>2, <2>3, <2>4, <2>5 DEF TripInv
<1>. QED
  BY <1>1, WriteStep, StartParseStep, ParseForward, NextRoundStep DEF TripNext

(* "any value tree the writer serializes must parse back to the identical  *)
(* tree, in every layout configuration" (roundtrip.rs 1-2): whatever a     *)
(* legal host writes, in whatever layout, parses, and the calls the parser *)
(* makes are the host's, marks and counts included.                        *)
THEOREM WrittenTextParsesBack == TripSpec => []RoundTrips
<1>1. TripInv => RoundTrips
  <2>. SUFFICES ASSUME TripInv, outcome \notin {"none", "parsing"}
                PROVE  outcome = "ok" /\ Delivered(pcalls) = calls
    BY DEF RoundTrips
  <2>1. PICK last \in Nat : \E run : /\ WholeParse(run, last, doc, calls)
                                     /\ \E k \in 0 .. last : ParserShows(run[k])
    BY DEF TripInv, BeingRead
  <2>2. PICK run : /\ WholeParse(run, last, doc, calls)
                   /\ \E k \in 0 .. last : ParserShows(run[k])
    BY <2>1
  <2>3. PICK k \in 0 .. last : ParserShows(run[k])
    BY <2>2
  <2>4. k = last
    <3>1. run[k].outcome # "parsing"
      BY <2>3 DEF ParserShows, IsState
    <3>2. k \notin 0 .. last - 1
      BY <2>2, <3>1, Zenon DEF WholeParse, IsParse
    <3>. QED
      BY <3>2
  <2>. QED
    BY <2>2, <2>3, <2>4 DEF WholeParse, ParserShows, IsState
<1>. QED
  BY <1>1, InitTripInv, NextTripInv, PTL DEF TripSpec
=============================================================================
