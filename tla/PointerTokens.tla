---------------------------- MODULE PointerTokens ----------------------------
(***************************************************************************)
(* What both resolvers of pointer.rs share: how a value is stepped over,   *)
(* and how a pointer's tokens are read.  A document is a record: its       *)
(* tokens, and the names of the keys in it (a function on positions).      *)
(* Positions count from 1; whitespace is skipped before every token.       *)
(***************************************************************************)
EXTENDS Integers, FiniteSets, Sequences, Tokens

CONSTANTS RawTokens,  \* the tokens between the slashes of pointers
          Text,       \* what each is, unescaped: ~1 is a slash, ~0 a tilde
          Index       \* its reading as an array index, or NoIndex

NoIndex == -1

(* Only digits without a leading zero are an index.                        *)
ASSUME IndexAssumption == Index \in [RawTokens -> Nat \cup {NoIndex}]

(* A pointer is its tokens; one that is not empty and does not begin with  *)
(* a slash is malformed.                                                   *)
Malformed == <<"no slash">>
ASSUME MalformedAssumption == "no slash" \notin RawTokens

NoMatch == <<>>

At(d, i) == IF i <= Len(d) THEN d[i] ELSE "end"

-----------------------------------------------------------------------------
(* stage1::container_end as pointer.rs uses it: brackets are counted, not  *)
(* matched by kind, and nothing else is looked at.                         *)
Depth(d, i, j) ==
    Cardinality({k \in i .. j : d[k] \in Openers}) - Cardinality({k \in i .. j : d[k] \in Closers})

ContainerEnds(d, i) == {j \in i .. Len(d) : Depth(d, i, j) = 0}

First(S) == CHOOSE i \in S : \A j \in S : i <= j

(* value_end: the last token of the value at `i`...                        *)
ValueEnd(d, i) == IF d[i] \in Openers THEN First(ContainerEnds(d, i)) ELSE i

(* ...or its error, and the place of it.                                   *)
ValueFault(d, i, opts) ==
    LET t == At(d, i)
    IN  CASE t = "end" -> "unexpected_end"
          [] t \in Openers -> IF ContainerEnds(d, i) = {} THEN "unexpected_end" ELSE "none"
          [] t \in Accepted(opts.allow_nan) -> "none"
          [] OTHER -> ValueError(t)

FaultAt(d, i, fault) == IF fault = "unexpected_end" THEN Len(d) + 1 ELSE i

Slip_TrailingClose(d, i, opts, closer) ==  \* the array's closer for both
    opts.allow_trailing_comma /\ At(d, i) = "]"

(* trailing_close: `i` follows a comma.                                    *)
TrailingClose(d, i, opts, closer) == opts.allow_trailing_comma /\ At(d, i) = closer

(* A key that is not UTF-8 equals no pointer token.                        *)
KeyIs(d, names, i, raw) == d[i] = "str" /\ names[i] = Text[raw]
=============================================================================
