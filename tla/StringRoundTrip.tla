-------------------------- MODULE StringRoundTrip --------------------------
(***************************************************************************)
(* A string escaped by a host, between two quotes and with more text       *)
(* behind it, is the input of parse_string on a machine of the same kind;  *)
(* so are texts that no escaper wrote.                                     *)
(***************************************************************************)
EXTENDS Escape, StringToken

CONSTANTS Trailers,  \* what may follow the closing quote
          RawTexts   \* texts that start with a quote

ASSUME TrailersAssumption == Trailers \subseteq Seq(0..255)
ASSUME RawTextsAssumption == RawTexts \subseteq Seq(0..255) /\ \A t \in RawTexts : t # <<>>

StringsInit == EscapeInit /\ StringInit

ReadBack ==
    /\ step = "escaped" /\ decoding = "idle"
    /\ \E trailer \in Trailers : BeginString(Published(buf) \o <<QUOTE>> \o trailer, host)
    /\ UNCHANGED escapeVars

ReadRaw ==
    /\ step = "idle" /\ decoding = "idle"
    /\ \E text \in RawTexts : BeginString(text, host)
    /\ UNCHANGED escapeVars

Forget ==
    /\ decoding = "done"
    /\ EscapeForget /\ StringForget

StringsNext ==
    \/ decoding = "idle" /\ EscapeNext /\ UNCHANGED stringVars
    \/ ReadBack \/ ReadRaw \/ Forget
    \/ StringNext /\ UNCHANGED escapeVars

StringsSpec == StringsInit /\ [][StringsNext]_<<escapeVars, stringVars>>

(* What was escaped, under any mode and on any machine, is read back as    *)
(* the string it was, valid UTF-8 again, up to the closing quote (emit.rs  *)
(* 660-669, scalars.rs 300-408).                                           *)
ReadsBack ==
    step = "escaped" /\ decoding = "done" =>
        /\ result.kind \in {"borrowed", "decoded"}
        /\ result.content = bytes
        /\ result.end = buf.len + 1
=============================================================================
