------------------------------ MODULE RoundTrip ------------------------------
(***************************************************************************)
(* The writer and the parser back to back (fuzz target roundtrip): a host  *)
(* writes a value, the text goes to parse, and the calls that come back    *)
(* are compared with the calls that went in.                               *)
(***************************************************************************)
EXTENDS Writer

CONSTANT CheckpointEvery

ASSUME CheckpointAssumption == CheckpointEvery \in Nat \ {0}
(* The sink the values come back through keeps them until their container  *)
(* ends, as the host does: marks and counts are compared.                  *)
ASSUME SpillsAssumption == ~ Spills

VARIABLES
    doc, opts, pos, stack, pmark, cnt, pkind, flat, pc, outcome, errorAt, popen, pvals, pcalls

Strict == [allow_nan |-> FALSE, allow_trailing_comma |-> FALSE]

C == INSTANCE FusedCursor WITH
        Docs <- Seq(Token), Options <- {Strict},
        mark <- pmark, kind <- pkind, open <- popen, vals <- pvals, calls <- pcalls

parserVars ==
    <<doc, opts, pos, stack, pmark, cnt, pkind, flat, pc, outcome, errorAt, popen, pvals, pcalls>>
tripVars == <<vars, parserVars>>

TripInit == Init /\ C!Init

(* write_value walks the value, to its end or not; the parse has not begun.*)
Write ==
    /\ outcome = "none"
    /\ Next
    /\ UNCHANGED parserVars

(* What the parser sees of the text: layout is whitespace between tokens.  *)
StartParse ==
    /\ Complete
    /\ doc' = TokensOf(out)
    /\ C!Start
    /\ UNCHANGED vars

Parse ==
    /\ C!Step
    /\ \A i \in DOMAIN pcalls' : pcalls'[i].reply = "ok"
    /\ UNCHANGED vars

(* The values have been compared; another round over the same Buffers.     *)
NextRound == C!Collect /\ NewWriter

TripNext == Write \/ StartParse \/ Parse \/ NextRound

TripSpec == TripInit /\ [][TripNext]_tripVars

-----------------------------------------------------------------------------
(* "any value tree the writer serializes must parse back to the identical  *)
(* tree, in every layout configuration" (roundtrip.rs 1-2): the parse of a *)
(* finished text succeeds and makes the calls the host made, with the same *)
(* marks and counts.                                                       *)
RoundTrips ==
    /\ outcome \notin {"none", "parsing"} => outcome = "ok"
    /\ outcome = "ok" => Delivered(pcalls) = calls
=============================================================================
