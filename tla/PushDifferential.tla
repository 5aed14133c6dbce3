-------------------------- MODULE PushDifferential --------------------------
(***************************************************************************)
(* The two push parsers on one document, one after the other, over one     *)
(* Buffers: parse_indexed leaves its frames in the stack parse starts      *)
(* with.  Each gets a sink of its own; the two sinks are the same program: *)
(* they refuse their `limit`-th event (0: none) and let checkpoints pass.  *)
(***************************************************************************)
EXTENDS SinkCalls, Integers

CONSTANTS Docs, CheckpointEvery, Spills,
          Limits              \* the events a sink may refuse at

ASSUME DocsAssumption == Docs \subseteq Seq(Token)
ASSUME CheckpointAssumption == CheckpointEvery \in Nat \ {0}
ASSUME LimitsAssumption == Limits \subseteq Nat
(* A sink that spills at a checkpoint returns marks that tell when it did. *)
ASSUME SpillsAssumption == ~ Spills

VARIABLES
    stack,                                                \* Buffers::stack
    ddoc, dpos, dmark, dcnt, dkind, dpc, doutcome, derrorAt, dopen, dvals, dcalls,
    cdoc, copts, cpos, cmark, ccnt, ckind, cflat, cpc, coutcome, cerrorAt,
    copen, cvals, ccalls,
    limit

Strict == [allow_nan |-> FALSE, allow_trailing_comma |-> FALSE]

D == INSTANCE IndexedDriver WITH
        doc <- ddoc, pos <- dpos, mark <- dmark, cnt <- dcnt, kind <- dkind, pc <- dpc,
        outcome <- doutcome, errorAt <- derrorAt, open <- dopen, vals <- dvals, calls <- dcalls

C == INSTANCE FusedCursor WITH
        Docs <- Seq(Token), Options <- {Strict}, doc <- cdoc, opts <- copts, pos <- cpos, mark <- cmark,
        cnt <- ccnt, kind <- ckind, flat <- cflat, pc <- cpc, outcome <- coutcome,
        errorAt <- cerrorAt, open <- copen, vals <- cvals, calls <- ccalls

dVars == <<ddoc, dpos, dmark, dcnt, dkind, dpc, doutcome, derrorAt, dopen, dvals, dcalls>>
cVars == <<cdoc, copts, cpos, cmark, ccnt, ckind, cflat, cpc, coutcome, cerrorAt,
           copen, cvals, ccalls>>
vars == <<stack, dVars, cVars, limit>>

Returned(outcome) == outcome \notin {"none", "parsing"}

-----------------------------------------------------------------------------
Init == D!Init /\ C!Init /\ limit = 0

StartDriver ==
    /\ coutcome = "none"
    /\ D!Start
    /\ limit' \in Limits
    /\ UNCHANGED cVars

StepDriver ==
    /\ D!Step
    /\ RefusesAt(dcalls', limit)
    /\ UNCHANGED <<cVars, limit>>

StartCursor ==
    /\ Returned(doutcome)
    /\ cdoc' = ddoc /\ C!Start
    /\ UNCHANGED <<dVars, limit>>

StepCursor ==
    /\ C!Step
    /\ RefusesAt(ccalls', limit)
    /\ UNCHANGED <<dVars, limit>>

(* Both results have been compared.                                        *)
CollectBoth ==
    /\ D!Collect /\ C!Collect
    /\ limit' = 0

Next == StartDriver \/ StepDriver \/ StartCursor \/ StepCursor \/ CollectBoth

Spec == Init /\ [][Next]_vars

-----------------------------------------------------------------------------
BothReturned == Returned(doutcome) /\ Returned(coutcome)

(* The two push parsers "must produce identical event streams (or the same *)
(* rejection) for every input" (parse_differential.rs 1-3): the same       *)
(* events with the same marks and counts, those before a rejection         *)
(* included, whatever their loops and frames made of the document; the     *)
(* same error at the same place; a sink that aborts aborts both.           *)
SameEvents ==
    BothReturned =>
        /\ Delivered(dcalls) = Delivered(ccalls)
        /\ doutcome = coutcome /\ derrorAt = cerrorAt

(* Every call, checkpoints included: "Called periodically (every 256       *)
(* elements) inside long arrays" (driver.rs 139-141) by either parser.     *)
SameCalls == BothReturned /\ doutcome = "ok" => dcalls = ccalls
=============================================================================
