------------------------- MODULE PointerDifferential -------------------------
(***************************************************************************)
(* The two resolvers on one document: a batch of pointers in one walk,     *)
(* then each of them alone (fuzz target pointer_differential, and the      *)
(* test batch_matches_sequential).                                         *)
(***************************************************************************)
EXTENDS PointerBatch

VARIABLES
    sdoc, ptr, sopts, si, level, kind, ahead, match, spc, soutcome, serrorAt,
    singles       \* the answers of the pointers resolved alone so far

S == INSTANCE Pointer WITH
        Pointers <- {},
        doc <- sdoc, opts <- sopts, i <- si, pc <- spc, outcome <- soutcome, errorAt <- serrorAt

sVars == <<sdoc, ptr, sopts, si, level, kind, ahead, match, spc, soutcome, serrorAt>>
bothVars == <<vars, sVars, singles>>

BatchReturned == outcome \notin {"none", "walking"}
AllReturned   == BatchReturned /\ Len(singles) = Len(ptrs)

BothInit == Init /\ S!Init /\ singles = <<>>

Batch == (Start \/ Step) /\ UNCHANGED <<sVars, singles>>

StartSingle ==
    /\ BatchReturned /\ ~ AllReturned
    /\ S!Begin(doc, ptrs[1 + Len(singles)], opts)
    /\ UNCHANGED <<vars, singles>>

StepSingle == S!Step /\ UNCHANGED <<vars, singles>>

CollectSingle ==
    /\ S!Collect
    /\ singles' = Append(singles, [outcome |-> soutcome, match |-> match])
    /\ UNCHANGED vars

(* The answers have been compared.                                         *)
CollectAll ==
    /\ AllReturned
    /\ Collect
    /\ singles' = <<>>
    /\ UNCHANGED sVars

BothNext == Batch \/ StartSingle \/ StepSingle \/ CollectSingle \/ CollectAll

BothSpec == BothInit /\ [][BothNext]_bothVars

-----------------------------------------------------------------------------
(* "the batch resolver ... must match single resolution on any document    *)
(* both accept, with duplicated pointers getting identical aligned         *)
(* answers" (pointer_differential.rs 81-83), and a batch that succeeds     *)
(* means every pointer alone succeeds.                                     *)
BatchMatchesSingles ==
    AllReturned /\ outcome = "ok" =>
        \A q \in DOMAIN ptrs : singles[q] = [outcome |-> "ok", match |-> results[q]]
=============================================================================
