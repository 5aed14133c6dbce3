------------------------------ MODULE MCBuffers ------------------------------
(***************************************************************************)
(* Three inputs of three lengths for one Buffers.                          *)
(***************************************************************************)
EXTENDS Buffers, TLC

MCInputs == {"short", "middle", "long"}
MCLength == "short" :> 2 @@ "middle" :> 5 @@ "long" :> 9
=============================================================================
