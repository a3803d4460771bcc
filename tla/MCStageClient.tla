---------------------------- MODULE MCStageClient ----------------------------
(* StageClient for TLC: the constants are model values, see the .cfg files. *)
EXTENDS StageClient
=============================================================================
