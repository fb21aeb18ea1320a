------------------------------ MODULE MCStage ------------------------------
(***************************************************************************)
(* A stage of few workers and few callers.                                 *)
(***************************************************************************)
EXTENDS Stage

PauseOps == {"start", "pause", "resume"}
=============================================================================
