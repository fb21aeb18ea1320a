------------------------------ MODULE MCThread ------------------------------
(***************************************************************************)
(* One record, few callers, few starts.                                    *)
(***************************************************************************)
EXTENDS Thread
=============================================================================
