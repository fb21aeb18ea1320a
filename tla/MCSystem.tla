------------------------------ MODULE MCSystem ------------------------------
(***************************************************************************)
(* A program with few modules and few signals.                             *)
(***************************************************************************)
EXTENDS System

TermHandlers == {"s_term_handler", "s_hup_handler"}
=============================================================================
