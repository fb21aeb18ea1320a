----------------------------- MODULE MCCBuffer -----------------------------
(* Small instances of CBuffer for TLC. *)
EXTENDS CBuffer, TLC

\* Everything that does not end the caller, and what threads that compete use.
LifeOps       == {"put", "get", "peek", "clear", "shutdown", "destroy", "setup"} \cup QueryOps
ContentionOps == {"put", "get", "peek", "shutdown", "cancel"}

\* Threads, and values, are interchangeable in the safety run.
Symmetry == Permutations(Threads) \cup Permutations(Values)
=============================================================================
