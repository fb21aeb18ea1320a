------------------------------ MODULE MCLocks -------------------------------
(***************************************************************************)
(* A few threads, which nest the locks in every way that the saved-state    *)
(* fields can bear.                                                        *)
(***************************************************************************)
EXTENDS Locks, TLC

Symmetry == Permutations(Threads)
=============================================================================
