------------------------------ MODULE MCGState ------------------------------
(* Small instances of GState for TLC. *)
EXTENDS GState, TLC

\* An invalid state, one before the shutdown, two shutdown states.
AllTargets == {STARTED, ACCEPT_SHUTDOWN, SHUTDOWN, FINALIZED + 1}
\* The valid ones.
SomeTargets == {STARTED, ACCEPT_SHUTDOWN, SHUTDOWN}

AllOps     == {"set", "get", "wait_for", "request", "reset"}
LivingOps  == {"set", "wait_for", "request", "cancel"}

\* Threads are interchangeable in the safety runs.
ThreadSymmetry == Permutations(Threads)
=============================================================================
