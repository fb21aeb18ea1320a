----------------------------- MODULE MCHashMap ------------------------------
(***************************************************************************)
(* A small table that grows after its first entry, with keys whose chains   *)
(* collide before and after, and two pointers to the same key.              *)
(***************************************************************************)
EXTENDS HashMap, TLC

CONSTANTS k1, k2, k3

MCKeys      == {k1, k2, k3}
MCContentOf == (k1 :> "a") @@ (k2 :> "b") @@ (k3 :> "a")
MCHashOf    == (k1 :> 6) @@ (k2 :> 10) @@ (k3 :> 5) @@ ("a" :> 6) @@ ("b" :> 10)
MCTypes     == {0, 4, 5}
Symmetry    == Permutations(Threads) \cup Permutations(Values)
=============================================================================
