------------------------------- MODULE MCBills ------------------------------
(* Small instances of Bills. *)
EXTENDS Bills, TLC

CONSTANTS w1, w2, ali, sara, b1, b2, t1, t2

\* Also sound for BookSpec, a safety property that treats keys alike.
Symmetry == Permutations({b1, b2}) \cup Permutations({t1, t2}) \cup Permutations({w1, w2})
=============================================================================
