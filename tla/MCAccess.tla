------------------------------ MODULE MCAccess ------------------------------
(* Small instances of Access. *)
EXTENDS Access, TLC

CONSTANTS w1, w2, pa, pb, k1, k2, s1, s2

Symmetry == Permutations({w1, w2}) \cup Permutations({k1, k2}) \cup Permutations({s1, s2})
=============================================================================
