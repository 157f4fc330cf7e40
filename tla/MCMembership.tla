---------------------------- MODULE MCMembership ----------------------------
(* Small instances of Membership. *)
EXTENDS Membership, TLC

CONSTANTS w1, w2, mina, ali, sara, p0, p1, p2, k1, k2

Symmetry == Permutations({w1, w2}) \cup Permutations({ali, sara})
              \cup Permutations({p1, p2}) \cup Permutations({k1, k2})
=============================================================================
