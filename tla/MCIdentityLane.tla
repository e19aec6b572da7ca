--------------------------- MODULE MCIdentityLane ---------------------------
(* The instances of IdentityLane that TLC checks. *)
EXTENDS IdentityLane, TLC

SymmetryOfAll == Permutations(Paths) \cup Permutations(Requests)
=============================================================================
