--------------------------- MODULE MCReleaseLease ---------------------------
(***************************************************************************)
(* Instances of ReleaseLease for TLC.                                      *)
(***************************************************************************)
EXTENDS ReleaseLease, TLC

CONSTANTS web, worker

Symmetry == Permutations(Images) \cup Permutations(Roles) \cup Permutations(Writes)
=============================================================================
