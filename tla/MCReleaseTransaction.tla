------------------------ MODULE MCReleaseTransaction ------------------------
(***************************************************************************)
(* Instances of ReleaseTransaction for TLC.                                *)
(***************************************************************************)
EXTENDS ReleaseTransaction, TLC

Symmetry == Permutations(Images)

(* Bound: a third lease is one that takes over a release a second time.    *)
ThirdTakesOver == fence = 3 => Origin(3) = 1
=============================================================================
