----------------------- MODULE MCProposalDecisions -----------------------
(***************************************************************************)
(* Instances of ProposalDecisions for TLC.                                 *)
(***************************************************************************)
EXTENDS ProposalDecisions, TLC

CONSTANTS ann, bea

(* Two reviewers are interchangeable.                                      *)
Reviewers == {ann, bea}
SameReviewers == Permutations(Reviewers)
=============================================================================
