SPECIFICATION Spec
CONSTANTS
  ann = ann
  bea = bea
  Members <- Reviewers
SYMMETRY SameReviewers
INVARIANT DraftHoldsNoReview
