SPECIFICATION Spec
CONSTANTS
  ann = ann
  bea = bea
  Members <- Reviewers
INVARIANT PolicyIsAdopted
INVARIANT DecisionStands
INVARIANT ActiveFlowIsOpen
INVARIANT OpenIsReviewed
INVARIANT ReviewsAreVisible
INVARIANT SerialReviewsCount
SYMMETRY SameReviewers
