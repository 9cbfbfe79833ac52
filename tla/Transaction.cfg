SPECIFICATION Spec
CONSTANTS
  Images = {a, b, c}
  None = None
  MaxFence = 3
SYMMETRY Symmetry
CONSTRAINT ThirdTakesOver
INVARIANT TypeOK
INVARIANT RowTellsTheTruth
INVARIANT WorkerFollowsWeb
INVARIANT RecoveryIsSentOnce
INVARIANT ReportIsTrue
\* The last fence is issued and nothing is left to decide.
CHECK_DEADLOCK FALSE
