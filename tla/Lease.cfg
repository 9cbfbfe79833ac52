SPECIFICATION Spec
CONSTANTS
  web = web
  worker = worker
  Images = {a, b}
  Roles = {web, worker}
  Writes = {x, y}
  None = None
  MaxFence = 3
SYMMETRY Symmetry
INVARIANT ConstraintsHold
INVARIANT OneOpenRelease
INVARIANT OneLiveLease
INVARIANT RecoveryIsReadable
PROPERTY IntentsStayUntilDecided
PROPERTY ReleaseEndsAsPlanned
PROPERTY EndedStaysEnded
\* The last fence is issued and nothing is left to decide.
CHECK_DEADLOCK FALSE
