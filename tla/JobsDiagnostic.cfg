SPECIFICATION Spec
CONSTANTS
  j1 = j1
  j2 = j2
  j3 = j3
  Jobs = {j1}
  Workers = {w1, w2}
  None = None
  Kind <- DiagnosticKind
  Prerequisite <- NoPrerequisite
  MaxAttempts = 2
  BatchSize = 2
  Lanes = 2
  MaxFaults = 3
SYMMETRY Symmetry
PROPERTY CompletionNeedsFreshLock
\* Every job has ended and nobody asks for it again: the queue rests.
CHECK_DEADLOCK FALSE
