SPECIFICATION FairSpec
CONSTANTS
  j1 = j1
  j2 = j2
  j3 = j3
  Jobs = {j1, j2, j3}
  Workers = {w1, w2}
  None = None
  Kind <- ChainKind
  Prerequisite <- ChainPrerequisite
  MaxAttempts = 2
  BatchSize = 2
  Lanes = 1
  MaxFaults = 2
INVARIANT NewestClaimCanSettle
INVARIANT RanAfterItsPrerequisite
INVARIANT ExtraAttemptsHaveAFault
PROPERTY OutcomeIsOfNewestClaim
PROPERTY OutcomeIsFinal
PROPERTY EveryJobSettles
\* Every job has ended and nobody asks for it again: the queue rests.
CHECK_DEADLOCK FALSE
