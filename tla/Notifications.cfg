SPECIFICATION FairSpec
CONSTANTS
  slack = slack
  email = email
  Deliveries = {slack, email}
  Channel <- Channels
  Fallback <- EmailFallback
  Workers = {w1, w2}
  None = None
  MaxDeliveryAttempts = 2
  MaxAttempts = 2
  BatchSize = 1
  Lanes = 1
  MaxJobFaults = 1
  MaxCallFaults = 1
INVARIANT TypeOK
INVARIANT StatusIsEarned
INVARIANT MessagesHaveAFault
INVARIANT NothingIsForgotten
PROPERTY EveryDeliveryEnds
\* Every job has ended: the system rests.
CHECK_DEADLOCK FALSE
