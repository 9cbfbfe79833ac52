SPECIFICATION FairSpec
CONSTANTS
  d1 = d1
  crm = crm
  Deliveries = {d1}
  Endpoints = {crm}
  EndpointOf <- OneEndpoint
  Workers = {w1, w2}
  None = None
  MaxDeliveryAttempts = 2
  MaxAttempts = 3
  BatchSize = 2
  Lanes = 1
  MaxJobFaults = 2
  MaxCallFaults = 2
INVARIANT StatusIsEarned
INVARIANT AttemptsWereMade
INVARIANT RepeatsHaveAFault
PROPERTY EveryDeliveryIsPosted
\* Every job has ended: the system rests.
CHECK_DEADLOCK FALSE
