SPECIFICATION Spec
CONSTANTS
  d1 = d1
  crm = crm
  Deliveries = {d1}
  Endpoints = {crm}
  EndpointOf <- OneEndpoint
  Workers = {w1, w2}
  None = None
  MaxDeliveryAttempts = 2
  MaxAttempts = 2
  BatchSize = 2
  Lanes = 1
  MaxJobFaults = 0
  MaxCallFaults = 0
INVARIANT FailureIsRecorded
\* Every job has ended: the system rests.
CHECK_DEADLOCK FALSE
