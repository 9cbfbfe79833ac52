SPECIFICATION FairSpec
CONSTANTS
  Events = {e1, e2}
  Workers = {w1, w2, w3}
  MaxAttempts = 2
  BatchSize = 2
  MaxFaults = 3
INVARIANT PublishedOnce
INVARIANT UnsettledIsUnpublished
PROPERTY EveryEventSettles
\* Every event has been dispatched or has failed: the outbox rests.
CHECK_DEADLOCK FALSE
