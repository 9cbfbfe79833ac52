SPECIFICATION FairSpec
CONSTANTS
  e1 = e1
  summary = summary
  insights = insights
  post = post
  Events = {e1}
  Jobs = {summary, insights, post}
  Workers = {w1, w2}
  None = None
  Kind <- MeetingKind
  Prerequisite <- MeetingChain
  Derived <- MeetingJobs
  MaxAttempts = 2
  EventBatch = 1
  JobBatch = 2
  Lanes = 1
  MaxEventFaults = 2
  MaxJobFaults = 1
INVARIANT PublicationIsWhole
PROPERTY RepublicationRepeatsNothing
PROPERTY EveryChainSettles
\* Every event and job has ended: the system rests.
CHECK_DEADLOCK FALSE
