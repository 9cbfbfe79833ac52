---------------------------- MODULE OutboxSystem -----------------------------
(***************************************************************************)
(* The outbox and the job queue together: what a worker process runs in    *)
(* each cycle of apps/worker (runWorkerCycle, queue-only and continuous    *)
(* modes).  Dispatching an event enqueues the jobs derived from it in the  *)
(* transaction that marks it DISPATCHED, so that the two tables change in  *)
(* one step.                                                               *)
(*                                                                         *)
(* A process is in one cycle at a time: it claims events only when it has  *)
(* no job in its batch, and jobs only when it has no event.  The jobs      *)
(* derived from events are neither deferred nor asked for again, and so    *)
(* those operations of WorkflowJobs are left out.                          *)
(***************************************************************************)
EXTENDS Integers, FiniteSets

CONSTANTS
  Events, Jobs, Workers, None, Kind, Prerequisite,
  Derived,       \* the jobs that deriveJobsForEvent gives for each event
  MaxAttempts, EventBatch, JobBatch, Lanes,
  MaxEventFaults, MaxJobFaults  \* bounds: the faults of each component

ASSUME DerivedAssumption == Derived \in [Events -> SUBSET Jobs]

(* The keys of the jobs are made from the id of the event, and a           *)
(* prerequisite is derived with the job that depends on it.                *)
ASSUME KeyAssumption ==
  /\ \A e, f \in Events : e # f => Derived[e] \cap Derived[f] = {}
  /\ \A e \in Events : \A j \in Derived[e] :
       Prerequisite[j] \in Derived[e] \cup {None}

VARIABLES
  eventStatus, eventAttempts, lock, published, doubts, claimed, eventSeen,
  eventFaults,
  jobStatus, jobAttempts, lockedBy, expired, dependsOn, serial, queued,
  handling, jobSeen, lanes, jobFaults,
  alive

eventVars == <<eventStatus, eventAttempts, lock, published, doubts, claimed, eventSeen,
               eventFaults>>
jobVars == <<jobStatus, jobAttempts, lockedBy, expired, dependsOn, serial, queued,
             handling, jobSeen, lanes, jobFaults>>
vars == <<eventVars, jobVars, alive>>

Outbox == INSTANCE EventOutbox WITH
  status <- eventStatus, attempts <- eventAttempts, seen <- eventSeen,
  faults <- eventFaults, BatchSize <- EventBatch, MaxFaults <- MaxEventFaults

Queue == INSTANCE WorkflowJobs WITH
  status <- jobStatus, attempts <- jobAttempts, seen <- jobSeen,
  faults <- jobFaults, BatchSize <- JobBatch, MaxFaults <- MaxJobFaults

ASSUME ComponentAssumption ==
  /\ Outbox!OutboxAssumption
  /\ Queue!JobAssumption
  /\ Queue!BoundAssumption

-----------------------------------------------------------------------------
Init == Outbox!Init /\ Queue!Init

(* The writes of the dispatching transaction to the table "WorkflowJob".   *)
(* Every upsert of a second publication finds its row.                     *)
EnqueueDerived(e) ==
  \/ Queue!Enqueue(Derived[e])
  \/ /\ \A j \in Derived[e] : jobStatus[j] # "ABSENT"
     /\ UNCHANGED jobVars

Append(e) == Outbox!Append(e) /\ UNCHANGED jobVars

ClaimEvents(w, batch) ==
  /\ queued[w] = {} /\ handling[w] = {}
  /\ Outbox!Claim(w, batch)
  /\ UNCHANGED jobVars

Dispatch(w, e) == Outbox!Dispatch(w, e) /\ EnqueueDerived(e)

DispatchUnacknowledged(w, e, revoked) ==
  Outbox!DispatchUnacknowledged(w, e, revoked) /\ EnqueueDerived(e)

(* Faulty variant: the jobs are not enqueued in the transaction.           *)
DispatchFailsInPart(w, e, revoked) ==
  Outbox!DispatchFails(w, e, revoked) /\ EnqueueDerived(e)

DispatchFails(w, e, revoked) ==
  Outbox!DispatchFails(w, e, revoked) /\ UNCHANGED jobVars

FailEventThrows(w) == Outbox!FailEventThrows(w) /\ UNCHANGED jobVars

EventLockExpires(e) == Outbox!LockExpires(e) /\ UNCHANGED jobVars

ClaimJobs(w, batch) ==
  /\ claimed[w] = {}
  /\ Queue!Claim(w, batch)
  /\ UNCHANGED eventVars

(* The steps of the queue that leave the outbox alone.                     *)
JobStep(w, j) ==
  /\ \/ Queue!StartHandler(w, j)
     \/ Queue!HandlerSucceeds(w, j)
     \/ \E revoked \in BOOLEAN : Queue!HandlerFails(w, j, revoked)
     \/ Queue!SettlementThrows(w, j)
  /\ UNCHANGED eventVars

JobLockExpires(j) == Queue!LockExpires(j) /\ UNCHANGED eventVars

Discard(j) == Queue!Discard(j) /\ UNCHANGED eventVars

(* The process exits, with what it has of both tables.                     *)
Crash(w) == Outbox!Crash(w) /\ Queue!Crash(w)

Next ==
  \/ \E e \in Events : Append(e) \/ EventLockExpires(e)
  \/ \E w \in Workers, batch \in SUBSET Events : ClaimEvents(w, batch)
  \/ \E w \in Workers, e \in Events : Dispatch(w, e)
  \/ \E w \in Workers, e \in Events, revoked \in BOOLEAN :
       DispatchFails(w, e, revoked) \/ DispatchUnacknowledged(w, e, revoked)
  \/ \E w \in Workers : FailEventThrows(w) \/ Crash(w)
  \/ \E w \in Workers, batch \in SUBSET Jobs : ClaimJobs(w, batch)
  \/ \E w \in Workers, j \in Jobs : JobStep(w, j)
  \/ \E j \in Jobs : JobLockExpires(j) \/ Discard(j)

Spec == Init /\ [][Next]_vars

(* The fairness of the two components: each worker's cycle comes round to  *)
(* both tables.                                                            *)
FairSpec ==
  /\ Spec
  /\ \A w \in Workers :
       /\ SF_vars(\E batch \in SUBSET Events : ClaimEvents(w, batch))
       /\ SF_vars(\E batch \in SUBSET Jobs : ClaimJobs(w, batch))
  /\ \A w \in Workers, e \in Events :
       WF_vars(Dispatch(w, e) \/ \E revoked \in BOOLEAN : DispatchFails(w, e, revoked))
  /\ \A w \in Workers, j \in Jobs :
       /\ WF_vars(Queue!StartHandler(w, j) /\ UNCHANGED eventVars)
       /\ WF_vars(Queue!Finish(w, j) /\ UNCHANGED eventVars)
  /\ \A e \in Events : WF_vars(Outbox!Abandoned(e) /\ EventLockExpires(e))
  /\ \A j \in Jobs : WF_vars(Queue!Abandoned(j) /\ JobLockExpires(j))
-----------------------------------------------------------------------------
TypeOK == Outbox!TypeOK /\ Queue!TypeOK

InTable(j) == jobStatus[j] # "ABSENT"

(* An event leaves all its jobs in the table or none: none before it is    *)
(* dispatched or when it fails, however many attempts crash, roll back or  *)
(* are taken over, unless there is a doubt about one of them.              *)
PublicationIsWhole ==
  \A e \in Events : \A j \in Derived[e] :
    /\ eventStatus[e] = "DISPATCHED" => InTable(j)
    /\ eventStatus[e] # "DISPATCHED" /\ doubts[e] = 0 => ~InTable(j)

(* A derived job has run only after the prerequisite that the event gave   *)
(* it was completed, whoever dispatched the event and however often: the   *)
(* insights of a meeting are extracted from a finished summary.            *)
ChainRunsInOrder ==
  \A e \in Events : \A j \in Derived[e] :
    LET d == Prerequisite[j] IN
    d # None /\ Queue!Once(d) /\ serial[j] > 0 => jobStatus[d] = "COMPLETED"

(* Publishing an event again repeats no fenced job: a job that has ended   *)
(* is not put back in the queue.                                           *)
RepublicationRepeatsNothing ==
  [][\A j \in Jobs :
       Queue!Once(j) /\ jobStatus[j] \in Queue!Terminal
         => jobStatus'[j] \in Queue!Terminal]_vars

(* Every event that is appended fails, or each of its jobs settles or      *)
(* waits for a prerequisite that did not complete.                         *)
EveryChainSettles ==
  \A e \in Events :
    <>[](\/ eventStatus[e] \in {"ABSENT", "FAILED"}
         \/ \A j \in Derived[e] :
              jobStatus[j] \in Queue!Terminal \/ Queue!Waiting(j))
=============================================================================
