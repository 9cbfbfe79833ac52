--------------------------- MODULE WebhookDelivery ---------------------------
(***************************************************************************)
(* Outbound webhooks: the table "WebhookDelivery" and deliverWebhook of    *)
(* packages/domain/src/webhooks.ts, run by the job webhook.deliver of the  *)
(* queue.  There is one job for each delivery, and so a delivery is named  *)
(* by its job.  The job is of a plain kind: nothing but its lock keeps two *)
(* workers from posting the same delivery.                                 *)
(*                                                                         *)
(* deliverWebhook reads the delivery, posts it, and writes what it read    *)
(* plus one: the three are steps of their own.  A receiver may refuse a    *)
(* request, or accept it and have its answer lost.                         *)
(***************************************************************************)
EXTENDS Integers, FiniteSets

CONSTANTS
  Deliveries, Endpoints, Workers, None,
  EndpointOf,           \* the endpoint of each delivery
  MaxDeliveryAttempts,  \* MAX_DELIVERY_ATTEMPTS
  MaxAttempts, BatchSize, Lanes,  \* of the queue
  MaxJobFaults,         \* bound: faults of the queue
  MaxCallFaults         \* bound: lost answers and failed reads and writes

ASSUME WebhookAssumption ==
  /\ IsFiniteSet(Workers)
  /\ EndpointOf \in [Deliveries -> Endpoints]
  /\ MaxDeliveryAttempts \in Nat \ {0}
  /\ MaxCallFaults \in Nat

VARIABLES
  status,      \* the columns of the table: status,
  recorded,    \*   attempts
  active,      \* whether the status of an endpoint is ACTIVE
  call,        \* how far the handler of each worker is, and what it has read
  posts,       \* history: requests sent for each delivery
  accepted,    \*   and those the receiver accepted
  callFaults,  \* lost answers and failed reads and writes so far
  jobStatus, jobAttempts, lockedBy, expired, dependsOn, serial, queued,
  handling, jobSeen, lanes, alive, jobFaults

deliveryVars == <<status, recorded, active, call, posts, accepted, callFaults>>
jobVars == <<jobStatus, jobAttempts, lockedBy, expired, dependsOn, serial, queued,
             handling, jobSeen, lanes, alive, jobFaults>>
vars == <<deliveryVars, jobVars>>

Queue == INSTANCE WorkflowJobs WITH
  Jobs <- Deliveries, Kind <- [d \in Deliveries |-> "plain"],
  Prerequisite <- [d \in Deliveries |-> None],
  status <- jobStatus, attempts <- jobAttempts, seen <- jobSeen,
  faults <- jobFaults, MaxFaults <- MaxJobFaults

ASSUME QueueAssumption == Queue!JobAssumption /\ Queue!BoundAssumption

Status == {"ABSENT", "PENDING", "DELIVERED", "FAILED"}

(* Where a handler is: not begun, about to post, about to record an        *)
(* accepted or a refused answer, in the catch block, or done.              *)
Stage == {"begin", "post", "ok", "refused", "error", "returned", "threw"}
NoCall == [stage |-> "begin", attempts |-> 0]

CallFault == callFaults < MaxCallFaults /\ callFaults' = callFaults + 1
GoTo(w, d, stage) ==
  call' = [call EXCEPT ![w][d] = [stage |-> stage, attempts |-> call[w][d].attempts]]
At(w, d, stages) == d \in handling[w] /\ call[w][d].stage \in stages

-----------------------------------------------------------------------------
Init ==
  /\ status = [d \in Deliveries |-> "ABSENT"]
  /\ recorded = [d \in Deliveries |-> 0]
  /\ active = [p \in Endpoints |-> TRUE]
  /\ call = [w \in Workers |-> [d \in Deliveries |-> NoCall]]
  /\ posts = [d \in Deliveries |-> 0]
  /\ accepted = [d \in Deliveries |-> 0]
  /\ callFaults = 0
  /\ Queue!Init

(* createWebhookDeliveries, in the transaction that dispatches an event:   *)
(* a new delivery, and its job, for each active endpoint that matches.  A  *)
(* second publication of the event makes new deliveries again.             *)
Publish(batch) ==
  /\ \A d \in batch : status[d] = "ABSENT" /\ active[EndpointOf[d]]
  /\ status' = [d \in Deliveries |-> IF d \in batch THEN "PENDING" ELSE status[d]]
  /\ Queue!Enqueue(batch)
  /\ UNCHANGED <<recorded, active, call, posts, accepted, callFaults>>

(* updateWebhookEndpoint, and archiving and restoring an endpoint.         *)
Configure(p) ==
  /\ active' = [active EXCEPT ![p] = ~@]
  /\ UNCHANGED <<status, recorded, call, posts, accepted, callFaults, jobVars>>

(* Faulty variant: a delivery that was recorded once is not posted.        *)
LoadAfterFirst(w, d) ==
  /\ At(w, d, {"begin"})
  /\ call' = [call EXCEPT ![w][d] =
       [stage |-> IF recorded[d] > 0 THEN "post" ELSE "returned", attempts |-> recorded[d]]]
  /\ UNCHANGED <<status, recorded, active, posts, accepted, callFaults, jobVars>>

(* The handler reads the delivery and its endpoint.  It asks only whether  *)
(* the endpoint is active, not whether the delivery is still PENDING.      *)
Load(w, d) ==
  /\ At(w, d, {"begin"})
  /\ call' = [call EXCEPT ![w][d] =
       [stage |-> IF active[EndpointOf[d]] THEN "post" ELSE "returned",
        attempts |-> recorded[d]]]
  /\ UNCHANGED <<status, recorded, active, posts, accepted, callFaults, jobVars>>

LoadThrows(w, d) ==
  /\ At(w, d, {"begin"})
  /\ CallFault
  /\ GoTo(w, d, "threw")
  /\ UNCHANGED <<status, recorded, active, posts, accepted, jobVars>>

(* Faulty variant: the answer is not looked at.                            *)
PostUnchecked(w, d, ok) ==
  /\ At(w, d, {"post"})
  /\ posts' = [posts EXCEPT ![d] = @ + 1]
  /\ accepted' = [accepted EXCEPT ![d] = IF ok THEN @ + 1 ELSE @]
  /\ GoTo(w, d, "ok")
  /\ UNCHANGED <<status, recorded, active, callFaults, jobVars>>

(* fetch, and an answer: response.ok or not.                               *)
Post(w, d, ok) ==
  /\ At(w, d, {"post"})
  /\ posts' = [posts EXCEPT ![d] = @ + 1]
  /\ accepted' = [accepted EXCEPT ![d] = IF ok THEN @ + 1 ELSE @]
  /\ GoTo(w, d, IF ok THEN "ok" ELSE "refused")
  /\ UNCHANGED <<status, recorded, active, callFaults, jobVars>>

(* fetch throws: the receiver is not reached, or its answer does not come  *)
(* within the ten seconds of AbortSignal.timeout.                          *)
PostThrows(w, d, ok) ==
  /\ At(w, d, {"post"})
  /\ CallFault
  /\ posts' = [posts EXCEPT ![d] = @ + 1]
  /\ accepted' = [accepted EXCEPT ![d] = IF ok THEN @ + 1 ELSE @]
  /\ GoTo(w, d, "error")
  /\ UNCHANGED <<status, recorded, active, jobVars>>

(* The writes to the delivery, which go by its id alone.                   *)
Record(d, outcome, attempts) ==
  /\ status' = [status EXCEPT ![d] = outcome]
  /\ recorded' = [recorded EXCEPT ![d] = attempts]
  /\ UNCHANGED <<active, posts, accepted, callFaults, jobVars>>

RecordSuccess(w, d) ==
  /\ At(w, d, {"ok"})
  /\ Record(d, "DELIVERED", call[w][d].attempts + 1)
  /\ GoTo(w, d, "returned")

FailureStatus(n) == IF n >= MaxDeliveryAttempts THEN "FAILED" ELSE "PENDING"

(* Faulty variant: the failure is counted once more.                       *)
RecordFailureTwice(w, d) ==
  /\ At(w, d, {"refused", "error"})
  /\ Record(d, FailureStatus(call[w][d].attempts + 2), call[w][d].attempts + 2)
  /\ GoTo(w, d, "returned")

(* Faulty variant: a recorded failure is thrown on to the queue.           *)
RecordFailureAndThrow(w, d) ==
  /\ At(w, d, {"refused", "error"})
  /\ Record(d, FailureStatus(call[w][d].attempts + 1), call[w][d].attempts + 1)
  /\ GoTo(w, d, "threw")

(* handleDeliveryFailure.  It sets nextRetryAt, which nothing reads.       *)
RecordFailure(w, d) ==
  /\ At(w, d, {"refused", "error"})
  /\ Record(d, FailureStatus(call[w][d].attempts + 1), call[w][d].attempts + 1)
  /\ GoTo(w, d, "returned")

(* A write inside the try block that fails, even the one of a success,     *)
(* leads to the catch block; one in the catch block leaves the handler.    *)
RecordThrows(w, d) ==
  /\ At(w, d, {"ok", "refused", "error"})
  /\ CallFault
  /\ GoTo(w, d, IF call[w][d].stage = "error" THEN "threw" ELSE "error")
  /\ UNCHANGED <<status, recorded, active, posts, accepted, jobVars>>

-----------------------------------------------------------------------------
(* The steps of the queue.  A handler that begins, has returned or has     *)
(* thrown leaves no call behind.                                           *)
Forget(w, d) == call' = [call EXCEPT ![w][d] = NoCall]

Quiet == UNCHANGED <<status, recorded, active, posts, accepted>>

HandlerReturns(w, d) ==
  /\ At(w, d, {"returned"})
  /\ Queue!HandlerSucceeds(w, d)
  /\ Forget(w, d)
  /\ Quiet /\ UNCHANGED callFaults

(* deliverWebhook threw.                                                   *)
HandlerThrows(w, d) ==
  /\ At(w, d, {"threw"})
  /\ Queue!HandlerFails(w, d, FALSE)
  /\ Forget(w, d)
  /\ Quiet /\ UNCHANGED callFaults

(* The execution is refused before the handler begins, or the job's        *)
(* completion is written and reported as failed: the job is failed.        *)
HandlerIsFailed(w, d, revoked) ==
  /\ At(w, d, {"begin", "returned"})
  /\ CallFault
  /\ Queue!HandlerFails(w, d, revoked)
  /\ Forget(w, d)
  /\ Quiet

SettlementThrows(w, d) ==
  /\ At(w, d, {"begin", "returned", "threw"})
  /\ Queue!SettlementThrows(w, d)
  /\ Forget(w, d)
  /\ Quiet /\ UNCHANGED callFaults

Crash(w) ==
  /\ Queue!Crash(w)
  /\ call' = [call EXCEPT ![w] = [d \in Deliveries |-> NoCall]]
  /\ Quiet /\ UNCHANGED callFaults

QueueStep ==
  /\ \/ \E w \in Workers, batch \in SUBSET Deliveries : Queue!Claim(w, batch)
     \/ \E w \in Workers, d \in Deliveries : Queue!StartHandler(w, d)
     \/ \E d \in Deliveries : Queue!LockExpires(d) \/ Queue!Discard(d)
  /\ UNCHANGED deliveryVars

HandlerStep(w, d) ==
  \/ Load(w, d) \/ LoadThrows(w, d)
  \/ \E ok \in BOOLEAN : Post(w, d, ok) \/ PostThrows(w, d, ok)
  \/ RecordSuccess(w, d) \/ RecordFailure(w, d) \/ RecordThrows(w, d)
  \/ HandlerReturns(w, d) \/ HandlerThrows(w, d)

Next ==
  \/ \E batch \in SUBSET Deliveries : Publish(batch)
  \/ \E p \in Endpoints : Configure(p)
  \/ \E w \in Workers, d \in Deliveries : HandlerStep(w, d)
  \/ \E w \in Workers, d \in Deliveries, revoked \in BOOLEAN : HandlerIsFailed(w, d, revoked)
  \/ \E w \in Workers, d \in Deliveries : SettlementThrows(w, d)
  \/ \E w \in Workers : Crash(w)
  \/ QueueStep

Spec == Init /\ [][Next]_vars

(* The fairness of the queue: workers poll, handlers go on, and the locks  *)
(* of abandoned rows grow old.                                             *)
FairSpec ==
  /\ Spec
  /\ \A w \in Workers :
       WF_vars(\E batch \in SUBSET Deliveries :
                 Queue!Claim(w, batch) /\ UNCHANGED deliveryVars)
  /\ \A w \in Workers, d \in Deliveries :
       /\ WF_vars(Queue!StartHandler(w, d) /\ UNCHANGED deliveryVars)
       /\ WF_vars(HandlerStep(w, d))
  /\ \A d \in Deliveries :
       WF_vars(Queue!Abandoned(d) /\ Queue!LockExpires(d) /\ UNCHANGED deliveryVars)
-----------------------------------------------------------------------------
TypeOK ==
  /\ status \in [Deliveries -> Status]
  /\ recorded \in [Deliveries -> Nat]
  /\ active \in [Endpoints -> BOOLEAN]
  /\ call \in [Workers -> [Deliveries -> [stage : Stage, attempts : Nat]]]
  /\ posts \in [Deliveries -> Nat]
  /\ accepted \in [Deliveries -> Nat]
  /\ callFaults \in 0 .. MaxCallFaults
  /\ Queue!TypeOK

(* A delivery is shown as DELIVERED only if its receiver accepted it, and  *)
(* as FAILED only after MAX_DELIVERY_ATTEMPTS requests, however the        *)
(* handlers of several workers overwrite each other's results.             *)
StatusIsEarned ==
  \A d \in Deliveries :
    /\ status[d] = "DELIVERED" => accepted[d] > 0
    /\ status[d] = "FAILED" => posts[d] >= MaxDeliveryAttempts

(* The attempts a delivery shows were made: overlapping handlers lose      *)
(* counts and never invent one.                                            *)
AttemptsWereMade ==
  \A d \in Deliveries : recorded[d] <= posts[d]

(* A receiver gets the same delivery twice only because something failed:  *)
(* each request after the first has a fault of its own, of the queue or of *)
(* the call.  A refusal is no fault: it is not retried.                    *)
RepeatsHaveAFault ==
  \A d \in Deliveries : posts[d] <= 1 + jobFaults + callFaults

(* What the page on webhooks says: the failure of a delivery is recorded,  *)
(* and the delivery can be found as a failed one.  The job is over and     *)
(* every request was refused.                                              *)
FailureIsRecorded ==
  \A d \in Deliveries :
    jobStatus[d] \in Queue!Terminal /\ posts[d] > 0 /\ accepted[d] = 0
      => status[d] = "FAILED"

(* A delivery that is published is posted, unless its job fails first or   *)
(* its endpoint does not stay active.                                      *)
EveryDeliveryIsPosted ==
  \A d \in Deliveries :
    [](active[EndpointOf[d]]) =>
      (status[d] = "PENDING" ~>
         posts[d] > 0 \/ jobStatus[d] \in {"FAILED", "CANCELLED"})
=============================================================================
