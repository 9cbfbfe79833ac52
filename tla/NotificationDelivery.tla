------------------------- MODULE NotificationDelivery -------------------------
(***************************************************************************)
(* Outbound notifications: the table "NotificationDelivery" and            *)
(* deliverNotificationDelivery of packages/domain/src/notifications.ts,    *)
(* run by the job notification.delivery of the queue.  A notification has  *)
(* at most one delivery for each channel, and a delivery at most one job,  *)
(* so a delivery is named by its job.  The job is of a plain kind.         *)
(*                                                                         *)
(* A handler reads the delivery once, sends it, and writes by its id what  *)
(* it read plus one.  An e-mail that fails is retried; a Slack message     *)
(* that fails is replaced by an e-mail, whose row and whose job are two    *)
(* more writes.  None of these writes share a transaction.                 *)
(*                                                                         *)
(* The checks of the recipient's access, made before and while sending,    *)
(* read nothing of this model: each may grant, deny or fail.               *)
(***************************************************************************)
EXTENDS Integers, FiniteSets

CONSTANTS
  Deliveries, Workers, None,
  Channel,              \* SLACK or EMAIL, for each delivery
  Fallback,             \* the e-mail delivery of the notification of a Slack
                        \* delivery; None if the recipient has no address
  MaxDeliveryAttempts,  \* NOTIFICATION_DELIVERY_MAX_ATTEMPTS
  MaxAttempts, BatchSize, Lanes,  \* of the queue
  MaxJobFaults,         \* bound: faults of the queue
  MaxCallFaults         \* bound: lost answers, failed reads, checks and writes

ASSUME NotificationAssumption ==
  /\ IsFiniteSet(Workers)
  /\ Channel \in [Deliveries -> {"SLACK", "EMAIL"}]
  /\ Fallback \in [Deliveries -> Deliveries \cup {None}]
  /\ \A d \in Deliveries : Fallback[d] # None =>
       Channel[d] = "SLACK" /\ Channel[Fallback[d]] = "EMAIL"
  /\ \A d, s \in Deliveries : Fallback[d] = Fallback[s] /\ Fallback[d] # None => d = s
  /\ MaxDeliveryAttempts \in Nat \ {0}
  /\ MaxCallFaults \in Nat

VARIABLES
  status,      \* the columns of the table: status,
  recorded,    \*   attempts
  call,        \* how far the handler of each worker is, and what it has read
  asked,       \* history: deliveries the recipient's preferences asked for
  posts,       \*   requests sent for each delivery
  accepted,    \*   and messages the provider accepted
  callFaults,  \* lost answers and failed reads, checks and writes so far
  jobStatus, jobAttempts, lockedBy, expired, dependsOn, serial, queued,
  handling, jobSeen, lanes, alive, jobFaults

deliveryVars == <<status, recorded, call, asked, posts, accepted, callFaults>>
jobVars == <<jobStatus, jobAttempts, lockedBy, expired, dependsOn, serial, queued,
             handling, jobSeen, lanes, alive, jobFaults>>
vars == <<deliveryVars, jobVars>>

Queue == INSTANCE WorkflowJobs WITH
  Jobs <- Deliveries, Kind <- [d \in Deliveries |-> "plain"],
  Prerequisite <- [d \in Deliveries |-> None],
  status <- jobStatus, attempts <- jobAttempts, seen <- jobSeen,
  faults <- jobFaults, MaxFaults <- MaxJobFaults

ASSUME QueueAssumption == Queue!JobAssumption /\ Queue!BoundAssumption

Status == {"ABSENT", "PENDING", "SENT", "SKIPPED", "FAILED"}

(* Where a handler is: not begun; about to send; about to record a sent    *)
(* message, or in the catch block; about to make the row, then the job, of *)
(* a fallback, in the try block or (last) in the catch block; done.        *)
InTry == {"fallback", "enqueue"}
InCatch == {"lastFallback", "lastEnqueue"}
Stage == {"begin", "send", "sent", "error", "returned", "threw"} \cup InTry \cup InCatch
NoCall == [stage |-> "begin", attempts |-> 0]

CallFault == callFaults < MaxCallFaults /\ callFaults' = callFaults + 1
GoTo(w, d, stage) ==
  call' = [call EXCEPT ![w][d] = [stage |-> stage, attempts |-> call[w][d].attempts]]
At(w, d, stages) == d \in handling[w] /\ call[w][d].stage \in stages

-----------------------------------------------------------------------------
Init ==
  /\ status = [d \in Deliveries |-> "ABSENT"]
  /\ recorded = [d \in Deliveries |-> 0]
  /\ call = [w \in Workers |-> [d \in Deliveries |-> NoCall]]
  /\ asked = {}
  /\ posts = [d \in Deliveries |-> 0]
  /\ accepted = [d \in Deliveries |-> 0]
  /\ callFaults = 0
  /\ Queue!Init

(* The upsert of a row: one that exists is left as it is.                  *)
Upsert(batch) ==
  status' = [d \in Deliveries |->
    IF d \in batch /\ status[d] = "ABSENT" THEN "PENDING" ELSE status[d]]

(* createNotificationIntent, in the transaction of its caller: a row and a *)
(* job for each channel the recipient's preferences enable.  A caller that *)
(* runs again upserts both again.                                          *)
Publish(batch) ==
  /\ Upsert(batch)
  /\ asked' = asked \cup batch
  /\ Queue!Enqueue(batch)
  /\ UNCHANGED <<recorded, call, posts, accepted, callFaults>>

(* deliverNotificationDelivery reads the row; one that has ended is left.  *)
Load(w, d) ==
  /\ At(w, d, {"begin"})
  /\ call' = [call EXCEPT ![w][d] =
       [stage |-> IF status[d] = "PENDING" THEN "send" ELSE "returned",
        attempts |-> recorded[d]]]
  /\ UNCHANGED <<status, recorded, asked, posts, accepted, callFaults, jobVars>>

(* The handler cannot read, or access cannot be checked: the error leaves  *)
(* the handler with nothing written.  An error elsewhere before the        *)
(* request, or in writing that it is skipped, leads to the catch block.    *)
CheckThrows(w, d, stage) ==
  /\ At(w, d, {"begin", "send"})
  /\ stage = "error" => call[w][d].stage = "send"
  /\ CallFault
  /\ GoTo(w, d, stage)
  /\ UNCHANGED <<status, recorded, asked, posts, accepted, jobVars>>

(* The writes to the delivery, which go by its id alone.                   *)
Record(d, outcome, attempts) ==
  /\ status' = [status EXCEPT ![d] = outcome]
  /\ recorded' = [recorded EXCEPT ![d] = attempts]
  /\ UNCHANGED <<asked, posts, accepted, callFaults, jobVars>>

(* Access is denied, or the recipient's address is missing or has changed. *)
Withhold(w, d) ==
  /\ At(w, d, {"send"})
  /\ status' = [status EXCEPT ![d] = "SKIPPED"]
  /\ GoTo(w, d, "returned")
  /\ UNCHANGED <<recorded, asked, posts, accepted, callFaults, jobVars>>

(* There is no key for the mail provider, or no Slack identity to send to; *)
(* the latter asks for the fallback.                                       *)
SkipUnsent(w, d) ==
  /\ At(w, d, {"send"})
  /\ Record(d, "SKIPPED", call[w][d].attempts + 1)
  /\ GoTo(w, d, IF Channel[d] = "SLACK" THEN "fallback" ELSE "returned")

(* Faulty variant: the error a provider answers with is not looked at.     *)
SendUnchecked(w, d, ok) ==
  /\ At(w, d, {"send"})
  /\ posts' = [posts EXCEPT ![d] = @ + 1]
  /\ accepted' = [accepted EXCEPT ![d] = IF ok THEN @ + 1 ELSE @]
  /\ GoTo(w, d, "sent")
  /\ UNCHANGED <<status, recorded, asked, callFaults, jobVars>>

(* sendEmail or sendSlackMessage, and the provider's answer.               *)
Send(w, d, ok) ==
  /\ At(w, d, {"send"})
  /\ posts' = [posts EXCEPT ![d] = @ + 1]
  /\ accepted' = [accepted EXCEPT ![d] = IF ok THEN @ + 1 ELSE @]
  /\ GoTo(w, d, IF ok THEN "sent" ELSE "error")
  /\ UNCHANGED <<status, recorded, asked, callFaults, jobVars>>

(* The request or its answer is lost.  The Slack client sends it again by  *)
(* itself, unless access, checked before each request, is gone by then.    *)
SendThrows(w, d, ok, stage) ==
  /\ At(w, d, {"send"})
  /\ stage # "error" => Channel[d] = "SLACK"
  /\ CallFault
  /\ posts' = [posts EXCEPT ![d] = @ + 1]
  /\ accepted' = [accepted EXCEPT ![d] = IF ok THEN @ + 1 ELSE @]
  /\ GoTo(w, d, stage)
  /\ UNCHANGED <<status, recorded, asked, jobVars>>

(* Faulty variant: the fallback of a Slack message is made in any case.    *)
RecordSentAndFallBack(w, d) ==
  /\ At(w, d, {"sent"})
  /\ Record(d, "SENT", call[w][d].attempts + 1)
  /\ GoTo(w, d, IF Channel[d] = "SLACK" THEN "fallback" ELSE "returned")

RecordSent(w, d) ==
  /\ At(w, d, {"sent"})
  /\ Record(d, "SENT", call[w][d].attempts + 1)
  /\ GoTo(w, d, "returned")

(* Faulty variants: a status the table does not know, and a last attempt   *)
(* that is off by one.                                                     *)
FailureStatusRetrying(d, n) ==
  IF Channel[d] = "SLACK" \/ n >= MaxDeliveryAttempts THEN "FAILED" ELSE "RETRYING"
FailureStatusLate(d, n) ==
  IF Channel[d] = "SLACK" \/ n > MaxDeliveryAttempts THEN "FAILED" ELSE "PENDING"

FailureStatus(d, n) ==
  IF Channel[d] = "SLACK" \/ n >= MaxDeliveryAttempts THEN "FAILED" ELSE "PENDING"

(* The catch blocks.  An e-mail to be retried throws; Slack never is.      *)
RecordFailure(w, d) ==
  LET outcome == FailureStatus(d, call[w][d].attempts + 1) IN
  /\ At(w, d, {"error"})
  /\ Record(d, outcome, call[w][d].attempts + 1)
  /\ GoTo(w, d, IF Channel[d] = "SLACK" THEN "lastFallback"
                ELSE IF outcome = "FAILED" THEN "returned" ELSE "threw")

(* createEmailFallbackDelivery: the row of the e-mail delivery,            *)
FallBack(w, d) ==
  /\ At(w, d, {"fallback", "lastFallback"})
  /\ Upsert({Fallback[d]})
  /\ GoTo(w, d, IF Fallback[d] = None THEN "returned"
                ELSE IF call[w][d].stage \in InTry THEN "enqueue" ELSE "lastEnqueue")
  /\ UNCHANGED <<recorded, asked, posts, accepted, callFaults, jobVars>>

(* and then its job.                                                       *)
EnqueueFallback(w, d) ==
  /\ At(w, d, {"enqueue", "lastEnqueue"})
  /\ \/ Queue!Enqueue({Fallback[d]})
     \/ jobStatus[Fallback[d]] # "ABSENT" /\ UNCHANGED jobVars
  /\ GoTo(w, d, "returned")
  /\ UNCHANGED <<status, recorded, asked, posts, accepted, callFaults>>

(* A write that fails in a try block leads to the catch block, even after  *)
(* the message was sent; one in the catch block leaves the handler.        *)
WriteThrows(w, d) ==
  /\ At(w, d, {"sent", "error"} \cup InTry \cup InCatch)
  /\ CallFault
  /\ GoTo(w, d, IF call[w][d].stage \in {"sent"} \cup InTry THEN "error" ELSE "threw")
  /\ UNCHANGED <<status, recorded, asked, posts, accepted, jobVars>>

-----------------------------------------------------------------------------
(* The steps of the queue.  A handler that begins, has returned or has     *)
(* thrown leaves no call behind.                                           *)
Forget(w, d) == call' = [call EXCEPT ![w][d] = NoCall]

Quiet == UNCHANGED <<status, recorded, asked, posts, accepted>>

HandlerReturns(w, d) ==
  /\ At(w, d, {"returned"})
  /\ Queue!HandlerSucceeds(w, d)
  /\ Forget(w, d)
  /\ Quiet /\ UNCHANGED callFaults

HandlerThrows(w, d) ==
  /\ At(w, d, {"threw"})
  /\ Queue!HandlerFails(w, d, FALSE)
  /\ Forget(w, d)
  /\ Quiet /\ UNCHANGED callFaults

(* The execution is refused before the handler begins, or the job's        *)
(* completion is written and reported as failed.                           *)
HandlerIsFailed(w, d, revoked) ==
  /\ At(w, d, {"begin", "returned"})
  /\ CallFault
  /\ Queue!HandlerFails(w, d, revoked)
  /\ Forget(w, d)
  /\ Quiet

SettlementThrows(w, d) ==
  /\ At(w, d, {"begin", "returned", "threw"})
  /\ Queue!SettlementThrows(w, d)
  /\ Forget(w, d)
  /\ Quiet /\ UNCHANGED callFaults

Crash(w) ==
  /\ Queue!Crash(w)
  /\ call' = [call EXCEPT ![w] = [d \in Deliveries |-> NoCall]]
  /\ Quiet /\ UNCHANGED callFaults

QueueStep ==
  /\ \/ \E w \in Workers, batch \in SUBSET Deliveries : Queue!Claim(w, batch)
     \/ \E w \in Workers, d \in Deliveries : Queue!StartHandler(w, d)
     \/ \E d \in Deliveries : Queue!LockExpires(d) \/ Queue!Discard(d)
  /\ UNCHANGED deliveryVars

HandlerStep(w, d) ==
  \/ Load(w, d) \/ Withhold(w, d) \/ SkipUnsent(w, d)
  \/ \E ok \in BOOLEAN : Send(w, d, ok)
  \/ RecordSent(w, d) \/ RecordFailure(w, d)
  \/ FallBack(w, d) \/ EnqueueFallback(w, d)
  \/ HandlerReturns(w, d) \/ HandlerThrows(w, d)

HandlerFault(w, d) ==
  \/ \E stage \in {"error", "threw"} : CheckThrows(w, d, stage)
  \/ \E ok \in BOOLEAN, stage \in {"send", "error", "threw"} : SendThrows(w, d, ok, stage)
  \/ WriteThrows(w, d)
  \/ \E revoked \in BOOLEAN : HandlerIsFailed(w, d, revoked)
  \/ SettlementThrows(w, d)

Next ==
  \/ \E batch \in SUBSET Deliveries : Publish(batch)
  \/ \E w \in Workers, d \in Deliveries : HandlerStep(w, d) \/ HandlerFault(w, d)
  \/ \E w \in Workers : Crash(w)
  \/ QueueStep

Spec == Init /\ [][Next]_vars

(* A worker goes on with what it has claimed.                              *)
Progress(w) ==
  \/ \E d \in Deliveries : Queue!StartHandler(w, d) /\ UNCHANGED deliveryVars
  \/ \E d \in Deliveries : HandlerStep(w, d)

(* The fairness of the queue: workers poll and go on, and the locks of     *)
(* abandoned rows grow old.  No provider is assumed to accept anything.    *)
FairSpec ==
  /\ Spec
  /\ \A w \in Workers :
       /\ WF_vars(\E batch \in SUBSET Deliveries :
                    Queue!Claim(w, batch) /\ UNCHANGED deliveryVars)
       /\ WF_vars(Progress(w))
  /\ \A d \in Deliveries :
       WF_vars(Queue!Abandoned(d) /\ Queue!LockExpires(d) /\ UNCHANGED deliveryVars)
-----------------------------------------------------------------------------
TypeOK ==
  /\ status \in [Deliveries -> Status]
  /\ recorded \in [Deliveries -> Nat]
  /\ call \in [Workers -> [Deliveries -> [stage : Stage, attempts : Nat]]]
  /\ asked \subseteq Deliveries
  /\ posts \in [Deliveries -> Nat]
  /\ accepted \in [Deliveries -> Nat]
  /\ callFaults \in 0 .. MaxCallFaults
  /\ Queue!TypeOK

(* A delivery is shown as SENT only if its provider accepted it, and an    *)
(* e-mail as FAILED only after its five attempts, each of them a request   *)
(* or a fault, however the handlers of several workers overwrite each      *)
(* other's results.                                                        *)
StatusIsEarned ==
  \A d \in Deliveries :
    /\ status[d] = "SENT" => accepted[d] > 0
    /\ status[d] = "FAILED" /\ Channel[d] = "EMAIL" =>
         posts[d] + callFaults >= MaxDeliveryAttempts

(* A recipient is told twice only because something failed.  That counts   *)
(* the messages of a delivery, and those of a Slack delivery together with *)
(* the e-mail that replaces it: a refusal is no fault, and a fallback that *)
(* follows one is the first message that arrives.                          *)
MessagesHaveAFault ==
  \A d \in Deliveries :
    /\ accepted[d] <= 1 + jobFaults + callFaults
    /\ Fallback[d] # None /\ Fallback[d] \notin asked =>
         accepted[d] + accepted[Fallback[d]] <= 1 + jobFaults + callFaults

Sending(d) == \E w \in Workers : d \in handling[w]

(* As long as nothing fails but the providers, no delivery is forgotten: a *)
(* PENDING one has a job that will try again (the attempts of the queue    *)
(* and those of the delivery are counted by two constants), and a Slack    *)
(* delivery that failed has left an e-mail with a job of its own.          *)
NothingIsForgotten ==
  jobFaults + callFaults = 0 =>
    \A d \in Deliveries : ~Sending(d) =>
      /\ status[d] = "PENDING" =>
           \/ jobStatus[d] \in {"PENDING", "RUNNING"}
           \/ \E s \in Deliveries : Fallback[s] = d /\ Sending(s)
      /\ status[d] = "FAILED" /\ Fallback[d] # None => jobStatus[Fallback[d]] # "ABSENT"

(* Every delivery ends, or its job does, however often its handler dies,   *)
(* loses its lock or is refused: there always comes a moment at which no   *)
(* delivery waits for a job that goes on.                                  *)
EveryDeliveryEnds ==
  []<>(\A d \in Deliveries :
         status[d] = "PENDING" => jobStatus[d] \in Queue!Terminal \cup {"ABSENT"})
=============================================================================
