------------------------ MODULE WebhookDeliveryProofs ------------------------
(***************************************************************************)
(* Proofs about WebhookDelivery, for any deliveries, workers and bounds.   *)
(*                                                                         *)
(* Each way in which a delivery may still be posted is counted: one for    *)
(* every worker that has yet to post it or to throw, and one for its job   *)
(* when it can be claimed, or will be since nobody holds it.  A claim      *)
(* moves the count from the job to the worker, a request uses it up, and   *)
(* only a fault adds to it.                                                *)
(***************************************************************************)
EXTENDS WebhookDelivery, FiniteSetTheorems, TLAPS

QueueFacts == INSTANCE WorkflowJobsProofs WITH
  Jobs <- Deliveries, Kind <- [d \in Deliveries |-> "plain"],
  Prerequisite <- [d \in Deliveries |-> None],
  status <- jobStatus, attempts <- jobAttempts, seen <- jobSeen,
  faults <- jobFaults, MaxFaults <- MaxJobFaults

(* What is proved of the queue is of another instance of the same module.  *)
LEMMA SameAssumptions == QueueFacts!JobAssumption /\ QueueFacts!BoundAssumption
BY QueueAssumption
   DEF Queue!JobAssumption, Queue!Kinds, Queue!IsFiniteSet, Queue!BoundAssumption,
       QueueFacts!JobAssumption, QueueFacts!Kinds, QueueFacts!IsFiniteSet,
       QueueFacts!BoundAssumption
LEMMA SameQueue ==
  /\ Queue!Init => QueueFacts!Init
  /\ [Queue!Next]_(Queue!vars) => [QueueFacts!Next]_(QueueFacts!vars)
BY DEF Queue!vars, QueueFacts!vars, Queue!row, QueueFacts!row, Queue!memory,
   QueueFacts!memory, Queue!InMemory, QueueFacts!InMemory, Queue!Unclaimed,
   QueueFacts!Unclaimed, Queue!Terminal, QueueFacts!Terminal,
   Queue!Abandoned, QueueFacts!Abandoned, Queue!Fault, QueueFacts!Fault,
   Queue!Init, QueueFacts!Init, Queue!ResolvedDependency,
   QueueFacts!ResolvedDependency, Queue!Enqueue, QueueFacts!Enqueue,
   Queue!Claimable, QueueFacts!Claimable, Queue!OneLane, QueueFacts!OneLane,
   Queue!Remembered, QueueFacts!Remembered, Queue!Claim, QueueFacts!Claim,
   Queue!StartHandler, QueueFacts!StartHandler, Queue!HoldsLock,
   QueueFacts!HoldsLock, Queue!HoldsAttempt, QueueFacts!HoldsAttempt,
   Queue!MaySettle, QueueFacts!MaySettle, Queue!Release, QueueFacts!Release,
   Queue!Settle, QueueFacts!Settle, Queue!LeaveHandler,
   QueueFacts!LeaveHandler, Queue!HandlerSucceeds,
   QueueFacts!HandlerSucceeds, Queue!FailureStatus,
   QueueFacts!FailureStatus, Queue!HandlerFails, QueueFacts!HandlerFails,
   Queue!HandlerDefers, QueueFacts!HandlerDefers, Queue!SettlementThrows,
   QueueFacts!SettlementThrows, Queue!LockExpires, QueueFacts!LockExpires,
   Queue!Crash, QueueFacts!Crash, Queue!RequestVariantAgain,
   QueueFacts!RequestVariantAgain, Queue!RetryDiagnostic,
   QueueFacts!RetryDiagnostic, Queue!Discard, QueueFacts!Discard,
   Queue!Next, QueueFacts!Next,
   Queue!Cardinality, QueueFacts!Cardinality

-----------------------------------------------------------------------------
(* The steps of a handler that leave the queue alone.                      *)
LEMMA HandlerEffect ==
  ASSUME NEW w \in Workers, NEW d \in Deliveries,
         \/ Load(w, d) \/ LoadThrows(w, d)
         \/ \E ok \in BOOLEAN : Post(w, d, ok) \/ PostThrows(w, d, ok)
         \/ RecordSuccess(w, d) \/ RecordFailure(w, d) \/ RecordThrows(w, d)
  PROVE  UNCHANGED <<jobVars, active>> /\ d \in handling[w]
BY DEF Load, LoadThrows, Post, PostThrows, RecordSuccess, RecordFailure, RecordThrows,
       Record, At

LEMMA QueueNext == [Next]_vars => [Queue!Next]_(Queue!vars)
<1> SUFFICES ASSUME [Next]_vars PROVE Queue!Next \/ UNCHANGED Queue!vars
  OBVIOUS
<1>j. ASSUME UNCHANGED jobVars PROVE UNCHANGED Queue!vars
  BY <1>j DEF jobVars, Queue!vars, Queue!row, Queue!memory
<1>1. ASSUME NEW batch \in SUBSET Deliveries, Publish(batch) PROVE Queue!Next
  BY <1>1 DEF Publish, Queue!Next
<1>2. ASSUME NEW p \in Endpoints, Configure(p) PROVE UNCHANGED Queue!vars
  BY <1>2, <1>j DEF Configure
<1>3. ASSUME NEW w \in Workers, NEW d \in Deliveries, HandlerStep(w, d)
      PROVE  Queue!Next \/ UNCHANGED Queue!vars
  BY <1>3, <1>j, HandlerEffect DEF HandlerStep, HandlerReturns, HandlerThrows, Queue!Next
<1>4. ASSUME NEW w \in Workers, NEW d \in Deliveries,
             SettlementThrows(w, d) \/ \E revoked \in BOOLEAN : HandlerIsFailed(w, d, revoked)
      PROVE  Queue!Next
  BY <1>4 DEF SettlementThrows, HandlerIsFailed, Queue!Next
<1>5. ASSUME NEW w \in Workers, Crash(w) PROVE Queue!Next
  BY <1>5 DEF Crash, Queue!Next
<1>6. ASSUME QueueStep PROVE Queue!Next
  BY <1>6 DEF QueueStep, Queue!Next
<1>7. CASE UNCHANGED vars
  BY <1>7, <1>j DEF vars
<1> QED BY <1>1, <1>2, <1>3, <1>4, <1>5, <1>6, <1>7 DEF Next

(* The deliveries implement the job queue: their handlers settle a job as  *)
(* any handler does, and all that holds of the queue holds here.           *)
THEOREM ImplementsQueue == Spec => Queue!Spec
<1>1. Init => Queue!Init
  BY DEF Init
<1> QED BY <1>1, QueueNext, PTL DEF Spec, Queue!Spec

LEMMA QueueInvariant == Spec => []QueueFacts!Inv
<1>1. Spec => QueueFacts!Spec
  BY ImplementsQueue, SameQueue, PTL DEF Queue!Spec, QueueFacts!Spec
<1>2. QueueFacts!Spec => []QueueFacts!Inv
  BY SameAssumptions, QueueFacts!Invariance
     DEF QueueFacts!JobAssumption, QueueFacts!BoundAssumption
<1> QED BY <1>1, <1>2

-----------------------------------------------------------------------------
(* What a handler remembers, and what the table shows.                     *)
CallOK == call \in [Workers -> [Deliveries -> [stage : Stage, attempts : Nat]]]

CountersOK ==
  /\ status \in [Deliveries -> Status]
  /\ recorded \in [Deliveries -> Nat]
  /\ active \in [Endpoints -> BOOLEAN]
  /\ posts \in [Deliveries -> Nat]
  /\ accepted \in [Deliveries -> Nat]
  /\ callFaults \in 0 .. MaxCallFaults

(* Where no handler runs there is no call.                                 *)
IdleIsEmpty ==
  \A w \in Workers, d \in Deliveries : d \notin handling[w] => call[w][d] = NoCall

(* A handler has read no more attempts than there were requests, and one   *)
(* that has an answer has sent a request since.                            *)
CallFits ==
  \A w \in Workers, d \in Deliveries :
    /\ call[w][d].attempts <= posts[d]
    /\ call[w][d].stage \in {"ok", "refused", "error"} => call[w][d].attempts < posts[d]
    /\ call[w][d].stage = "ok" => accepted[d] > 0

Shown == CallOK /\ CountersOK /\ IdleIsEmpty /\ CallFits /\ StatusIsEarned /\ AttemptsWereMade

LEMMA GoToEffect ==
  ASSUME CallOK, NEW w \in Workers, NEW d \in Deliveries, NEW stage \in Stage,
         GoTo(w, d, stage)
  PROVE  /\ CallOK'
         /\ call'[w][d] = [stage |-> stage, attempts |-> call[w][d].attempts]
         /\ \A v \in Workers, k \in Deliveries :
              v # w \/ k # d => call'[v][k] = call[v][k]
BY DEF GoTo, CallOK

(* A handler that goes on remembers what it has read.                      *)
LEMMA GoOn ==
  ASSUME Shown, NEW w \in Workers, NEW d \in handling[w], d \in Deliveries,
         NEW stage \in Stage, GoTo(w, d, stage), UNCHANGED handling,
         CountersOK',
         \A k \in Deliveries : posts[k] <= posts'[k] /\ accepted[k] <= accepted'[k],
         stage \in {"ok", "refused", "error"} => call[w][d].attempts < posts'[d],
         stage = "ok" => accepted'[d] > 0
  PROVE  CallOK' /\ IdleIsEmpty' /\ CallFits'
<1>0. CallOK /\ CountersOK /\ IdleIsEmpty /\ CallFits
  BY DEF Shown
<1>1. /\ CallOK'
      /\ call'[w][d] = [stage |-> stage, attempts |-> call[w][d].attempts]
      /\ \A v \in Workers, k \in Deliveries :
           v # w \/ k # d => call'[v][k] = call[v][k]
  BY <1>0, GoToEffect
<1>2. IdleIsEmpty'
  BY <1>0, <1>1 DEF IdleIsEmpty
<1>3. CallFits'
  <2> SUFFICES ASSUME NEW v \in Workers, NEW k \in Deliveries
               PROVE  /\ call'[v][k].attempts <= posts'[k]
                      /\ call'[v][k].stage \in {"ok", "refused", "error"}
                           => call'[v][k].attempts < posts'[k]
                      /\ call'[v][k].stage = "ok" => accepted'[k] > 0
    BY DEF CallFits
  <2>1. /\ call[v][k].attempts \in Nat
        /\ posts[k] \in Nat /\ posts'[k] \in Nat
        /\ accepted[k] \in Nat /\ accepted'[k] \in Nat
        /\ posts[k] <= posts'[k] /\ accepted[k] <= accepted'[k]
    BY <1>0 DEF CallOK, CountersOK
  <2>2. /\ call[v][k].attempts <= posts[k]
        /\ call[v][k].stage \in {"ok", "refused", "error"} => call[v][k].attempts < posts[k]
        /\ call[v][k].stage = "ok" => accepted[k] > 0
    BY <1>0 DEF CallFits
  <2>3. CASE v = w /\ k = d
    <3>1. call'[v][k].stage = stage /\ call'[v][k].attempts = call[v][k].attempts
      BY <1>1, <2>3
    <3> QED BY <2>1, <2>2, <2>3, <3>1
  <2>4. CASE ~(v = w /\ k = d)
    <3>1. call'[v][k] = call[v][k]
      BY <1>1, <2>4
    <3> QED BY <2>1, <2>2, <3>1
  <2> QED BY <2>3, <2>4
<1> QED BY <1>1, <1>2, <1>3

(* The steps of a handler, one by one.                                     *)
LEMMA HandlerShown ==
  ASSUME Shown, NEW w \in Workers, NEW d \in Deliveries,
         \/ Load(w, d) \/ LoadThrows(w, d)
         \/ \E ok \in BOOLEAN : Post(w, d, ok) \/ PostThrows(w, d, ok)
         \/ RecordSuccess(w, d) \/ RecordFailure(w, d) \/ RecordThrows(w, d)
  PROVE  Shown'
<1> USE WebhookAssumption
<1>0. /\ CallOK /\ CountersOK /\ IdleIsEmpty /\ CallFits
      /\ StatusIsEarned /\ AttemptsWereMade
  BY DEF Shown
<1>h. d \in handling[w] /\ handling' = handling /\ active' = active
  BY HandlerEffect DEF jobVars
<1>c. /\ call[w][d] \in [stage : Stage, attempts : Nat]
      /\ posts[d] \in Nat
      /\ call[w][d].attempts <= posts[d]
      /\ call[w][d].stage \in {"ok", "refused", "error"} => call[w][d].attempts < posts[d]
      /\ call[w][d].stage = "ok" => accepted[d] > 0
  BY <1>0 DEF CallOK, CallFits, CountersOK
<1>1. CASE Load(w, d)
  <2> DEFINE c == [stage |-> IF active[EndpointOf[d]] THEN "post" ELSE "returned",
                   attempts |-> recorded[d]]
  <2>1. c \in [stage : Stage, attempts : Nat]
    BY <1>0 DEF Stage, CountersOK
  <2>2. /\ call' = [call EXCEPT ![w][d] = c]
        /\ UNCHANGED <<status, recorded, posts, accepted, callFaults>>
    BY <1>1 DEF Load
  <2>3. c.attempts = recorded[d] /\ c.stage \in {"post", "returned"}
    OBVIOUS
  <2> HIDE DEF c
  <2>4. CallOK' /\ \A v \in Workers, k \in Deliveries :
               call'[v][k] = IF v = w /\ k = d THEN c ELSE call[v][k]
    BY <1>0, <2>1, <2>2 DEF CallOK
  <2>5. IdleIsEmpty'
    BY <1>0, <1>h, <2>4 DEF IdleIsEmpty
  <2>6. CallFits'
    BY <1>0, <2>2, <2>3, <2>4 DEF CallFits, AttemptsWereMade
  <2> QED BY <1>0, <1>h, <2>2, <2>4, <2>5, <2>6
          DEF Shown, CountersOK, StatusIsEarned, AttemptsWereMade
<1>2. CASE LoadThrows(w, d)
  <2>1. GoTo(w, d, "threw") /\ "threw" \in Stage
    BY <1>2 DEF LoadThrows, Stage
  <2>2. UNCHANGED <<status, recorded, posts, accepted>> /\ callFaults' \in 0 .. MaxCallFaults
    BY <1>0, <1>2 DEF LoadThrows, CallFault, CountersOK
  <2>3. CountersOK' /\ StatusIsEarned' /\ AttemptsWereMade'
    BY <1>0, <1>h, <2>2 DEF CountersOK, StatusIsEarned, AttemptsWereMade
  <2>4. \A k \in Deliveries : posts[k] <= posts'[k] /\ accepted[k] <= accepted'[k]
    BY <1>0, <2>2 DEF CountersOK
  <2>5. CallOK' /\ IdleIsEmpty' /\ CallFits'
    BY <1>h, <2>1, <2>3, <2>4, GoOn
  <2> QED BY <2>3, <2>5 DEF Shown
<1>3. ASSUME NEW ok \in BOOLEAN, Post(w, d, ok) \/ PostThrows(w, d, ok) PROVE Shown'
  <2>1. PICK stage \in {"ok", "refused", "error"} :
               GoTo(w, d, stage) /\ (stage = "ok" => ok)
    BY <1>3 DEF Post, PostThrows
  <2>2. /\ posts' = [posts EXCEPT ![d] = @ + 1]
        /\ accepted' = [accepted EXCEPT ![d] = IF ok THEN @ + 1 ELSE @]
        /\ UNCHANGED <<status, recorded>>
        /\ callFaults' \in 0 .. MaxCallFaults
    BY <1>0, <1>3 DEF Post, PostThrows, CallFault, CountersOK
  <2>3. /\ posts' \in [Deliveries -> Nat] /\ accepted' \in [Deliveries -> Nat]
        /\ \A k \in Deliveries : posts[k] <= posts'[k] /\ accepted[k] <= accepted'[k]
        /\ posts'[d] = posts[d] + 1
        /\ ok => accepted'[d] > 0
    BY <1>0, <2>2 DEF CountersOK
  <2>4. CountersOK'
    BY <1>0, <1>h, <2>2, <2>3 DEF CountersOK
  <2>5. CallOK' /\ IdleIsEmpty' /\ CallFits'
    <3>1. stage \in Stage /\ call[w][d].attempts < posts'[d]
      BY <1>c, <2>3 DEF Stage
    <3> QED BY <1>h, <2>1, <2>3, <2>4, <3>1, GoOn
  <2>6. StatusIsEarned' /\ AttemptsWereMade'
    BY <1>0, <2>2, <2>3, WebhookAssumption DEF StatusIsEarned, AttemptsWereMade, CountersOK
  <2> QED BY <2>4, <2>5, <2>6 DEF Shown
<1>4. ASSUME RecordSuccess(w, d) \/ RecordFailure(w, d) PROVE Shown'
  <2>1. GoTo(w, d, "returned") /\ "returned" \in Stage
    BY <1>4 DEF RecordSuccess, RecordFailure, Stage
  <2>2. PICK outcome \in Status \ {"ABSENT"} :
          /\ status' = [status EXCEPT ![d] = outcome]
          /\ outcome = "DELIVERED" => call[w][d].stage = "ok"
          /\ outcome = "FAILED" => call[w][d].attempts + 1 >= MaxDeliveryAttempts
    BY <1>4 DEF RecordSuccess, RecordFailure, Record, FailureStatus, At, Status
  <2>3. /\ recorded' = [recorded EXCEPT ![d] = call[w][d].attempts + 1]
        /\ UNCHANGED <<posts, accepted, callFaults>>
        /\ call[w][d].stage \in {"ok", "refused", "error"}
    BY <1>4 DEF RecordSuccess, RecordFailure, Record, At
  <2>4. call[w][d].attempts \in Nat /\ call[w][d].attempts + 1 <= posts[d]
    BY <1>c, <2>3
  <2>5. CountersOK' /\ \A k \in Deliveries : posts[k] <= posts'[k] /\ accepted[k] <= accepted'[k]
    BY <1>0, <1>h, <2>2, <2>3, <2>4 DEF CountersOK
  <2>6. CallOK' /\ IdleIsEmpty' /\ CallFits'
    BY <1>h, <2>1, <2>5, GoOn
  <2>7. StatusIsEarned'
    BY <1>0, <1>c, <2>2, <2>3, <2>4 DEF StatusIsEarned, CountersOK
  <2>8. AttemptsWereMade'
    BY <1>0, <2>3, <2>4 DEF AttemptsWereMade, CountersOK
  <2> QED BY <2>5, <2>6, <2>7, <2>8 DEF Shown
<1>5. CASE RecordThrows(w, d)
  <2>1. PICK stage \in {"threw", "error"} :
          /\ GoTo(w, d, stage)
          /\ call[w][d].stage \in {"ok", "refused", "error"}
    BY <1>5 DEF RecordThrows, At
  <2>2. UNCHANGED <<status, recorded, posts, accepted>> /\ callFaults' \in 0 .. MaxCallFaults
    BY <1>0, <1>5 DEF RecordThrows, CallFault, CountersOK
  <2>3. CountersOK' /\ StatusIsEarned' /\ AttemptsWereMade'
    BY <1>0, <1>h, <2>2 DEF CountersOK, StatusIsEarned, AttemptsWereMade
  <2>4. \A k \in Deliveries : posts[k] <= posts'[k] /\ accepted[k] <= accepted'[k]
    BY <1>0, <2>2 DEF CountersOK
  <2>5. stage \in Stage /\ call[w][d].attempts < posts'[d]
    BY <1>c, <2>1, <2>2 DEF Stage
  <2>6. CallOK' /\ IdleIsEmpty' /\ CallFits'
    BY <1>h, <2>1, <2>3, <2>4, <2>5, GoOn
  <2> QED BY <2>3, <2>6 DEF Shown
<1> QED BY <1>1, <1>2, <1>3, <1>4, <1>5

-----------------------------------------------------------------------------
(* What the steps of the queue do to the memory of the workers.            *)
LEMMA LeaveEffect ==
  ASSUME QueueFacts!Inv, NEW w \in Workers, NEW d \in Deliveries,
         \/ Queue!HandlerSucceeds(w, d)
         \/ \E revoked \in BOOLEAN : Queue!HandlerFails(w, d, revoked)
  PROVE  /\ d \in handling[w]
         /\ handling' = [handling EXCEPT ![w] = @ \ {d}]
         /\ UNCHANGED <<queued, jobFaults>>
         /\ \A k \in Deliveries \ {d} :
              /\ jobStatus'[k] = jobStatus[k]
              /\ lockedBy'[k] = lockedBy[k]
              /\ expired'[k] = expired[k]
         /\ Queue!HandlerSucceeds(w, d) => jobStatus'[d] = "COMPLETED"
<1>1. Queue!MaySettle(w, d)
  BY DEF Queue!MaySettle
<1>2. PICK outcome : /\ Queue!Release(d, outcome)
                     /\ Queue!HandlerSucceeds(w, d) => outcome = "COMPLETED"
  BY <1>1 DEF Queue!HandlerSucceeds, Queue!HandlerFails, Queue!Settle
<1>3. /\ jobStatus \in [Deliveries -> QueueFacts!Status]
      /\ lockedBy \in [Deliveries -> Workers \cup {None}]
      /\ expired \in [Deliveries -> BOOLEAN]
  BY DEF QueueFacts!Inv, QueueFacts!TypeOK
<1>4. /\ jobStatus'[d] = outcome
      /\ \A k \in Deliveries \ {d} :
           /\ jobStatus'[k] = jobStatus[k]
           /\ lockedBy'[k] = lockedBy[k]
           /\ expired'[k] = expired[k]
  BY <1>2, <1>3 DEF Queue!Release
<1> QED BY <1>2, <1>4 DEF Queue!HandlerSucceeds, Queue!HandlerFails, Queue!LeaveHandler

LEMMA SettlementThrowsEffect ==
  ASSUME QueueFacts!Inv, NEW w \in Workers, NEW d \in Deliveries,
         Queue!SettlementThrows(w, d)
  PROVE  /\ d \in handling[w]
         /\ handling' = [handling EXCEPT ![w] = @ \ {d}]
         /\ \A v \in Workers : queued'[v] \subseteq queued[v]
         /\ jobFaults' = jobFaults + 1
BY DEF Queue!SettlementThrows, Queue!Fault, QueueFacts!Inv, QueueFacts!TypeOK

LEMMA CrashEffect ==
  ASSUME QueueFacts!Inv, NEW w \in Workers, Queue!Crash(w)
  PROVE  /\ handling' = [handling EXCEPT ![w] = {}]
         /\ queued' = [queued EXCEPT ![w] = {}]
         /\ jobFaults' = jobFaults + 1
BY DEF Queue!Crash, Queue!Fault

(* A handler that is left leaves no call.                                  *)
LEMMA ForgetShown ==
  ASSUME Shown, QueueFacts!Inv, NEW w \in Workers, NEW d \in Deliveries, Forget(w, d),
         Quiet, callFaults' \in 0 .. MaxCallFaults,
         handling' = [handling EXCEPT ![w] = @ \ {d}]
  PROVE  Shown'
<1>1. NoCall \in [stage : Stage, attempts : Nat]
  BY DEF NoCall, Stage
<1>2. CallOK' /\ \A v \in Workers, k \in Deliveries :
              call'[v][k] = IF v = w /\ k = d THEN NoCall ELSE call[v][k]
  BY <1>1 DEF Shown, CallOK, Forget
<1>3. IdleIsEmpty'
  BY <1>2 DEF Shown, IdleIsEmpty, QueueFacts!Inv, QueueFacts!TypeOK
<1>4. CallFits'
  BY <1>2 DEF Shown, CallFits, Quiet, NoCall, CountersOK
<1> QED BY <1>2, <1>3, <1>4
        DEF Shown, CountersOK, Quiet, StatusIsEarned, AttemptsWereMade

(* The other steps leave calls alone.                                      *)
LEMMA CallKeptShown ==
  ASSUME Shown, UNCHANGED <<recorded, call, posts, accepted, callFaults>>,
         active' \in [Endpoints -> BOOLEAN],
         status' \in [Deliveries -> Status],
         \A d \in Deliveries : status'[d] = status[d] \/ status'[d] = "PENDING",
         \A w \in Workers : handling[w] \subseteq handling'[w]
  PROVE  Shown'
BY DEF Shown, CallOK, CountersOK, IdleIsEmpty, CallFits, StatusIsEarned, AttemptsWereMade

LEMMA ShownStep == ASSUME Shown, QueueFacts!Inv, [Next]_vars PROVE Shown'
<1>0. /\ handling \in [Workers -> SUBSET Deliveries]
      /\ active \in [Endpoints -> BOOLEAN] /\ status \in [Deliveries -> Status]
      /\ callFaults \in 0 .. MaxCallFaults
  BY DEF QueueFacts!Inv, QueueFacts!TypeOK, Shown, CountersOK
<1>1. ASSUME NEW batch \in SUBSET Deliveries, Publish(batch) PROVE Shown'
  <2>1. handling' = handling
    BY <1>1 DEF Publish, Queue!Enqueue, Queue!memory
  <2>2. /\ status' \in [Deliveries -> Status]
        /\ \A d \in Deliveries : status'[d] = status[d] \/ status'[d] = "PENDING"
    BY <1>0, <1>1 DEF Publish, Status
  <2> QED BY <1>0, <1>1, <2>1, <2>2, CallKeptShown DEF Publish
<1>2. ASSUME NEW p \in Endpoints, Configure(p) PROVE Shown'
  BY <1>0, <1>2, CallKeptShown DEF Configure, jobVars
<1>3. ASSUME NEW w \in Workers, NEW d \in Deliveries, HandlerStep(w, d) PROVE Shown'
  <2>1. CASE HandlerReturns(w, d) \/ HandlerThrows(w, d)
    <3>1. handling' = [handling EXCEPT ![w] = @ \ {d}]
      BY <2>1, LeaveEffect DEF HandlerReturns, HandlerThrows
    <3> QED BY <1>0, <2>1, <3>1, ForgetShown DEF HandlerReturns, HandlerThrows
  <2> QED BY <1>3, <2>1, HandlerShown DEF HandlerStep
<1>4. ASSUME NEW w \in Workers, NEW d \in Deliveries, NEW revoked \in BOOLEAN,
             HandlerIsFailed(w, d, revoked)
      PROVE  Shown'
  <2>1. handling' = [handling EXCEPT ![w] = @ \ {d}] /\ callFaults' \in 0 .. MaxCallFaults
    BY <1>0, <1>4, LeaveEffect, WebhookAssumption DEF HandlerIsFailed, CallFault
  <2> QED BY <1>4, <2>1, ForgetShown DEF HandlerIsFailed
<1>5. ASSUME NEW w \in Workers, NEW d \in Deliveries, SettlementThrows(w, d) PROVE Shown'
  BY <1>0, <1>5, SettlementThrowsEffect, ForgetShown DEF SettlementThrows
<1>6. ASSUME NEW w \in Workers, Crash(w) PROVE Shown'
  <2>1. handling' = [handling EXCEPT ![w] = {}]
    BY <1>6, CrashEffect DEF Crash
  <2>2. NoCall \in [stage : Stage, attempts : Nat]
    BY DEF NoCall, Stage
  <2>3. [d \in Deliveries |-> NoCall] \in [Deliveries -> [stage : Stage, attempts : Nat]]
    BY <2>2
  <2>4. CallOK' /\ \A v \in Workers, k \in Deliveries :
               call'[v][k] = IF v = w THEN NoCall ELSE call[v][k]
    BY <1>6, <2>3 DEF Shown, CallOK, Crash
  <2>5. IdleIsEmpty'
    BY <1>0, <2>1, <2>4 DEF Shown, IdleIsEmpty
  <2>6. CallFits'
    BY <1>6, <2>4 DEF Crash, Shown, CallFits, Quiet, NoCall, CountersOK
  <2> QED BY <1>0, <1>6, <2>4, <2>5, <2>6
          DEF Crash, Shown, CountersOK, Quiet, StatusIsEarned, AttemptsWereMade
<1>7. ASSUME QueueStep PROVE Shown'
  <2>1. \A w \in Workers : handling[w] \subseteq handling'[w]
    BY <1>0, <1>7 DEF QueueStep, Queue!Claim, Queue!StartHandler, Queue!LockExpires,
                    Queue!Discard, Queue!memory
  <2> QED BY <1>0, <1>7, <2>1, CallKeptShown DEF QueueStep, deliveryVars
<1>8. CASE UNCHANGED vars
  BY <1>0, <1>8, CallKeptShown DEF vars, deliveryVars, jobVars
<1> QED BY <1>1, <1>2, <1>3, <1>4, <1>5, <1>6, <1>7, <1>8 DEF Next

-----------------------------------------------------------------------------
(* The requests that may still be sent.                                    *)
MayPost(w, d) ==
  \/ d \in queued[w]
  \/ d \in handling[w] /\ call[w][d].stage \in {"begin", "post", "threw"}

Holders(d) == {w \in Workers : MayPost(w, d)}
Count(d) == Cardinality(Holders(d))

Claims(d) ==
  IF \/ jobStatus[d] \in {"ABSENT", "PENDING"}
     \/ jobStatus[d] = "RUNNING" /\ (expired[d] \/ Queue!Abandoned(d))
    THEN 1
    ELSE 0

Budget(d) == posts[d] + Count(d) + Claims(d) <= 1 + jobFaults + callFaults

LEMMA HoldersFinite ==
  ASSUME NEW d PROVE IsFiniteSet(Holders(d)) /\ Count(d) \in Nat
<1>1. IsFiniteSet(Holders(d))
  BY WebhookAssumption, FS_Subset DEF Holders
<1> QED BY <1>1, FS_CardinalityType DEF Count

LEMMA HoldersFinitePrimed ==
  ASSUME NEW d PROVE IsFiniteSet(Holders(d)') /\ Count(d)' \in Nat
<1>1. IsFiniteSet(Holders(d)')
  BY WebhookAssumption, FS_Subset DEF Holders
<1> QED BY <1>1, FS_CardinalityType DEF Count

(* Counting holders that come and go.                                      *)
LEMMA CountStep ==
  ASSUME NEW d
  PROVE  /\ Holders(d)' \subseteq Holders(d) => Count(d)' <= Count(d)
         /\ \A w \in Holders(d) :
              Holders(d)' \subseteq Holders(d) \ {w} => Count(d)' <= Count(d) - 1
         /\ \A w : Holders(d)' \subseteq Holders(d) \cup {w} => Count(d)' <= Count(d) + 1
<1>1. IsFiniteSet(Holders(d)) /\ Count(d) \in Nat /\ Count(d)' \in Nat
  BY HoldersFinite, HoldersFinitePrimed
<1>2. ASSUME Holders(d)' \subseteq Holders(d) PROVE Count(d)' <= Count(d)
  BY <1>1, <1>2, FS_Subset DEF Count
<1>3. ASSUME NEW w \in Holders(d), Holders(d)' \subseteq Holders(d) \ {w}
      PROVE  Count(d)' <= Count(d) - 1
  <2>1. /\ IsFiniteSet(Holders(d) \ {w})
        /\ Cardinality(Holders(d) \ {w}) = Cardinality(Holders(d)) - 1
    BY <1>1, FS_RemoveElement
  <2>2. Cardinality(Holders(d)') <= Cardinality(Holders(d) \ {w})
    BY <1>3, <2>1, FS_Subset
  <2> QED BY <1>1, <2>1, <2>2 DEF Count
<1>4. ASSUME NEW w, Holders(d)' \subseteq Holders(d) \cup {w}
      PROVE  Count(d)' <= Count(d) + 1
  <2>1. CASE w \in Holders(d)
    <3>1. Holders(d)' \subseteq Holders(d)
      BY <1>4, <2>1
    <3> QED BY <1>1, <1>2, <3>1
  <2>2. CASE w \notin Holders(d)
    <3>1. /\ IsFiniteSet(Holders(d) \cup {w})
          /\ Cardinality(Holders(d) \cup {w}) = Cardinality(Holders(d)) + 1
      BY <1>1, <2>2, FS_AddElement
    <3>2. Cardinality(Holders(d)') <= Cardinality(Holders(d) \cup {w})
      BY <1>4, <3>1, FS_Subset
    <3> QED BY <1>1, <3>1, <3>2 DEF Count
  <2> QED BY <2>1, <2>2
<1> QED BY <1>2, <1>3, <1>4

(* The claims on a row that a step leaves alone.                           *)
LEMMA ClaimsKept ==
  ASSUME NEW d \in Deliveries,
         jobStatus'[d] = jobStatus[d], lockedBy'[d] = lockedBy[d], expired'[d] = expired[d],
         \A w \in Workers :
           d \in queued[w] \cup handling[w] <=> d \in queued'[w] \cup handling'[w]
  PROVE  Claims(d)' = Claims(d)
<1>1. Queue!Abandoned(d)' <=> Queue!Abandoned(d)
  BY DEF Queue!Abandoned, Queue!InMemory
<1> QED BY <1>1 DEF Claims

(* The ways in which a step keeps the budget of a delivery.                *)
SameFaults == jobFaults' = jobFaults /\ callFaults' = callFaults
OneMoreFault ==
  \/ jobFaults' = jobFaults + 1 /\ callFaults' = callFaults
  \/ jobFaults' = jobFaults /\ callFaults' = callFaults + 1

LEMMA Balance ==
  ASSUME Shown, Shown', QueueFacts!Inv, QueueFacts!Inv', NEW d \in Deliveries, Budget(d),
         \/ /\ posts'[d] = posts[d] /\ SameFaults
            /\ Holders(d)' \subseteq Holders(d) /\ Claims(d)' <= Claims(d)
         \/ /\ posts'[d] = posts[d] /\ OneMoreFault
            /\ Holders(d)' \subseteq Holders(d)
         \/ /\ posts'[d] = posts[d] /\ OneMoreFault /\ Claims(d)' = Claims(d)
            /\ \E w : Holders(d)' \subseteq Holders(d) \cup {w}
         \/ /\ posts'[d] = posts[d] /\ SameFaults
            /\ \E w \in Holders(d) : Holders(d)' \subseteq Holders(d) \ {w}
         \/ /\ posts'[d] = posts[d] /\ SameFaults
            /\ Claims(d) = 1 /\ Claims(d)' = 0
            /\ \E w : Holders(d)' \subseteq Holders(d) \cup {w}
  PROVE  Budget(d)'
<1>1. /\ posts[d] \in Nat /\ posts'[d] \in Nat
      /\ callFaults \in Nat /\ callFaults' \in Nat
  BY WebhookAssumption DEF Shown, CountersOK
<1>2. jobFaults \in Nat /\ jobFaults' \in Nat
  BY SameAssumptions DEF QueueFacts!Inv, QueueFacts!TypeOK, QueueFacts!BoundAssumption
<1>3. Count(d) \in Nat /\ Count(d)' \in Nat
  BY HoldersFinite, HoldersFinitePrimed
<1>4. Claims(d) \in {0, 1} /\ Claims(d)' \in {0, 1}
  BY DEF Claims
<1> DEFINE n == Count(d)
<1> DEFINE c == Claims(d)
<1>5. \/ /\ posts'[d] = posts[d] /\ SameFaults /\ n' <= n /\ c' <= c
      \/ /\ posts'[d] = posts[d] /\ OneMoreFault /\ n' <= n
      \/ /\ posts'[d] = posts[d] /\ OneMoreFault /\ n' <= n + 1 /\ c' = c
      \/ /\ posts'[d] = posts[d] /\ SameFaults /\ n' <= n - 1
      \/ /\ posts'[d] = posts[d] /\ SameFaults /\ n' <= n + 1 /\ c = 1 /\ c' = 0
  BY CountStep
<1>6. posts[d] + n + c <= 1 + jobFaults + callFaults
  BY <1>1, <1>2, <1>3, <1>4 DEF Budget
<1>7. /\ n \in Nat /\ n' \in Nat
      /\ c \in Nat /\ c' \in Nat /\ c <= 1 /\ c' <= 1
  BY <1>3, <1>4
<1>8. posts'[d] + n' + c' <= 1 + jobFaults' + callFaults'
  <2> HIDE DEF n, c
  <2>1. CASE posts'[d] = posts[d] /\ SameFaults
    BY <1>1, <1>2, <1>5, <1>6, <1>7, <2>1 DEF SameFaults, OneMoreFault
  <2>2. CASE posts'[d] = posts[d] /\ OneMoreFault
    BY <1>1, <1>2, <1>5, <1>6, <1>7, <2>2 DEF SameFaults, OneMoreFault
  <2> QED BY <1>5, <2>1, <2>2
<1> QED BY <1>1, <1>2, <1>3, <1>4, <1>8 DEF Budget

(* A request is sent.                                                      *)
LEMMA BalancePost ==
  ASSUME Shown, Shown', QueueFacts!Inv, QueueFacts!Inv', NEW d \in Deliveries, Budget(d),
         NEW w \in Holders(d), Holders(d)' \subseteq Holders(d) \ {w},
         posts'[d] = posts[d] + 1, SameFaults \/ OneMoreFault,
         Claims(d)' = Claims(d)
  PROVE  Budget(d)'
<1>1. /\ posts[d] \in Nat /\ callFaults \in Nat /\ callFaults' \in Nat
      /\ jobFaults \in Nat /\ jobFaults' \in Nat
  BY WebhookAssumption, SameAssumptions
     DEF Shown, CountersOK, QueueFacts!Inv, QueueFacts!TypeOK, QueueFacts!BoundAssumption
<1>2. Count(d) \in Nat /\ Count(d)' \in Nat /\ Count(d)' <= Count(d) - 1
  BY HoldersFinite, HoldersFinitePrimed, CountStep
<1>3. Claims(d) \in {0, 1}
  BY DEF Claims
<1>4. posts[d] + 1 + Count(d)' + Claims(d)' <= 1 + (jobFaults + callFaults)
  BY <1>1, <1>2, <1>3 DEF Budget
<1> DEFINE n == Count(d)'
<1> DEFINE c == Claims(d)'
<1>5. n \in Nat /\ c \in Nat /\ posts[d] + 1 + n + c <= 1 + jobFaults + callFaults
  BY <1>1, <1>2, <1>3, <1>4
<1> HIDE DEF n, c
<1>6. posts'[d] + n + c <= 1 + jobFaults' + callFaults'
  <2>1. CASE jobFaults' = jobFaults /\ callFaults' = callFaults
    BY <1>1, <1>5, <2>1
  <2>2. CASE jobFaults' = jobFaults + 1 /\ callFaults' = callFaults
    BY <1>1, <1>5, <2>2
  <2>3. CASE jobFaults' = jobFaults /\ callFaults' = callFaults + 1
    BY <1>1, <1>5, <2>3
  <2> QED BY <2>1, <2>2, <2>3 DEF SameFaults, OneMoreFault
<1> USE DEF n, c
<1> QED BY <1>6 DEF Budget

-----------------------------------------------------------------------------
(* The budget of one delivery, step by step.                               *)
LEMMA BudgetStep ==
  ASSUME Shown, QueueFacts!Inv, QueueFacts!Inv', [Next]_vars, NEW k \in Deliveries, Budget(k)
  PROVE  Budget(k)'
<1>0. /\ Shown' /\ CallOK /\ CountersOK /\ IdleIsEmpty
      /\ handling \in [Workers -> SUBSET Deliveries]
      /\ queued \in [Workers -> SUBSET Deliveries]
      /\ \A w \in Workers : queued[w] \cap handling[w] = {}
      /\ jobStatus \in [Deliveries -> QueueFacts!Status]
      /\ expired \in [Deliveries -> BOOLEAN]
      /\ lockedBy \in [Deliveries -> Workers \cup {None}]
      /\ callFaults \in Nat /\ jobFaults \in Nat
  BY ShownStep, WebhookAssumption, SameAssumptions
     DEF Shown, CountersOK, QueueFacts!Inv, QueueFacts!TypeOK, QueueFacts!QueuedOrHandled,
         QueueFacts!BoundAssumption
<1>b. Claims(k) \in {0, 1} /\ Claims(k)' \in {0, 1}
  BY DEF Claims
<1>1. ASSUME NEW batch \in SUBSET Deliveries, Publish(batch) PROVE Budget(k)'
  <2>1. /\ UNCHANGED <<posts, call, queued, handling, lockedBy, expired>> /\ SameFaults
        /\ jobStatus'[k] = jobStatus[k] \/ (jobStatus[k] = "ABSENT" /\ jobStatus'[k] = "PENDING")
    BY <1>0, <1>1 DEF Publish, Queue!Enqueue, Queue!memory, SameFaults
  <2>2. Holders(k)' = Holders(k) /\ (Queue!Abandoned(k)' <=> Queue!Abandoned(k))
    BY <2>1 DEF Holders, MayPost, Queue!Abandoned, Queue!InMemory
  <2>3. Claims(k)' = Claims(k)
    BY <2>1, <2>2 DEF Claims
  <2> QED BY <1>0, <1>b, <2>1, <2>2, <2>3, Balance
<1>2. ASSUME UNCHANGED <<call, posts, callFaults, jobVars>> PROVE Budget(k)'
  <2>1. SameFaults /\ Holders(k)' = Holders(k) /\ Claims(k)' = Claims(k)
    BY <1>2, ClaimsKept DEF jobVars, Holders, MayPost, SameFaults
  <2> QED BY <1>0, <1>2, <1>b, <2>1, Balance
<1>3. ASSUME NEW w \in Workers, NEW d \in Deliveries,
             \/ Load(w, d) \/ LoadThrows(w, d)
             \/ \E ok \in BOOLEAN : Post(w, d, ok) \/ PostThrows(w, d, ok)
             \/ RecordSuccess(w, d) \/ RecordFailure(w, d) \/ RecordThrows(w, d)
      PROVE  Budget(k)'
  <2>1. UNCHANGED jobVars /\ d \in handling[w] /\ d \notin queued[w]
    BY <1>0, <1>3, HandlerEffect
  <2>2. Claims(k)' = Claims(k)
    BY <2>1, ClaimsKept DEF jobVars
  <2>3. ASSUME posts'[k] = posts[k], Holders(k)' \subseteq Holders(k),
               SameFaults \/ OneMoreFault
        PROVE  Budget(k)'
    BY <1>0, <1>b, <2>2, <2>3, Balance
  <2>4. ASSUME NEW stage \in Stage, GoTo(w, d, stage)
        PROVE  /\ call'[w][d].stage = stage
               /\ \A v \in Workers, j \in Deliveries :
                    v # w \/ j # d => call'[v][j] = call[v][j]
    <3>1. /\ call'[w][d] = [stage |-> stage, attempts |-> call[w][d].attempts]
          /\ \A v \in Workers, j \in Deliveries :
               v # w \/ j # d => call'[v][j] = call[v][j]
      BY <1>0, <2>4, GoToEffect
    <3> QED BY <3>1
  <2>5. CASE Load(w, d)
    <3>1. /\ posts' = posts /\ call[w][d].stage = "begin"
          /\ \A v \in Workers, j \in Deliveries :
               v # w \/ j # d => call'[v][j] = call[v][j]
      BY <1>0, <2>5 DEF Load, At, CallOK
    <3>2. Holders(k)' \subseteq Holders(k)
      BY <2>1, <3>1 DEF Holders, MayPost, jobVars
    <3>3. SameFaults
      BY <2>1, <2>5 DEF Load, jobVars, SameFaults
    <3> QED BY <2>3, <3>1, <3>2, <3>3
  <2>6. CASE LoadThrows(w, d)
    <3>1. /\ posts' = posts /\ call[w][d].stage = "begin"
          /\ GoTo(w, d, "threw") /\ "threw" \in Stage
      BY <2>6 DEF LoadThrows, At, Stage
    <3>2. Holders(k)' \subseteq Holders(k)
      BY <2>1, <2>4, <3>1 DEF Holders, MayPost, jobVars
    <3>3. OneMoreFault
      BY <1>0, <2>1, <2>6 DEF LoadThrows, CallFault, jobVars, SameFaults, OneMoreFault
    <3> QED BY <2>3, <3>1, <3>2, <3>3
  <2>7. ASSUME NEW ok \in BOOLEAN, Post(w, d, ok) \/ PostThrows(w, d, ok) PROVE Budget(k)'
    <3>1. PICK stage \in {"ok", "refused", "error"} : GoTo(w, d, stage)
      BY <2>7 DEF Post, PostThrows
    <3>2. /\ call[w][d].stage = "post"
          /\ posts'[k] = IF k = d THEN posts[k] + 1 ELSE posts[k]
      BY <1>0, <2>7 DEF Post, PostThrows, At, CountersOK
    <3>3. SameFaults \/ OneMoreFault
      BY <1>0, <2>1, <2>7 DEF Post, PostThrows, CallFault, jobVars, SameFaults, OneMoreFault
    <3>4. /\ call'[w][d].stage = stage
          /\ \A v \in Workers, j \in Deliveries :
               v # w \/ j # d => call'[v][j] = call[v][j]
      BY <2>4, <3>1 DEF Stage
    <3>5. CASE k = d
      <4>1. w \in Holders(k) /\ Holders(k)' \subseteq Holders(k) \ {w}
        BY <2>1, <3>2, <3>4, <3>5 DEF Holders, MayPost, jobVars
      <4>2. posts'[k] = posts[k] + 1
        BY <3>2, <3>5
      <4> QED BY <1>0, <2>2, <3>3, <4>1, <4>2, BalancePost
    <3>6. CASE k # d
      <4>1. Holders(k)' \subseteq Holders(k)
        BY <2>1, <3>4, <3>6 DEF Holders, MayPost, jobVars
      <4> QED BY <2>3, <3>2, <3>3, <3>6, <4>1
    <3> QED BY <3>5, <3>6
  <2>8. ASSUME RecordSuccess(w, d) \/ RecordFailure(w, d) PROVE Budget(k)'
    <3>1. /\ posts' = posts /\ callFaults' = callFaults
          /\ GoTo(w, d, "returned") /\ "returned" \in Stage
      BY <2>8 DEF RecordSuccess, RecordFailure, Record, Stage
    <3>2. Holders(k)' \subseteq Holders(k)
      BY <2>1, <2>4, <3>1 DEF Holders, MayPost, jobVars
    <3>3. SameFaults
      BY <2>1, <3>1 DEF jobVars, SameFaults
    <3> QED BY <2>3, <3>1, <3>2, <3>3
  <2>9. CASE RecordThrows(w, d)
    <3>1. PICK stage \in Stage : GoTo(w, d, stage)
      BY <2>9 DEF RecordThrows, Stage
    <3>2. posts' = posts /\ OneMoreFault
      BY <1>0, <2>1, <2>9 DEF RecordThrows, CallFault, jobVars, SameFaults, OneMoreFault
    <3>3. Holders(k)' \subseteq Holders(k) \cup {w}
      BY <2>1, <2>4, <3>1 DEF Holders, MayPost, jobVars
    <3> QED BY <1>0, <2>2, <3>2, <3>3, Balance
  <2> QED BY <1>3, <2>5, <2>6, <2>7, <2>8, <2>9
<1>4. ASSUME NEW w \in Workers, NEW d \in Deliveries,
             \/ Queue!HandlerSucceeds(w, d) /\ At(w, d, {"returned"}) /\ callFaults' = callFaults
             \/ /\ Queue!HandlerFails(w, d, FALSE)
                /\ At(w, d, {"threw"}) /\ callFaults' = callFaults
             \/ /\ \E revoked \in BOOLEAN : Queue!HandlerFails(w, d, revoked)
                /\ CallFault,
             Forget(w, d), Quiet
      PROVE  Budget(k)'
  <2>1. /\ d \in handling[w]
        /\ handling' = [handling EXCEPT ![w] = @ \ {d}]
        /\ UNCHANGED <<queued, jobFaults>>
        /\ \A j \in Deliveries \ {d} :
             /\ jobStatus'[j] = jobStatus[j]
             /\ lockedBy'[j] = lockedBy[j]
             /\ expired'[j] = expired[j]
        /\ Queue!HandlerSucceeds(w, d) => jobStatus'[d] = "COMPLETED"
    BY <1>4, LeaveEffect
  <2>2. /\ \A v \in Workers, j \in Deliveries :
             v # w \/ j # d => call'[v][j] = call[v][j]
        /\ posts' = posts
    BY <1>0, <1>4 DEF Forget, Quiet, CallOK
  <2>3. /\ Holders(k)' \subseteq Holders(k)
        /\ k = d => Holders(k)' \subseteq Holders(k) \ {w}
    BY <1>0, <2>1, <2>2 DEF Holders, MayPost
  <2>4. ASSUME k # d PROVE Claims(k)' = Claims(k)
    BY <1>0, <2>1, <2>4, ClaimsKept
  <2>5. CASE CallFault
    <3>1. OneMoreFault
      BY <1>0, <2>1, <2>5 DEF CallFault, OneMoreFault
    <3> QED BY <1>0, <2>2, <2>3, <3>1, Balance
  <2>6. CASE callFaults' = callFaults
    <3>1. SameFaults
      BY <2>1, <2>6 DEF SameFaults
    <3>2. CASE k # d
      BY <1>0, <1>b, <2>2, <2>3, <2>4, <3>1, <3>2, Balance
    <3>3. CASE k = d /\ Queue!HandlerSucceeds(w, d)
      <4>1. Claims(k)' = 0
        BY <2>1, <3>3 DEF Claims
      <4>2. Claims(k)' <= Claims(k)
        BY <1>b, <4>1
      <4> QED BY <1>0, <2>2, <2>3, <3>1, <4>2, Balance
    <3>4. CASE k = d /\ At(w, d, {"threw"})
      <4>1. w \in Holders(k)
        BY <3>4 DEF At, Holders, MayPost
      <4>2. \E v \in Holders(k) : Holders(k)' \subseteq Holders(k) \ {v}
        BY <2>3, <3>4, <4>1
      <4> QED BY <1>0, <2>2, <3>1, <4>2, Balance
    <3>5. ~ CallFault
      BY <1>0, <2>6 DEF CallFault
    <3>6. Queue!HandlerSucceeds(w, d) \/ At(w, d, {"threw"})
      BY <1>4, <3>5
    <3> QED BY <3>2, <3>3, <3>4, <3>6
  <2> QED BY <1>4, <2>5, <2>6
<1>5. ASSUME NEW w \in Workers,
             Crash(w) \/ \E d \in Deliveries : SettlementThrows(w, d)
      PROVE  Budget(k)'
  <2>1. posts' = posts /\ callFaults' = callFaults
    BY <1>5 DEF Crash, SettlementThrows, Quiet
  <2>2. OneMoreFault
    BY <1>0, <1>5, <2>1, CrashEffect, SettlementThrowsEffect
       DEF Crash, SettlementThrows, OneMoreFault
  <2>3. Holders(k)' \subseteq Holders(k)
    <3>1. CASE Crash(w)
      <4>1. /\ \A v \in Workers : v # w => call'[v] = call[v]
            /\ handling'[w] = {} /\ queued'[w] = {}
            /\ \A v \in Workers : v # w => handling'[v] = handling[v] /\ queued'[v] = queued[v]
        BY <1>0, <3>1, CrashEffect DEF Crash, CallOK
      <4> QED BY <4>1 DEF Holders, MayPost
    <3>2. ASSUME NEW d \in Deliveries, SettlementThrows(w, d)
          PROVE  Holders(k)' \subseteq Holders(k)
      <4>1. /\ \A v \in Workers, j \in Deliveries :
                 v # w \/ j # d => call'[v][j] = call[v][j]
            /\ handling' = [handling EXCEPT ![w] = @ \ {d}]
            /\ \A v \in Workers : queued'[v] \subseteq queued[v]
        BY <1>0, <3>2, SettlementThrowsEffect DEF SettlementThrows, Forget, CallOK
      <4> QED BY <1>0, <4>1 DEF Holders, MayPost
    <3> QED BY <1>5, <3>1, <3>2
  <2> QED BY <1>0, <2>1, <2>2, <2>3, Balance
<1>6. ASSUME NEW w \in Workers, NEW batch \in SUBSET Deliveries, Queue!Claim(w, batch),
             UNCHANGED deliveryVars
      PROVE  Budget(k)'
  <2>1. /\ queued[w] = {} /\ handling[w] = {}
        /\ queued' = [queued EXCEPT ![w] = batch]
        /\ UNCHANGED <<handling, jobFaults>>
        /\ jobStatus'[k] = IF k \in batch THEN "RUNNING" ELSE jobStatus[k]
        /\ lockedBy'[k] = IF k \in batch THEN w ELSE lockedBy[k]
        /\ expired'[k] = IF k \in batch THEN FALSE ELSE expired[k]
        /\ k \in batch => \/ jobStatus[k] = "PENDING"
                          \/ jobStatus[k] = "RUNNING" /\ expired[k]
    BY <1>6 DEF Queue!Claim, Queue!Claimable
  <2>2. SameFaults /\ posts' = posts /\ call' = call
    BY <1>6, <2>1 DEF deliveryVars, SameFaults
  <2>3. CASE k \in batch
    <3>1. Holders(k)' \subseteq Holders(k) \cup {w}
      BY <1>0, <2>1, <2>2 DEF Holders, MayPost
    <3>2. Claims(k) = 1
      BY <2>1, <2>3 DEF Claims
    <3>3. ~ Queue!Abandoned(k)'
      BY <1>0, <2>1, <2>3 DEF Queue!Abandoned, Queue!InMemory
    <3>4. Claims(k)' = 0
      BY <2>1, <2>3, <3>3 DEF Claims
    <3> QED BY <1>0, <2>2, <3>1, <3>2, <3>4, Balance
  <2>4. CASE k \notin batch
    <3>1. Holders(k)' \subseteq Holders(k)
      BY <1>0, <2>1, <2>2, <2>4 DEF Holders, MayPost
    <3>2. \A v \in Workers :
            k \in queued[v] \cup handling[v] <=> k \in queued'[v] \cup handling'[v]
      BY <1>0, <2>1, <2>4
    <3>3. Claims(k)' = Claims(k)
      BY <2>1, <2>4, <3>2, ClaimsKept
    <3> QED BY <1>0, <1>b, <2>2, <3>1, <3>3, Balance
  <2> QED BY <2>3, <2>4
<1>7. ASSUME NEW w \in Workers, NEW d \in Deliveries, Queue!StartHandler(w, d),
             UNCHANGED deliveryVars
      PROVE  Budget(k)'
  <2>1. /\ d \in queued[w] /\ d \notin handling[w]
        /\ queued' = [queued EXCEPT ![w] = @ \ {d}]
        /\ handling' = [handling EXCEPT ![w] = @ \cup {d}]
        /\ UNCHANGED <<jobStatus, lockedBy, expired, jobFaults>>
    BY <1>0, <1>7 DEF Queue!StartHandler, Queue!row
  <2>2. SameFaults /\ posts' = posts /\ call' = call
    BY <1>7, <2>1 DEF deliveryVars, SameFaults
  <2>3. Holders(k)' \subseteq Holders(k)
    BY <1>0, <2>1, <2>2 DEF Holders, MayPost
  <2>4. \A v \in Workers :
          k \in queued[v] \cup handling[v] <=> k \in queued'[v] \cup handling'[v]
    BY <1>0, <2>1
  <2>5. Claims(k)' = Claims(k)
    BY <2>1, <2>4, ClaimsKept
  <2> QED BY <1>0, <1>b, <2>2, <2>3, <2>5, Balance
<1>8. ASSUME NEW d \in Deliveries, Queue!LockExpires(d) \/ Queue!Discard(d),
             UNCHANGED deliveryVars
      PROVE  Budget(k)'
  <2>1. UNCHANGED <<queued, handling, posts, call, callFaults>>
    BY <1>8 DEF Queue!LockExpires, Queue!Discard, Queue!memory, deliveryVars
  <2>2. Holders(k)' \subseteq Holders(k)
    BY <2>1 DEF Holders, MayPost
  <2>3. CASE k # d \/ Queue!Discard(d)
    <3>1. Claims(k)' = Claims(k)
      <4>1. CASE k # d
        <5>1. /\ jobStatus'[k] = jobStatus[k] /\ lockedBy'[k] = lockedBy[k]
              /\ expired'[k] = expired[k]
          BY <1>0, <1>8, <4>1 DEF Queue!LockExpires, Queue!Discard
        <5> QED BY <2>1, <5>1, ClaimsKept
      <4>2. CASE k = d /\ Queue!Discard(d)
        BY <1>0, <4>2 DEF Queue!Discard, Claims
      <4> QED BY <2>3, <4>1, <4>2
    <3>2. SameFaults \/ OneMoreFault
      BY <1>0, <1>8, <2>1
         DEF Queue!LockExpires, Queue!Discard, Queue!Fault, SameFaults, OneMoreFault
    <3> QED BY <1>0, <1>b, <2>1, <2>2, <3>1, <3>2, Balance
  <2>4. CASE k = d /\ Queue!LockExpires(d)
    <3>1. CASE Queue!Abandoned(d) /\ UNCHANGED jobFaults
      <4>1. Claims(k) = 1
        BY <2>4, <3>1 DEF Queue!LockExpires, Claims
      <4>2. SameFaults /\ Claims(k)' <= Claims(k)
        BY <1>b, <2>1, <3>1, <4>1 DEF SameFaults
      <4> QED BY <1>0, <2>1, <2>2, <4>2, Balance
    <3>2. CASE Queue!Fault
      <4>1. OneMoreFault
        BY <1>0, <2>1, <3>2 DEF Queue!Fault, OneMoreFault
      <4> QED BY <1>0, <2>1, <2>2, <4>1, Balance
    <3> QED BY <2>4, <3>1, <3>2 DEF Queue!LockExpires
  <2> QED BY <1>8, <2>3, <2>4
<1>9. ASSUME NEW w \in Workers, NEW d \in Deliveries, HandlerStep(w, d) PROVE Budget(k)'
  BY <1>3, <1>4, <1>9 DEF HandlerStep, HandlerReturns, HandlerThrows
<1>10. ASSUME NEW w \in Workers, NEW d \in Deliveries, NEW revoked \in BOOLEAN,
              HandlerIsFailed(w, d, revoked)
       PROVE  Budget(k)'
  BY <1>4, <1>10 DEF HandlerIsFailed
<1>11. ASSUME QueueStep PROVE Budget(k)'
  BY <1>6, <1>7, <1>8, <1>11 DEF QueueStep
<1>12. ASSUME NEW p \in Endpoints, Configure(p) PROVE Budget(k)'
  BY <1>2, <1>12 DEF Configure
<1>13. CASE UNCHANGED vars
  BY <1>2, <1>13 DEF vars, deliveryVars
<1> QED BY <1>1, <1>5, <1>9, <1>10, <1>11, <1>12, <1>13 DEF Next
-----------------------------------------------------------------------------
LEMMA InitShown == Init => Shown /\ \A d \in Deliveries : Budget(d)
<1> SUFFICES ASSUME Init PROVE Shown /\ \A d \in Deliveries : Budget(d)
  OBVIOUS
<1>1. NoCall \in [stage : Stage, attempts : Nat] /\ NoCall.stage = "begin" /\ NoCall.attempts = 0
  BY DEF NoCall, Stage
<1>2. \A w \in Workers, d \in Deliveries : call[w][d] = NoCall
  BY DEF Init
<1>3. CallOK
  BY <1>1 DEF Init, CallOK
<1>4. CountersOK
  BY WebhookAssumption DEF Init, CountersOK, Status
<1>5. IdleIsEmpty /\ CallFits
  BY <1>1, <1>2 DEF Init, IdleIsEmpty, CallFits
<1>6. StatusIsEarned /\ AttemptsWereMade
  BY DEF Init, StatusIsEarned, AttemptsWereMade
<1>7. ASSUME NEW d \in Deliveries PROVE Budget(d)
  <2>1. Holders(d) = {}
    BY <1>7 DEF Init, Queue!Init, Holders, MayPost
  <2>2. Count(d) = 0
    BY <2>1, FS_EmptySet DEF Count
  <2>3. Claims(d) = 1
    BY <1>7 DEF Init, Queue!Init, Claims
  <2>4. posts[d] = 0 /\ jobFaults = 0 /\ callFaults = 0
    BY <1>7 DEF Init, Queue!Init
  <2> QED BY <2>2, <2>3, <2>4 DEF Budget
<1> QED BY <1>3, <1>4, <1>5, <1>6, <1>7 DEF Shown

WebhookInv == Shown /\ \A d \in Deliveries : Budget(d)

(* The inductive invariant, beside the one of the queue.                   *)
THEOREM Invariance == Spec => []WebhookInv
<1>1. Init => WebhookInv
  BY InitShown DEF WebhookInv
<1>2. WebhookInv /\ QueueFacts!Inv /\ QueueFacts!Inv' /\ [Next]_vars => WebhookInv'
  <2> SUFFICES ASSUME WebhookInv, QueueFacts!Inv, QueueFacts!Inv', [Next]_vars
               PROVE  WebhookInv'
    OBVIOUS
  <2>1. Shown'
    BY ShownStep DEF WebhookInv
  <2>2. ASSUME NEW d \in Deliveries PROVE Budget(d)'
    BY <2>2, BudgetStep DEF WebhookInv
  <2> QED BY <2>1, <2>2 DEF WebhookInv
<1> QED BY <1>1, <1>2, QueueInvariant, PTL DEF Spec

(* Every column of the table, and what each handler holds, has its type.   *)
THEOREM TypeCorrect == Spec => []TypeOK
<1>1. WebhookInv /\ QueueFacts!Inv => TypeOK
  BY DEF WebhookInv, Shown, CallOK, CountersOK, TypeOK, QueueFacts!Inv, QueueFacts!TypeOK,
         Queue!TypeOK, QueueFacts!Status, Queue!Status
<1> QED BY <1>1, Invariance, QueueInvariant, PTL

(* What deliverWebhook and handleDeliveryFailure show of a delivery was    *)
(* earned: an accepted request, or MAX_DELIVERY_ATTEMPTS requests.         *)
THEOREM StatusEarned == Spec => []StatusIsEarned
<1>1. WebhookInv => StatusIsEarned
  BY DEF WebhookInv, Shown
<1> QED BY <1>1, Invariance, PTL

(* The attempts that deliverWebhook writes are never more than it made.    *)
THEOREM AttemptsMade == Spec => []AttemptsWereMade
<1>1. WebhookInv => AttemptsWereMade
  BY DEF WebhookInv, Shown
<1> QED BY <1>1, Invariance, PTL

(* Each repeated post of a delivery has a fault of its own, of the queue   *)
(* or of the call.                                                         *)
THEOREM RepeatsBounded == Spec => []RepeatsHaveAFault
<1>1. WebhookInv /\ QueueFacts!Inv => RepeatsHaveAFault
  <2> SUFFICES ASSUME WebhookInv, QueueFacts!Inv, NEW d \in Deliveries
               PROVE  posts[d] <= 1 + jobFaults + callFaults
    BY DEF RepeatsHaveAFault
  <2>1. posts[d] \in Nat /\ callFaults \in Nat /\ jobFaults \in Nat
    BY WebhookAssumption, SameAssumptions
       DEF WebhookInv, Shown, CountersOK, QueueFacts!Inv, QueueFacts!TypeOK,
           QueueFacts!BoundAssumption
  <2>2. Count(d) \in Nat /\ Claims(d) \in {0, 1}
    BY HoldersFinite DEF Claims
  <2>3. posts[d] + Count(d) + Claims(d) <= 1 + jobFaults + callFaults
    BY DEF WebhookInv, Budget
  <2> QED BY <2>1, <2>2, <2>3
<1> QED BY <1>1, Invariance, QueueInvariant, PTL
=============================================================================
