---------------------- MODULE NotificationDeliveryProofs ----------------------
(***************************************************************************)
(* Proofs about NotificationDelivery, for any deliveries, workers and      *)
(* bounds.                                                                 *)
(*                                                                         *)
(* What a delivery may still send is counted by tokens: one for every      *)
(* worker whose handler has neither sent it nor given up, and one for its  *)
(* job while it can be claimed.  An accepted message uses up a token, only *)
(* a fault makes one, and a Slack delivery that has failed hands its own   *)
(* to the e-mail that replaces it.                                         *)
(*                                                                         *)
(* That no delivery is forgotten rests on the order that holds until a     *)
(* first fault: a job that runs is in one hand only, and the attempts of   *)
(* the delivery and of its job go up together.                             *)
(***************************************************************************)
EXTENDS NotificationDelivery, FiniteSetTheorems, TLAPS

QueueFacts == INSTANCE WorkflowJobsProofs WITH
  Jobs <- Deliveries, Kind <- [d \in Deliveries |-> "plain"],
  Prerequisite <- [d \in Deliveries |-> None],
  status <- jobStatus, attempts <- jobAttempts, seen <- jobSeen,
  faults <- jobFaults, MaxFaults <- MaxJobFaults

(* What is proved of the queue is of another instance of the same module.  *)
LEMMA SameAssumptions == QueueFacts!JobAssumption /\ QueueFacts!BoundAssumption
BY QueueAssumption
   DEF Queue!JobAssumption, Queue!Kinds, Queue!IsFiniteSet, Queue!BoundAssumption,
       QueueFacts!JobAssumption, QueueFacts!Kinds, QueueFacts!IsFiniteSet,
       QueueFacts!BoundAssumption
LEMMA SameQueue ==
  /\ Queue!Init => QueueFacts!Init
  /\ [Queue!Next]_(Queue!vars) => [QueueFacts!Next]_(QueueFacts!vars)
BY DEF Queue!vars, QueueFacts!vars, Queue!row, QueueFacts!row, Queue!memory,
   QueueFacts!memory, Queue!InMemory, QueueFacts!InMemory, Queue!Unclaimed,
   QueueFacts!Unclaimed, Queue!Terminal, QueueFacts!Terminal,
   Queue!Abandoned, QueueFacts!Abandoned, Queue!Fault, QueueFacts!Fault,
   Queue!Init, QueueFacts!Init, Queue!ResolvedDependency,
   QueueFacts!ResolvedDependency, Queue!Enqueue, QueueFacts!Enqueue,
   Queue!Claimable, QueueFacts!Claimable, Queue!OneLane, QueueFacts!OneLane,
   Queue!Remembered, QueueFacts!Remembered, Queue!Claim, QueueFacts!Claim,
   Queue!StartHandler, QueueFacts!StartHandler, Queue!HoldsLock,
   QueueFacts!HoldsLock, Queue!HoldsAttempt, QueueFacts!HoldsAttempt,
   Queue!MaySettle, QueueFacts!MaySettle, Queue!Release, QueueFacts!Release,
   Queue!Settle, QueueFacts!Settle, Queue!LeaveHandler,
   QueueFacts!LeaveHandler, Queue!HandlerSucceeds,
   QueueFacts!HandlerSucceeds, Queue!FailureStatus,
   QueueFacts!FailureStatus, Queue!HandlerFails, QueueFacts!HandlerFails,
   Queue!HandlerDefers, QueueFacts!HandlerDefers, Queue!SettlementThrows,
   QueueFacts!SettlementThrows, Queue!LockExpires, QueueFacts!LockExpires,
   Queue!Crash, QueueFacts!Crash, Queue!RequestVariantAgain,
   QueueFacts!RequestVariantAgain, Queue!RetryDiagnostic,
   QueueFacts!RetryDiagnostic, Queue!Discard, QueueFacts!Discard,
   Queue!Next, QueueFacts!Next,
   Queue!Cardinality, QueueFacts!Cardinality

-----------------------------------------------------------------------------
(* The steps of a handler between its begin and its end, which leave the   *)
(* queue alone.                                                            *)
Own(w, d) ==
  \/ Load(w, d) \/ Withhold(w, d) \/ SkipUnsent(w, d)
  \/ \E ok \in BOOLEAN : Send(w, d, ok)
  \/ RecordSent(w, d) \/ RecordFailure(w, d) \/ FallBack(w, d)
  \/ \E stage \in {"error", "threw"} : CheckThrows(w, d, stage)
  \/ \E ok \in BOOLEAN, stage \in {"send", "error", "threw"} : SendThrows(w, d, ok, stage)
  \/ WriteThrows(w, d)

LEMMA OwnEffect ==
  ASSUME NEW w \in Workers, NEW d \in Deliveries, Own(w, d)
  PROVE  UNCHANGED <<jobVars, asked>> /\ d \in handling[w]
BY DEF Own, Load, CheckThrows, Withhold, SkipUnsent, Send, SendThrows, RecordSent,
       RecordFailure, FallBack, WriteThrows, Record, At

(* A call is of its type, and one that enqueues a fallback has one.        *)
CallOK == call \in [Workers -> [Deliveries -> [stage : Stage, attempts : Nat]]]
FallbackIsThere ==
  \A w \in Workers, d \in Deliveries :
    call[w][d].stage \in {"enqueue", "lastEnqueue"} => Fallback[d] # None
CallKnown == CallOK /\ FallbackIsThere /\ recorded \in [Deliveries -> Nat]

LEMMA MoveEffect ==
  ASSUME CallOK, NEW w \in Workers, NEW d \in Deliveries,
         NEW c \in [stage : Stage, attempts : Nat], call' = [call EXCEPT ![w][d] = c]
  PROVE  /\ CallOK'
         /\ \A v \in Workers, k \in Deliveries :
              call'[v][k] = IF v = w /\ k = d THEN c ELSE call[v][k]
BY DEF CallOK

LEMMA GoToEffect ==
  ASSUME CallOK, NEW w \in Workers, NEW d \in Deliveries, NEW stage \in Stage,
         GoTo(w, d, stage)
  PROVE  \E c \in [stage : Stage, attempts : Nat] :
           /\ call' = [call EXCEPT ![w][d] = c]
           /\ c.stage = stage /\ c.attempts = call[w][d].attempts
<1> DEFINE c == [stage |-> stage, attempts |-> call[w][d].attempts]
<1>1. c \in [stage : Stage, attempts : Nat]
  BY DEF CallOK
<1>2. call' = [call EXCEPT ![w][d] = c] /\ c.stage = stage /\ c.attempts = call[w][d].attempts
  BY DEF GoTo
<1> QED BY <1>1, <1>2

LEMMA NoCallOK == NoCall \in [stage : Stage, attempts : Nat] /\ NoCall.stage = "begin"
BY DEF NoCall, Stage

(* Where a step of a handler leads.                                        *)
LEMMA OwnMoves ==
  ASSUME CallKnown, NEW w \in Workers, NEW d \in Deliveries, Own(w, d)
  PROVE  /\ \E c \in [stage : Stage, attempts : Nat] :
              /\ call' = [call EXCEPT ![w][d] = c]
              /\ c.stage \in {"enqueue", "lastEnqueue"} => Fallback[d] # None
         /\ recorded' \in [Deliveries -> Nat]
<1>0. CallOK /\ call[w][d] \in [stage : Stage, attempts : Nat]
  BY DEF CallKnown, CallOK
<1>1. CASE Load(w, d)
  <2> DEFINE c == [stage |-> IF status[d] = "PENDING" THEN "send" ELSE "returned",
                   attempts |-> recorded[d]]
  <2>1. c \in [stage : Stage, attempts : Nat] /\ c.stage \notin {"enqueue", "lastEnqueue"}
    BY DEF CallKnown, Stage
  <2>2. call' = [call EXCEPT ![w][d] = c] /\ recorded' = recorded
    BY <1>1 DEF Load
  <2> QED BY <2>1, <2>2 DEF CallKnown
<1>2. ASSUME NEW stage \in Stage, GoTo(w, d, stage),
             stage \in {"enqueue", "lastEnqueue"} => Fallback[d] # None
      PROVE  \E c \in [stage : Stage, attempts : Nat] :
               /\ call' = [call EXCEPT ![w][d] = c]
               /\ c.stage \in {"enqueue", "lastEnqueue"} => Fallback[d] # None
  BY <1>0, <1>2, GoToEffect
<1>3. CASE ~ Load(w, d)
  <2>1. \E stage \in Stage : /\ GoTo(w, d, stage)
                             /\ stage \in {"enqueue", "lastEnqueue"} => Fallback[d] # None
    BY <1>3 DEF Own, Withhold, SkipUnsent, Send, RecordSent, RecordFailure, FallBack,
                CheckThrows, SendThrows, WriteThrows, Stage, InTry, InCatch
  <2>2. recorded' \in [Deliveries -> Nat]
    BY <1>0, <1>3
       DEF Own, Withhold, SkipUnsent, Send, RecordSent, RecordFailure, FallBack,
           CheckThrows, SendThrows, WriteThrows, Record, CallKnown
  <2> QED BY <1>2, <2>1, <2>2
<1> QED BY <1>1, <1>3

(* Every step leaves the calls and the queue as they may be.               *)
LEMMA CallKnownStep ==
  ASSUME CallKnown, [Next]_vars
  PROVE  CallKnown' /\ [Queue!Next]_(Queue!vars)
<1>0. CallOK /\ FallbackIsThere /\ recorded \in [Deliveries -> Nat]
  BY DEF CallKnown
<1>j. ASSUME UNCHANGED jobVars PROVE UNCHANGED Queue!vars
  BY <1>j DEF jobVars, Queue!vars, Queue!row, Queue!memory
<1>m. ASSUME NEW w \in Workers, NEW d \in Deliveries,
             NEW c \in [stage : Stage, attempts : Nat], call' = [call EXCEPT ![w][d] = c],
             c.stage \in {"enqueue", "lastEnqueue"} => Fallback[d] # None,
             recorded' \in [Deliveries -> Nat]
      PROVE  CallKnown'
  <2>1. CallOK' /\ \A v \in Workers, k \in Deliveries :
               call'[v][k] = IF v = w /\ k = d THEN c ELSE call[v][k]
    BY <1>0, <1>m DEF CallOK
  <2>2. FallbackIsThere'
    BY <1>0, <1>m, <2>1 DEF FallbackIsThere
  <2> QED BY <1>m, <2>1, <2>2 DEF CallKnown
<1>1. ASSUME NEW batch \in SUBSET Deliveries, Publish(batch)
      PROVE  CallKnown' /\ Queue!Next
  BY <1>0, <1>1 DEF Publish, CallKnown, CallOK, FallbackIsThere, Queue!Next
<1>2. ASSUME NEW w \in Workers, NEW d \in Deliveries, Own(w, d)
      PROVE  CallKnown' /\ UNCHANGED Queue!vars
  BY <1>2, <1>j, <1>m, OwnMoves, OwnEffect
<1>3. ASSUME NEW w \in Workers, NEW d \in Deliveries, EnqueueFallback(w, d)
      PROVE  CallKnown' /\ (Queue!Next \/ UNCHANGED Queue!vars)
  <2>1. GoTo(w, d, "returned") /\ "returned" \in Stage /\ recorded' = recorded
    BY <1>3 DEF EnqueueFallback, Stage
  <2>2. CallKnown'
    BY <1>0, <1>m, <2>1, GoToEffect
  <2>3. Fallback[d] \in Deliveries
    BY <1>0, <1>3, NotificationAssumption DEF EnqueueFallback, At, FallbackIsThere
  <2>4. {Fallback[d]} \in SUBSET Deliveries
    BY <2>3
  <2> QED BY <1>3, <1>j, <2>2, <2>4 DEF EnqueueFallback, Queue!Next
<1>4. ASSUME NEW w \in Workers, NEW d \in Deliveries,
             \/ HandlerReturns(w, d) \/ HandlerThrows(w, d) \/ SettlementThrows(w, d)
             \/ \E revoked \in BOOLEAN : HandlerIsFailed(w, d, revoked)
      PROVE  CallKnown' /\ Queue!Next
  <2>1. call' = [call EXCEPT ![w][d] = NoCall] /\ recorded' = recorded
    BY <1>4 DEF HandlerReturns, HandlerThrows, SettlementThrows, HandlerIsFailed, Forget,
                Quiet
  <2>2. CallKnown'
    BY <1>0, <1>m, <2>1, NoCallOK
  <2> QED BY <1>4, <2>2
          DEF HandlerReturns, HandlerThrows, SettlementThrows, HandlerIsFailed, Queue!Next
<1>5. ASSUME NEW w \in Workers, Crash(w) PROVE CallKnown' /\ Queue!Next
  <2>1. CallOK' /\ \A v \in Workers, k \in Deliveries :
               call'[v][k] = IF v = w THEN NoCall ELSE call[v][k]
    BY <1>0, <1>5, NoCallOK DEF CallOK, Crash
  <2> QED BY <1>0, <1>5, <2>1, NoCallOK DEF CallKnown, FallbackIsThere, Crash, Quiet, Queue!Next
<1>6. ASSUME QueueStep PROVE CallKnown' /\ Queue!Next
  BY <1>0, <1>6 DEF QueueStep, deliveryVars, CallKnown, CallOK, FallbackIsThere, Queue!Next
<1>7. CASE UNCHANGED vars
  BY <1>0, <1>7, <1>j DEF vars, deliveryVars, CallKnown, CallOK, FallbackIsThere
<1>8. ASSUME NEW w \in Workers, NEW d \in Deliveries, HandlerStep(w, d) \/ HandlerFault(w, d)
      PROVE  CallKnown' /\ (Queue!Next \/ UNCHANGED Queue!vars)
  <2>1. \/ Own(w, d) \/ EnqueueFallback(w, d)
        \/ HandlerReturns(w, d) \/ HandlerThrows(w, d) \/ SettlementThrows(w, d)
        \/ \E revoked \in BOOLEAN : HandlerIsFailed(w, d, revoked)
    BY <1>8 DEF HandlerStep, HandlerFault, Own
  <2> QED BY <1>2, <1>3, <1>4, <2>1
<1> QED BY <1>1, <1>5, <1>6, <1>7, <1>8 DEF Next

LEMMA CallsKnown == Spec => []CallKnown
<1>1. Init => CallKnown
  BY NoCallOK DEF Init, CallKnown, CallOK, FallbackIsThere
<1> QED BY <1>1, CallKnownStep, PTL DEF Spec

(* The deliveries implement the job queue: their handlers settle a job as  *)
(* any handler does, a fallback is enqueued as any job is, and all that    *)
(* holds of the queue holds here.                                          *)
THEOREM ImplementsQueue == Spec => Queue!Spec
<1>1. Init => Queue!Init
  BY DEF Init
<1> QED BY <1>1, CallsKnown, CallKnownStep, PTL DEF Spec, Queue!Spec

LEMMA QueueInvariant == Spec => []QueueFacts!Inv
<1>1. Spec => QueueFacts!Spec
  BY ImplementsQueue, SameQueue, PTL DEF Queue!Spec, QueueFacts!Spec
<1>2. QueueFacts!Spec => []QueueFacts!Inv
  BY SameAssumptions, QueueFacts!Invariance
     DEF QueueFacts!JobAssumption, QueueFacts!BoundAssumption
<1> QED BY <1>1, <1>2

-----------------------------------------------------------------------------
(* What a handler remembers, and what the table shows.                     *)
CountersOK ==
  /\ status \in [Deliveries -> Status]
  /\ recorded \in [Deliveries -> Nat]
  /\ asked \subseteq Deliveries
  /\ posts \in [Deliveries -> Nat]
  /\ accepted \in [Deliveries -> Nat]
  /\ callFaults \in 0 .. MaxCallFaults

(* Where no handler runs there is no call.                                 *)
IdleIsEmpty ==
  \A w \in Workers, d \in Deliveries : d \notin handling[w] => call[w][d] = NoCall

Waiting(d) == status[d] \in {"ABSENT", "PENDING"}
Tries(d) == posts[d] + callFaults

(* A handler has read no more attempts than were made or failed, and one   *)
(* that has to record another made one since; only a Slack delivery that   *)
(* has ended gets a fallback.                                              *)
Fits(c, d) ==
  /\ c.stage \in {"send"} \cup InTry => c.attempts <= Tries(d)
  /\ c.stage \in {"sent", "error"} => c.attempts < Tries(d)
  /\ c.stage = "sent" => accepted[d] > 0
  /\ c.stage \in InTry \cup InCatch => ~ Waiting(d) /\ Channel[d] = "SLACK"
CallFits == \A w \in Workers, d \in Deliveries : Fits(call[w][d], d)

(* A delivery that skips its attempt counts it, but is not tried again.    *)
RecordedFits == \A d \in Deliveries : Waiting(d) => recorded[d] <= Tries(d)

Shown ==
  /\ CallOK /\ FallbackIsThere /\ CountersOK /\ IdleIsEmpty /\ CallFits
  /\ RecordedFits /\ StatusIsEarned

(* Nothing that is counted is ever forgotten, and no Slack delivery that   *)
(* has ended is reopened.                                                  *)
Grows ==
  /\ callFaults <= callFaults'
  /\ \A d \in Deliveries :
       /\ posts[d] <= posts'[d] /\ accepted[d] <= accepted'[d]
       /\ ~ Waiting(d) /\ Channel[d] = "SLACK" => ~ Waiting(d)'

LEMMA Counted ==
  ASSUME CountersOK, NEW d \in Deliveries
  PROVE  /\ posts[d] \in Nat /\ accepted[d] \in Nat /\ recorded[d] \in Nat
         /\ callFaults \in Nat /\ Tries(d) \in Nat /\ status[d] \in Status
         /\ Tries(d) = posts[d] + callFaults
BY NotificationAssumption DEF CountersOK, Tries

LEMMA CountedPrimed ==
  ASSUME CountersOK', NEW d \in Deliveries
  PROVE  /\ posts'[d] \in Nat /\ accepted'[d] \in Nat /\ recorded'[d] \in Nat
         /\ callFaults' \in Nat /\ Tries(d)' \in Nat /\ status'[d] \in Status
         /\ Tries(d)' = posts'[d] + callFaults'
BY NotificationAssumption DEF CountersOK, Tries

LEMMA TriesGrow ==
  ASSUME CountersOK, CountersOK', Grows, NEW d \in Deliveries
  PROVE  Tries(d) <= Tries(d)'
BY Counted, CountedPrimed DEF Grows

LEMMA FitsGrow ==
  ASSUME CountersOK, CountersOK', Grows, NEW d \in Deliveries,
         NEW c \in [stage : Stage, attempts : Nat], Fits(c, d)
  PROVE  Fits(c, d)'
<1>1. /\ Tries(d) <= Tries(d)' /\ Tries(d) \in Nat /\ Tries(d)' \in Nat
      /\ accepted[d] <= accepted'[d] /\ accepted[d] \in Nat /\ accepted'[d] \in Nat
      /\ ~ Waiting(d) /\ Channel[d] = "SLACK" => ~ Waiting(d)'
      /\ c.attempts \in Nat
  BY TriesGrow, Counted, CountedPrimed DEF Grows
<1>2. c.stage \in {"send"} \cup InTry => c.attempts <= Tries(d)'
  BY <1>1 DEF Fits
<1>3. c.stage \in {"sent", "error"} => c.attempts < Tries(d)'
  BY <1>1 DEF Fits
<1>4. c.stage = "sent" => accepted'[d] > 0
  BY <1>1 DEF Fits
<1>5. c.stage \in InTry \cup InCatch => ~ Waiting(d)' /\ Channel[d] = "SLACK"
  BY <1>1 DEF Fits
<1> QED BY <1>2, <1>3, <1>4, <1>5 DEF Fits

(* A handler that goes on, and leaves the other calls alone.               *)
LEMMA GoOn ==
  ASSUME Shown, NEW w \in Workers, NEW d \in Deliveries, d \in handling[w],
         handling' = handling, CountersOK', Grows,
         NEW c \in [stage : Stage, attempts : Nat], call' = [call EXCEPT ![w][d] = c],
         Fits(c, d)'
  PROVE  CallOK' /\ IdleIsEmpty' /\ CallFits'
<1>0. CallOK /\ CountersOK /\ IdleIsEmpty /\ CallFits
  BY DEF Shown
<1>1. CallOK' /\ \A v \in Workers, k \in Deliveries :
             call'[v][k] = IF v = w /\ k = d THEN c ELSE call[v][k]
  BY <1>0 DEF CallOK
<1>2. IdleIsEmpty'
  BY <1>0, <1>1 DEF IdleIsEmpty
<1>3. ASSUME NEW v \in Workers, NEW k \in Deliveries PROVE Fits(call[v][k], k)'
  <2>1. CASE v = w /\ k = d
    BY <1>1, <2>1
  <2>2. CASE ~(v = w /\ k = d)
    <3>1. call'[v][k] = call[v][k] /\ call[v][k] \in [stage : Stage, attempts : Nat]
      BY <1>0, <1>1, <2>2 DEF CallOK
    <3>2. Fits(call[v][k], k)
      BY <1>0 DEF CallFits
    <3>3. \A x \in [stage : Stage, attempts : Nat] : Fits(x, k) => Fits(x, k)'
      BY <1>0, FitsGrow
    <3> QED BY <3>1, <3>2, <3>3 DEF Fits
  <2> QED BY <2>1, <2>2
<1> QED BY <1>1, <1>2, <1>3 DEF CallFits

(* The steps of a handler, one by one.                                     *)
LEMMA OwnShown ==
  ASSUME Shown, NEW w \in Workers, NEW d \in Deliveries, Own(w, d)
  PROVE  Shown' /\ Grows
<1>0. /\ CallOK /\ FallbackIsThere /\ CountersOK /\ IdleIsEmpty /\ CallFits
      /\ RecordedFits /\ StatusIsEarned /\ CallKnown
  BY DEF Shown, CallKnown, CountersOK
<1>h. d \in handling[w] /\ handling' = handling /\ asked' = asked
  BY OwnEffect DEF jobVars
<1>k. CallKnown'
  BY <1>0, OwnMoves, MoveEffect DEF CallKnown, FallbackIsThere
<1>c. /\ call[w][d] \in [stage : Stage, attempts : Nat] /\ Fits(call[w][d], d)
      /\ call[w][d].attempts \in Nat
  BY <1>0 DEF CallOK, CallFits
<1>d. /\ posts[d] \in Nat /\ accepted[d] \in Nat /\ callFaults \in Nat
      /\ Tries(d) \in Nat /\ Tries(d) = posts[d] + callFaults
  BY <1>0, Counted
<1>q. ASSUME CountersOK', Grows, RecordedFits', StatusIsEarned',
             NEW c \in [stage : Stage, attempts : Nat], call' = [call EXCEPT ![w][d] = c],
             Fits(c, d)'
      PROVE  Shown' /\ Grows
  BY <1>h, <1>k, <1>q, GoOn DEF Shown, CallKnown
<1>g. ASSUME CountersOK', Grows, RecordedFits', StatusIsEarned',
             NEW stage \in Stage, GoTo(w, d, stage),
             \A c \in [stage : Stage, attempts : Nat] :
               c.stage = stage /\ c.attempts = call[w][d].attempts => Fits(c, d)'
      PROVE  Shown' /\ Grows
  <2>1. PICK c \in [stage : Stage, attempts : Nat] :
               /\ call' = [call EXCEPT ![w][d] = c]
               /\ c.stage = stage /\ c.attempts = call[w][d].attempts
    BY <1>0, <1>g, GoToEffect
  <2>2. Fits(c, d)'
    BY <1>g, <2>1
  <2> QED BY <1>g, <1>q, <2>1, <2>2
(* The steps that leave the row alone: they read it, send, or fail.        *)
<1>r. ASSUME UNCHANGED <<status, recorded>>, posts' \in [Deliveries -> Nat],
             accepted' \in [Deliveries -> Nat], callFaults' \in 0 .. MaxCallFaults,
             callFaults <= callFaults',
             \A k \in Deliveries : posts[k] <= posts'[k] /\ accepted[k] <= accepted'[k]
      PROVE  CountersOK' /\ Grows /\ RecordedFits' /\ StatusIsEarned'
  <2>1. CountersOK'
    BY <1>0, <1>h, <1>r DEF CountersOK
  <2>2. Grows
    BY <1>r DEF Grows, Waiting
  <2>3. ASSUME NEW k \in Deliveries PROVE (Waiting(k) => recorded[k] <= Tries(k))'
    <3>1. Tries(k) <= Tries(k)' /\ Tries(k) \in Nat /\ Tries(k)' \in Nat /\ recorded[k] \in Nat
      BY <1>0, <2>1, <2>2, TriesGrow, Counted, CountedPrimed
    <3>2. Waiting(k)' => recorded[k] <= Tries(k)
      BY <1>0, <1>r DEF RecordedFits, Waiting
    <3> QED BY <1>r, <3>1, <3>2
  <2>4. ASSUME NEW k \in Deliveries
        PROVE  /\ status'[k] = "SENT" => accepted'[k] > 0
               /\ status'[k] = "FAILED" /\ Channel[k] = "EMAIL" =>
                    posts'[k] + callFaults' >= MaxDeliveryAttempts
    <3>1. /\ posts[k] \in Nat /\ accepted[k] \in Nat /\ callFaults \in Nat
          /\ posts'[k] \in Nat /\ accepted'[k] \in Nat /\ callFaults' \in Nat
      BY <1>0, <2>1, Counted, CountedPrimed
    <3> QED BY <1>0, <1>r, <3>1, NotificationAssumption DEF StatusIsEarned
  <2> QED BY <2>1, <2>2, <2>3, <2>4 DEF RecordedFits, StatusIsEarned
(* The steps that write it.                                                *)
<1>s. ASSUME UNCHANGED <<posts, accepted, callFaults>>,
             NEW outcome \in Status \ {"ABSENT"}, NEW n \in Nat,
             status' = [status EXCEPT ![d] = outcome], recorded' = [recorded EXCEPT ![d] = n],
             outcome = "PENDING" => Channel[d] = "EMAIL" /\ n <= Tries(d),
             outcome = "SENT" => accepted[d] > 0,
             outcome = "FAILED" /\ Channel[d] = "EMAIL" => Tries(d) >= MaxDeliveryAttempts
      PROVE  CountersOK' /\ Grows /\ RecordedFits' /\ StatusIsEarned'
  <2>1. CountersOK'
    BY <1>0, <1>h, <1>s DEF CountersOK
  <2>2. \A k \in Deliveries : /\ status'[k] = IF k = d THEN outcome ELSE status[k]
                              /\ recorded'[k] = IF k = d THEN n ELSE recorded[k]
    BY <1>0, <1>s DEF CountersOK
  <2>3. Grows
    <3>1. callFaults <= callFaults' /\ \A k \in Deliveries :
             posts[k] <= posts'[k] /\ accepted[k] <= accepted'[k]
      BY <1>0, <1>s, Counted, <1>d
    <3>2. ASSUME NEW k \in Deliveries, ~ Waiting(k), Channel[k] = "SLACK"
          PROVE  ~ Waiting(k)'
      BY <1>s, <2>2, <3>2 DEF Waiting
    <3> QED BY <3>1, <3>2 DEF Grows
  <2>4. RecordedFits'
    <3>1. \A k \in Deliveries : Tries(k)' = Tries(k)
      BY <1>s DEF Tries
    <3> QED BY <1>0, <1>s, <2>2, <3>1 DEF RecordedFits, Waiting
  <2>5. StatusIsEarned'
    BY <1>0, <1>d, <1>s, <2>2 DEF StatusIsEarned
  <2> QED BY <2>1, <2>3, <2>4, <2>5
<1>1. CASE Load(w, d)
  <2> DEFINE c == [stage |-> IF status[d] = "PENDING" THEN "send" ELSE "returned",
                   attempts |-> recorded[d]]
  <2>1. c \in [stage : Stage, attempts : Nat]
    BY <1>0 DEF CountersOK, Stage
  <2>2. /\ call' = [call EXCEPT ![w][d] = c]
        /\ UNCHANGED <<status, recorded, posts, accepted, callFaults>>
    BY <1>1 DEF Load
  <2>3. CountersOK' /\ Grows /\ RecordedFits' /\ StatusIsEarned'
    BY <1>0, <1>r, <1>d, <2>2, Counted DEF CountersOK
  <2>4. /\ c.stage \in {"send", "returned"} /\ c.attempts = recorded[d]
        /\ c.stage = "send" => c.attempts <= Tries(d)
    BY <1>0 DEF RecordedFits, Waiting
  <2>5. PICK x \in [stage : Stage, attempts : Nat] : x = c
    BY <2>1
  <2> HIDE DEF c
  <2>6. Fits(x, d)
    BY <2>4, <2>5 DEF Fits, InTry, InCatch
  <2>7. Fits(x, d)'
    BY <1>0, <2>3, <2>6, FitsGrow
  <2> QED BY <1>q, <2>2, <2>3, <2>5, <2>7
<1>2. ASSUME NEW stage \in {"error", "threw"}, CheckThrows(w, d, stage)
      PROVE  Shown' /\ Grows
  <2>1. /\ GoTo(w, d, stage) /\ stage \in Stage
        /\ UNCHANGED <<status, recorded, posts, accepted>>
        /\ callFaults' = callFaults + 1 /\ callFaults' \in 0 .. MaxCallFaults
        /\ stage = "error" => call[w][d].stage = "send"
    BY <1>0, <1>2, NotificationAssumption DEF CheckThrows, CallFault, CountersOK, Stage
  <2>2. CountersOK' /\ Grows /\ RecordedFits' /\ StatusIsEarned'
    BY <1>0, <1>r, <1>d, <2>1, Counted DEF CountersOK
  <2>3. ASSUME NEW c \in [stage : Stage, attempts : Nat], c.stage = stage,
               c.attempts = call[w][d].attempts
        PROVE  Fits(c, d)'
    <3>1. stage = "error" => call[w][d].attempts <= Tries(d)
      BY <1>c, <2>1 DEF Fits
    <3>2. Tries(d)' = Tries(d) + 1
      BY <1>d, <2>1 DEF Tries
    <3>3. stage = "error" => c.attempts < Tries(d)'
      BY <1>c, <1>d, <2>3, <3>1, <3>2
    <3> QED BY <1>2, <2>3, <3>3 DEF Fits, InTry, InCatch
  <2> QED BY <1>g, <2>1, <2>2, <2>3
<1>3. CASE Withhold(w, d)
  <2>1. /\ UNCHANGED <<posts, accepted, callFaults, recorded>>
        /\ status' = [status EXCEPT ![d] = "SKIPPED"] /\ GoTo(w, d, "returned")
    BY <1>3 DEF Withhold
  <2>2. recorded' = [recorded EXCEPT ![d] = recorded[d]] /\ recorded[d] \in Nat
    BY <1>0, <2>1 DEF CountersOK
  <2>3. "SKIPPED" \in Status \ {"ABSENT"} /\ "returned" \in Stage
    BY DEF Status, Stage
  <2>4. CountersOK' /\ Grows /\ RecordedFits' /\ StatusIsEarned'
    BY <1>s, <2>1, <2>2, <2>3
  <2>5. \A c \in [stage : Stage, attempts : Nat] : c.stage = "returned" => Fits(c, d)'
    BY DEF Fits, InTry, InCatch
  <2> QED BY <1>g, <2>1, <2>3, <2>4, <2>5
<1>4. CASE SkipUnsent(w, d)
  <2>1. /\ UNCHANGED <<posts, accepted, callFaults>> /\ call[w][d].stage = "send"
        /\ status' = [status EXCEPT ![d] = "SKIPPED"]
        /\ recorded' = [recorded EXCEPT ![d] = call[w][d].attempts + 1]
        /\ \E stage \in {"fallback", "returned"} :
             GoTo(w, d, stage) /\ (stage = "fallback" => Channel[d] = "SLACK")
    BY <1>4 DEF SkipUnsent, Record, At
  <2>2. PICK stage \in {"fallback", "returned"} :
               GoTo(w, d, stage) /\ (stage = "fallback" => Channel[d] = "SLACK")
    BY <2>1
  <2>3. "SKIPPED" \in Status \ {"ABSENT"} /\ stage \in Stage /\ call[w][d].attempts + 1 \in Nat
    BY <1>c DEF Status, Stage, InTry
  <2>4. CountersOK' /\ Grows /\ RecordedFits' /\ StatusIsEarned'
    BY <1>s, <2>1, <2>3
  <2>5. ASSUME NEW c \in [stage : Stage, attempts : Nat], c.stage = stage,
               c.attempts = call[w][d].attempts
        PROVE  Fits(c, d)'
    <3>1. c.attempts <= Tries(d) /\ Tries(d)' = Tries(d)
      BY <1>c, <2>1, <2>5 DEF Fits, Tries
    <3>2. status'[d] = "SKIPPED"
      BY <1>0, <2>1 DEF CountersOK
    <3> QED BY <2>2, <2>5, <3>1, <3>2 DEF Fits, InTry, InCatch, Waiting
  <2> QED BY <1>g, <2>2, <2>3, <2>4, <2>5
<1>5. ASSUME NEW ok \in BOOLEAN, NEW stage \in {"sent", "send", "error", "threw"},
             call[w][d].stage = "send", GoTo(w, d, stage),
             posts' = [posts EXCEPT ![d] = @ + 1],
             accepted' = [accepted EXCEPT ![d] = IF ok THEN @ + 1 ELSE @],
             UNCHANGED <<status, recorded>>, callFaults' \in {callFaults, callFaults + 1},
             callFaults' \in 0 .. MaxCallFaults, stage = "sent" => ok
      PROVE  Shown' /\ Grows
  <2>1. /\ posts' \in [Deliveries -> Nat] /\ accepted' \in [Deliveries -> Nat]
        /\ \A k \in Deliveries : posts[k] <= posts'[k] /\ accepted[k] <= accepted'[k]
        /\ posts'[d] = posts[d] + 1
        /\ ok => accepted'[d] > 0
    BY <1>0, <1>5 DEF CountersOK
  <2>2. callFaults <= callFaults'
    BY <1>d, <1>5
  <2>3. CountersOK' /\ Grows /\ RecordedFits' /\ StatusIsEarned'
    BY <1>5, <1>r, <2>1, <2>2
  <2>4. ASSUME NEW c \in [stage : Stage, attempts : Nat], c.stage = stage,
               c.attempts = call[w][d].attempts
        PROVE  Fits(c, d)'
    <3>1. call[w][d].attempts <= Tries(d)
      BY <1>c, <1>5 DEF Fits
    <3>2. Tries(d)' = posts[d] + 1 + callFaults'
      BY <2>1 DEF Tries
    <3>3. c.attempts < Tries(d)'
      BY <1>c, <1>d, <1>5, <2>2, <2>4, <3>1, <3>2
    <3>4. c.attempts \in Nat /\ Tries(d)' \in Nat
      BY <1>c, <2>3, <2>4, CountedPrimed
    <3>5. c.attempts <= Tries(d)'
      BY <3>3, <3>4
    <3> QED BY <1>5, <2>1, <2>4, <3>3, <3>5 DEF Fits, InTry, InCatch
  <2>5. stage \in Stage
    BY DEF Stage
  <2> QED BY <1>g, <1>5, <2>3, <2>4, <2>5
<1>6. ASSUME NEW ok \in BOOLEAN, Send(w, d, ok) PROVE Shown' /\ Grows
  <2>1. PICK stage \in {"sent", "error"} : GoTo(w, d, stage) /\ (stage = "sent" => ok)
    BY <1>6 DEF Send
  <2>2. callFaults' = callFaults /\ callFaults' \in 0 .. MaxCallFaults
    BY <1>0, <1>6 DEF Send, CountersOK
  <2> QED BY <1>5, <1>6, <2>1, <2>2 DEF Send, At
<1>7. ASSUME NEW ok \in BOOLEAN, NEW stage \in {"send", "error", "threw"},
             SendThrows(w, d, ok, stage)
      PROVE  Shown' /\ Grows
  <2>1. callFaults' = callFaults + 1 /\ callFaults' \in 0 .. MaxCallFaults
    BY <1>0, <1>7, NotificationAssumption DEF SendThrows, CallFault, CountersOK
  <2> QED BY <1>5, <1>7, <2>1 DEF SendThrows, At
<1>8. CASE RecordSent(w, d)
  <2>1. /\ UNCHANGED <<posts, accepted, callFaults>> /\ call[w][d].stage = "sent"
        /\ status' = [status EXCEPT ![d] = "SENT"]
        /\ recorded' = [recorded EXCEPT ![d] = call[w][d].attempts + 1]
        /\ GoTo(w, d, "returned")
    BY <1>8 DEF RecordSent, Record, At
  <2>2. /\ "SENT" \in Status \ {"ABSENT"} /\ "returned" \in Stage
        /\ call[w][d].attempts + 1 \in Nat /\ accepted[d] > 0
    BY <1>c, <2>1 DEF Status, Stage, Fits
  <2>3. CountersOK' /\ Grows /\ RecordedFits' /\ StatusIsEarned'
    BY <1>s, <2>1, <2>2
  <2>4. \A c \in [stage : Stage, attempts : Nat] : c.stage = "returned" => Fits(c, d)'
    BY DEF Fits, InTry, InCatch
  <2> QED BY <1>g, <2>1, <2>2, <2>3, <2>4
<1>9. CASE RecordFailure(w, d)
  <2> DEFINE n == call[w][d].attempts + 1
  <2>1. /\ UNCHANGED <<posts, accepted, callFaults>> /\ call[w][d].stage = "error"
        /\ status' = [status EXCEPT ![d] = FailureStatus(d, n)]
        /\ recorded' = [recorded EXCEPT ![d] = n]
        /\ \E stage \in {"lastFallback", "returned", "threw"} :
             GoTo(w, d, stage) /\ (stage = "lastFallback" => Channel[d] = "SLACK")
    BY <1>9 DEF RecordFailure, Record, At
  <2>2. PICK stage \in {"lastFallback", "returned", "threw"} :
               GoTo(w, d, stage) /\ (stage = "lastFallback" => Channel[d] = "SLACK")
    BY <2>1
  <2>3. n \in Nat /\ n <= Tries(d)
    <3>1. call[w][d].attempts < Tries(d)
      BY <1>c, <2>1 DEF Fits
    <3> QED BY <1>c, <1>d, <3>1
  <2>4. PICK outcome \in {"FAILED", "PENDING"} :
          /\ outcome = FailureStatus(d, n)
          /\ outcome = "PENDING" => Channel[d] # "SLACK"
          /\ outcome = "FAILED" => Channel[d] = "SLACK" \/ n >= MaxDeliveryAttempts
    BY DEF FailureStatus
  <2>5. /\ stage \in Stage /\ outcome \in Status \ {"ABSENT"}
        /\ Channel[d] # "SLACK" => Channel[d] = "EMAIL"
    BY NotificationAssumption DEF Stage, InCatch, Status
  <2>6. outcome = "FAILED" /\ Channel[d] = "EMAIL" => Tries(d) >= MaxDeliveryAttempts
    BY <1>d, <2>3, <2>4, NotificationAssumption
  <2> HIDE DEF n
  <2>7. CountersOK' /\ Grows /\ RecordedFits' /\ StatusIsEarned'
    BY <1>s, <2>1, <2>3, <2>4, <2>5, <2>6
  <2>8. ASSUME NEW c \in [stage : Stage, attempts : Nat], c.stage = stage
        PROVE  Fits(c, d)'
    <3>1. Channel[d] = "SLACK" => status'[d] = "FAILED"
      BY <1>0, <2>1, <2>4 DEF CountersOK
    <3> QED BY <2>2, <2>8, <3>1 DEF Fits, InTry, InCatch, Waiting
  <2> QED BY <1>g, <2>2, <2>5, <2>7, <2>8
<1>10. CASE FallBack(w, d)
  <2>1. /\ UNCHANGED <<recorded, posts, accepted, callFaults>> /\ Upsert({Fallback[d]})
        /\ call[w][d].stage \in {"fallback", "lastFallback"}
        /\ \E stage \in {"returned", "enqueue", "lastEnqueue"} :
             /\ GoTo(w, d, stage)
             /\ stage = "enqueue" => call[w][d].stage \in InTry
    BY <1>10 DEF FallBack, At
  <2>2. PICK stage \in {"returned", "enqueue", "lastEnqueue"} :
             /\ GoTo(w, d, stage)
             /\ stage = "enqueue" => call[w][d].stage \in InTry
    BY <2>1
  <2>3. /\ status' \in [Deliveries -> Status]
        /\ \A k \in Deliveries : \/ status'[k] = status[k]
                                 \/ status[k] = "ABSENT" /\ status'[k] = "PENDING"
    BY <1>0, <2>1 DEF Upsert, CountersOK, Status
  <2>4. CountersOK'
    BY <1>0, <1>h, <2>1, <2>3 DEF CountersOK
  <2>5. Grows
    <3>1. callFaults <= callFaults' /\ \A k \in Deliveries :
             posts[k] <= posts'[k] /\ accepted[k] <= accepted'[k]
      BY <1>0, <1>d, <2>1, Counted
    <3> QED BY <2>3, <3>1 DEF Grows, Waiting
  <2>6. RecordedFits' /\ StatusIsEarned'
    BY <1>0, <2>1, <2>3 DEF RecordedFits, StatusIsEarned, Waiting, Tries
  <2>7. ASSUME NEW c \in [stage : Stage, attempts : Nat], c.stage = stage,
               c.attempts = call[w][d].attempts
        PROVE  Fits(c, d)'
    <3>1. ~ Waiting(d) /\ Channel[d] = "SLACK"
      BY <1>c, <2>1 DEF Fits, InTry, InCatch
    <3>2. ~ Waiting(d)' /\ Tries(d)' = Tries(d)
      BY <2>1, <2>5, <3>1 DEF Grows, Tries
    <3>3. stage = "enqueue" => c.attempts <= Tries(d)
      BY <1>c, <2>2, <2>7 DEF Fits
    <3> QED BY <2>7, <3>1, <3>2, <3>3 DEF Fits, InTry, InCatch
  <2>8. stage \in Stage
    BY DEF Stage, InTry, InCatch
  <2> QED BY <1>g, <2>2, <2>4, <2>5, <2>6, <2>7, <2>8
<1>11. CASE WriteThrows(w, d)
  <2>1. /\ UNCHANGED <<status, recorded, posts, accepted>>
        /\ callFaults' = callFaults + 1 /\ callFaults' \in 0 .. MaxCallFaults
    BY <1>0, <1>11, NotificationAssumption DEF WriteThrows, CallFault, CountersOK
  <2>2. PICK stage \in {"error", "threw"} :
               /\ GoTo(w, d, stage)
               /\ stage = "error" => call[w][d].stage \in {"sent"} \cup InTry
    BY <1>11 DEF WriteThrows
  <2>3. CountersOK' /\ Grows /\ RecordedFits' /\ StatusIsEarned'
    BY <1>0, <1>r, <1>d, <2>1, Counted DEF CountersOK
  <2>4. ASSUME NEW c \in [stage : Stage, attempts : Nat], c.stage = stage,
               c.attempts = call[w][d].attempts
        PROVE  Fits(c, d)'
    <3>1. Tries(d)' = Tries(d) + 1
      BY <1>d, <2>1 DEF Tries
    <3>2. stage = "error" => call[w][d].attempts <= Tries(d)
      BY <1>c, <1>d, <2>2 DEF Fits
    <3>3. stage = "error" => c.attempts < Tries(d)'
      BY <1>c, <1>d, <2>4, <3>1, <3>2
    <3> QED BY <2>4, <3>3 DEF Fits, InTry, InCatch
  <2>5. stage \in Stage
    BY DEF Stage
  <2> QED BY <1>g, <2>2, <2>3, <2>4, <2>5
<1> QED BY <1>1, <1>2, <1>3, <1>4, <1>6, <1>7, <1>8, <1>9, <1>10, <1>11 DEF Own

-----------------------------------------------------------------------------
(* What the steps of the queue do to the memory of the workers.            *)
LEMMA LeaveEffect ==
  ASSUME QueueFacts!Inv, NEW w \in Workers, NEW d \in Deliveries,
         \/ Queue!HandlerSucceeds(w, d)
         \/ \E revoked \in BOOLEAN : Queue!HandlerFails(w, d, revoked)
  PROVE  /\ d \in handling[w]
         /\ handling' = [handling EXCEPT ![w] = @ \ {d}]
         /\ UNCHANGED <<queued, jobFaults>>
         /\ \A k \in Deliveries \ {d} :
              /\ jobStatus'[k] = jobStatus[k]
              /\ lockedBy'[k] = lockedBy[k]
              /\ expired'[k] = expired[k]
         /\ jobStatus'[d] \in {"COMPLETED", "FAILED", "PENDING"}
         /\ Queue!HandlerSucceeds(w, d) => jobStatus'[d] = "COMPLETED"
<1>1. Queue!MaySettle(w, d)
  BY DEF Queue!MaySettle
<1>2. PICK outcome \in {"COMPLETED", "FAILED", "PENDING"} :
        /\ Queue!Release(d, outcome)
        /\ Queue!HandlerSucceeds(w, d) => outcome = "COMPLETED"
  BY <1>1 DEF Queue!HandlerSucceeds, Queue!HandlerFails, Queue!Settle, Queue!FailureStatus
<1>3. /\ jobStatus \in [Deliveries -> QueueFacts!Status]
      /\ lockedBy \in [Deliveries -> Workers \cup {None}]
      /\ expired \in [Deliveries -> BOOLEAN]
  BY DEF QueueFacts!Inv, QueueFacts!TypeOK
<1>4. /\ jobStatus'[d] = outcome
      /\ \A k \in Deliveries \ {d} :
           /\ jobStatus'[k] = jobStatus[k]
           /\ lockedBy'[k] = lockedBy[k]
           /\ expired'[k] = expired[k]
  BY <1>2, <1>3 DEF Queue!Release
<1> QED BY <1>2, <1>4 DEF Queue!HandlerSucceeds, Queue!HandlerFails, Queue!LeaveHandler

LEMMA SettlementThrowsEffect ==
  ASSUME QueueFacts!Inv, NEW w \in Workers, NEW d \in Deliveries,
         Queue!SettlementThrows(w, d)
  PROVE  /\ d \in handling[w]
         /\ handling' = [handling EXCEPT ![w] = @ \ {d}]
         /\ \A v \in Workers : queued'[v] \subseteq queued[v]
         /\ UNCHANGED <<jobStatus, lockedBy, expired>>
         /\ jobFaults' = jobFaults + 1
BY DEF Queue!SettlementThrows, Queue!Fault, Queue!row, QueueFacts!Inv, QueueFacts!TypeOK

LEMMA CrashEffect ==
  ASSUME QueueFacts!Inv, NEW w \in Workers, Queue!Crash(w)
  PROVE  /\ handling' = [handling EXCEPT ![w] = {}]
         /\ queued' = [queued EXCEPT ![w] = {}]
         /\ UNCHANGED <<jobStatus, lockedBy, expired>>
         /\ jobFaults' = jobFaults + 1
BY DEF Queue!Crash, Queue!Fault, Queue!row

(* The end of a handler, and the exit of a worker, leave no call.          *)
LEMMA NothingCalls ==
  \A d \in Deliveries : CountersOK' => Fits(NoCall, d)'
BY NotificationAssumption, CountedPrimed DEF Fits, NoCall, InTry, InCatch

LEMMA OtherCallsFit ==
  ASSUME CallOK, CountersOK, CountersOK', CallFits, Grows,
         \A v \in Workers, k \in Deliveries :
           call'[v][k] = call[v][k] \/ call'[v][k] = NoCall
  PROVE  CallFits'
<1> SUFFICES ASSUME NEW v \in Workers, NEW k \in Deliveries PROVE Fits(call[v][k], k)'
  BY DEF CallFits
<1>1. CASE call'[v][k] = call[v][k]
  <2>1. call[v][k] \in [stage : Stage, attempts : Nat] /\ Fits(call[v][k], k)
    BY DEF CallOK, CallFits
  <2>2. \A c \in [stage : Stage, attempts : Nat] : Fits(c, k) => Fits(c, k)'
    BY FitsGrow
  <2> QED BY <1>1, <2>1, <2>2 DEF Fits
<1>2. CASE call'[v][k] = NoCall
  BY <1>2, NothingCalls DEF Fits
<1> QED BY <1>1, <1>2

LEMMA QuietShown ==
  ASSUME Shown, Quiet, callFaults' \in {callFaults, callFaults + 1},
         callFaults' \in 0 .. MaxCallFaults
  PROVE  CountersOK' /\ Grows /\ RecordedFits' /\ StatusIsEarned'
<1>0. CountersOK /\ RecordedFits /\ StatusIsEarned
  BY DEF Shown
<1>1. CountersOK'
  BY <1>0 DEF CountersOK, Quiet
<1>2. ASSUME NEW d \in Deliveries
      PROVE  /\ posts[d] \in Nat /\ accepted[d] \in Nat /\ recorded[d] \in Nat
             /\ callFaults \in Nat /\ callFaults' \in Nat /\ callFaults <= callFaults'
             /\ MaxDeliveryAttempts \in Nat
  BY <1>0, <1>1, Counted, CountedPrimed, NotificationAssumption
<1>3. callFaults <= callFaults'
  BY <1>0, NotificationAssumption DEF CountersOK
<1>4. Grows
  BY <1>2, <1>3 DEF Grows, Quiet, Waiting
<1>5. RecordedFits'
  BY <1>0, <1>2 DEF RecordedFits, Quiet, Waiting, Tries
<1>6. StatusIsEarned'
  BY <1>0, <1>2 DEF StatusIsEarned, Quiet
<1> QED BY <1>1, <1>4, <1>5, <1>6

LEMMA ForgetShown ==
  ASSUME Shown, QueueFacts!Inv, NEW w \in Workers, NEW d \in Deliveries, Forget(w, d),
         Quiet, callFaults' \in {callFaults, callFaults + 1},
         callFaults' \in 0 .. MaxCallFaults,
         handling' = [handling EXCEPT ![w] = @ \ {d}]
  PROVE  Shown' /\ Grows
<1>0. CallOK /\ CountersOK /\ IdleIsEmpty /\ CallFits /\ FallbackIsThere
  BY DEF Shown
<1>1. CountersOK' /\ Grows /\ RecordedFits' /\ StatusIsEarned'
  BY QuietShown
<1>2. CallOK' /\ \A v \in Workers, k \in Deliveries :
              call'[v][k] = IF v = w /\ k = d THEN NoCall ELSE call[v][k]
  BY <1>0, NoCallOK DEF CallOK, Forget
<1>3. IdleIsEmpty'
  BY <1>0, <1>2 DEF IdleIsEmpty, QueueFacts!Inv, QueueFacts!TypeOK
<1>4. FallbackIsThere'
  BY <1>0, <1>2, NoCallOK DEF FallbackIsThere
<1>5. CallFits'
  BY <1>0, <1>1, <1>2, OtherCallsFit
<1> QED BY <1>1, <1>2, <1>3, <1>4, <1>5 DEF Shown

(* The other steps leave calls alone.                                      *)
LEMMA CallKeptShown ==
  ASSUME Shown, UNCHANGED <<recorded, call, posts, accepted, callFaults>>,
         asked' \subseteq Deliveries, status' \in [Deliveries -> Status],
         \A d \in Deliveries : \/ status'[d] = status[d]
                               \/ status[d] = "ABSENT" /\ status'[d] = "PENDING",
         \A w \in Workers : handling[w] \subseteq handling'[w]
  PROVE  Shown' /\ Grows
<1>1. CountersOK'
  BY DEF Shown, CountersOK
<1>2. Grows
  BY Counted, NotificationAssumption DEF Shown, Grows, Waiting, CountersOK
<1>3. CallFits'
  BY DEF Shown, CallFits, Fits, Tries, Waiting
<1> QED BY <1>1, <1>2, <1>3
        DEF Shown, CallOK, FallbackIsThere, IdleIsEmpty, RecordedFits, StatusIsEarned,
            Tries, Waiting

LEMMA ShownStep ==
  ASSUME Shown, QueueFacts!Inv, [Next]_vars PROVE Shown' /\ Grows
<1>0. /\ handling \in [Workers -> SUBSET Deliveries]
      /\ asked \subseteq Deliveries /\ status \in [Deliveries -> Status]
      /\ callFaults \in 0 .. MaxCallFaults
  BY DEF QueueFacts!Inv, QueueFacts!TypeOK, Shown, CountersOK
<1>1. ASSUME NEW batch \in SUBSET Deliveries, Publish(batch) PROVE Shown' /\ Grows
  <2>1. handling' = handling
    BY <1>1 DEF Publish, Queue!Enqueue, Queue!memory
  <2>2. /\ status' \in [Deliveries -> Status]
        /\ \A d \in Deliveries : \/ status'[d] = status[d]
                                 \/ status[d] = "ABSENT" /\ status'[d] = "PENDING"
    BY <1>0, <1>1 DEF Publish, Upsert, Status
  <2> QED BY <1>0, <1>1, <2>1, <2>2, CallKeptShown DEF Publish
<1>2. ASSUME NEW w \in Workers, NEW d \in Deliveries, HandlerStep(w, d) \/ HandlerFault(w, d)
      PROVE  Shown' /\ Grows
  <2>1. CASE Own(w, d)
    BY <2>1, OwnShown
  <2>2. CASE EnqueueFallback(w, d)
    <3>1. /\ d \in handling[w] /\ GoTo(w, d, "returned") /\ "returned" \in Stage
          /\ UNCHANGED <<status, recorded, asked, posts, accepted, callFaults>>
          /\ handling' = handling
      BY <2>2 DEF EnqueueFallback, At, Queue!Enqueue, Queue!memory, jobVars, Stage
    <3>2. PICK c \in [stage : Stage, attempts : Nat] :
                 call' = [call EXCEPT ![w][d] = c] /\ c.stage = "returned"
      BY <3>1, GoToEffect DEF Shown
    <3>3. CountersOK' /\ Grows /\ RecordedFits' /\ StatusIsEarned'
      BY <1>0, <3>1, QuietShown DEF Quiet
    <3>4. Fits(c, d)'
      BY <3>2 DEF Fits, InTry, InCatch
    <3>5. CallOK' /\ IdleIsEmpty' /\ CallFits'
      BY <3>1, <3>2, <3>3, <3>4, GoOn
    <3>6. FallbackIsThere'
      BY <3>2 DEF Shown, CallOK, FallbackIsThere
    <3> QED BY <3>3, <3>5, <3>6 DEF Shown
  <2>3. ASSUME \/ HandlerReturns(w, d) \/ HandlerThrows(w, d)
               \/ \E revoked \in BOOLEAN : HandlerIsFailed(w, d, revoked)
        PROVE  Shown' /\ Grows
    <3>1. handling' = [handling EXCEPT ![w] = @ \ {d}]
      BY <2>3, LeaveEffect DEF HandlerReturns, HandlerThrows, HandlerIsFailed
    <3>2. /\ callFaults' = callFaults \/ CallFault
          /\ Forget(w, d) /\ Quiet
      BY <2>3 DEF HandlerReturns, HandlerThrows, HandlerIsFailed
    <3>3. callFaults' \in {callFaults, callFaults + 1} /\ callFaults' \in 0 .. MaxCallFaults
      BY <1>0, <3>2, NotificationAssumption DEF CallFault
    <3> QED BY <3>1, <3>2, <3>3, ForgetShown
  <2>4. CASE SettlementThrows(w, d)
    BY <1>0, <2>4, SettlementThrowsEffect, ForgetShown DEF SettlementThrows
  <2> QED BY <1>2, <2>1, <2>2, <2>3, <2>4 DEF HandlerStep, HandlerFault, Own
<1>3. ASSUME NEW w \in Workers, Crash(w) PROVE Shown' /\ Grows
  <2>0. CallOK /\ CountersOK /\ IdleIsEmpty /\ CallFits /\ FallbackIsThere
    BY DEF Shown
  <2>1. handling' = [handling EXCEPT ![w] = {}]
    BY <1>3, CrashEffect DEF Crash
  <2>2. CallOK' /\ \A v \in Workers, k \in Deliveries :
               call'[v][k] = IF v = w THEN NoCall ELSE call[v][k]
    BY <1>3, <2>0, NoCallOK DEF CallOK, Crash
  <2>3. CountersOK' /\ Grows /\ RecordedFits' /\ StatusIsEarned'
    BY <1>0, <1>3, QuietShown DEF Crash
  <2>4. IdleIsEmpty' /\ FallbackIsThere'
    BY <1>0, <2>0, <2>1, <2>2, NoCallOK DEF IdleIsEmpty, FallbackIsThere
  <2>5. CallFits'
    BY <2>0, <2>2, <2>3, OtherCallsFit
  <2> QED BY <2>2, <2>3, <2>4, <2>5 DEF Shown
<1>4. ASSUME QueueStep PROVE Shown' /\ Grows
  <2>1. \A w \in Workers : handling[w] \subseteq handling'[w]
    BY <1>0, <1>4 DEF QueueStep, Queue!Claim, Queue!StartHandler, Queue!LockExpires,
                    Queue!Discard, Queue!memory
  <2> QED BY <1>0, <1>4, <2>1, CallKeptShown DEF QueueStep, deliveryVars
<1>5. CASE UNCHANGED vars
  BY <1>0, <1>5, CallKeptShown DEF vars, deliveryVars, jobVars
<1> QED BY <1>1, <1>2, <1>3, <1>4, <1>5 DEF Next

-----------------------------------------------------------------------------
(* The messages that may still be sent: the workers whose handlers have    *)
(* neither sent the delivery nor given up, and the job while it can be     *)
(* claimed, or will be since nobody holds it.                              *)
Over == {"sent", "returned"}
Tokens(d) ==
  {w \in Workers : d \in queued[w] \/ (d \in handling[w] /\ call[w][d].stage \notin Over)}
Claims(d) ==
  IF \/ jobStatus[d] \in {"ABSENT", "PENDING"}
     \/ jobStatus[d] = "RUNNING" /\ (expired[d] \/ Queue!Abandoned(d))
    THEN 1
    ELSE 0
Spent(d) == accepted[d] + Cardinality(Tokens(d)) + Claims(d)

(* Those of a Slack delivery that has ended: only a handler that had read  *)
(* it before goes on with it.                                              *)
Late == {"send", "error"} \cup InTry \cup InCatch
LateTokens(d) == {w \in Workers : d \in handling[w] /\ call[w][d].stage \in Late}
LateSpent(d) == accepted[d] + Cardinality(LateTokens(d))

Faults == jobFaults + callFaults
Budget(d) == Spent(d) <= 1 + Faults

(* A job that is not enqueued has left no trace.                           *)
NotYet(d) ==
  jobStatus[d] = "ABSENT" =>
    accepted[d] = 0 /\ \A w \in Workers : d \notin queued[w] /\ d \notin handling[w]

(* A Slack delivery and the e-mail that only replaces it share a budget.   *)
Chained(s) ==
  Fallback[s] # None /\ Fallback[s] \notin asked /\ jobStatus[Fallback[s]] # "ABSENT" =>
    ~ Waiting(s) /\ LateSpent(s) + Spent(Fallback[s]) <= 1 + Faults

SameFaults == jobFaults' = jobFaults /\ callFaults' = callFaults
OneMoreFault ==
  \/ jobFaults' = jobFaults + 1 /\ callFaults' = callFaults
  \/ jobFaults' = jobFaults /\ callFaults' = callFaults + 1

(* Counting tokens that come and go.                                       *)
LEMMA SetStep ==
  ASSUME NEW S, NEW T, IsFiniteSet(S), IsFiniteSet(T)
  PROVE  /\ Cardinality(S) \in Nat /\ Cardinality(T) \in Nat
         /\ T \subseteq S => Cardinality(T) <= Cardinality(S)
         /\ \A x \in S : T \subseteq S \ {x} => Cardinality(T) <= Cardinality(S) - 1
         /\ \A x : T \subseteq S \cup {x} => Cardinality(T) <= Cardinality(S) + 1
<1>1. Cardinality(S) \in Nat /\ Cardinality(T) \in Nat
  BY FS_CardinalityType
<1>2. ASSUME T \subseteq S PROVE Cardinality(T) <= Cardinality(S)
  BY <1>2, FS_Subset
<1>3. ASSUME NEW x \in S, T \subseteq S \ {x}
      PROVE  Cardinality(T) <= Cardinality(S) - 1
  <2>1. IsFiniteSet(S \ {x}) /\ Cardinality(S \ {x}) = Cardinality(S) - 1
    BY FS_RemoveElement
  <2>2. Cardinality(T) <= Cardinality(S \ {x})
    BY <1>3, <2>1, FS_Subset
  <2> QED BY <2>1, <2>2
<1>4. ASSUME NEW x, T \subseteq S \cup {x}
      PROVE  Cardinality(T) <= Cardinality(S) + 1
  <2>1. CASE x \in S
    <3>1. T \subseteq S
      BY <1>4, <2>1
    <3> QED BY <1>1, <1>2, <3>1
  <2>2. CASE x \notin S
    <3>1. IsFiniteSet(S \cup {x}) /\ Cardinality(S \cup {x}) = Cardinality(S) + 1
      BY <2>2, FS_AddElement
    <3>2. Cardinality(T) <= Cardinality(S \cup {x})
      BY <1>4, <3>1, FS_Subset
    <3> QED BY <3>1, <3>2
  <2> QED BY <2>1, <2>2
<1> QED BY <1>1, <1>2, <1>3, <1>4

LEMMA TokensFinite ==
  ASSUME NEW d
  PROVE  /\ IsFiniteSet(Tokens(d)) /\ IsFiniteSet(Tokens(d)')
         /\ IsFiniteSet(LateTokens(d)) /\ IsFiniteSet(LateTokens(d)')
BY NotificationAssumption, FS_Subset DEF Tokens, LateTokens

(* What a delivery has accepted (a), its tokens (n) and its claims (c),    *)
(* before and after a step without a fault, and after one with a fault.    *)
LEMMA Weigh ==
  ASSUME NEW a \in Nat, NEW n \in Nat, NEW c \in {0, 1},
         NEW aa \in Nat, NEW nn \in Nat, NEW cc \in {0, 1}
  PROVE  /\ \/ aa = a /\ nn <= n /\ cc <= c
            \/ aa = a /\ nn <= n - 1
            \/ aa = a /\ nn <= n + 1 /\ c = 1 /\ cc = 0
            \/ aa = a + 1 /\ nn <= n - 1 /\ cc <= c
            => aa + nn + cc <= a + n + c
         /\ \/ aa = a /\ nn <= n
            \/ aa = a /\ nn <= n + 1 /\ cc <= c
            \/ aa = a + 1 /\ nn <= n /\ cc <= c
            => aa + nn + cc <= a + n + c + 1
OBVIOUS

LEMMA SpentKept ==
  ASSUME CountersOK, CountersOK', NEW k \in Deliveries,
         \/ /\ accepted'[k] = accepted[k] /\ Tokens(k)' \subseteq Tokens(k)
            /\ Claims(k)' <= Claims(k)
         \/ /\ accepted'[k] = accepted[k]
            /\ \E w \in Tokens(k) : Tokens(k)' \subseteq Tokens(k) \ {w}
         \/ /\ accepted'[k] = accepted[k] /\ Claims(k) = 1 /\ Claims(k)' = 0
            /\ \E w : Tokens(k)' \subseteq Tokens(k) \cup {w}
         \/ /\ accepted'[k] = accepted[k] + 1 /\ Claims(k)' <= Claims(k)
            /\ \E w \in Tokens(k) : Tokens(k)' \subseteq Tokens(k) \ {w}
  PROVE  Spent(k)' <= Spent(k)
<1>1. /\ accepted[k] \in Nat /\ accepted'[k] \in Nat
      /\ Claims(k) \in {0, 1} /\ Claims(k)' \in {0, 1}
      /\ Cardinality(Tokens(k)) \in Nat /\ Cardinality(Tokens(k)') \in Nat
  BY Counted, CountedPrimed, TokensFinite, FS_CardinalityType DEF Claims
<1>2. \/ /\ accepted'[k] = accepted[k] /\ Claims(k)' <= Claims(k)
         /\ Cardinality(Tokens(k)') <= Cardinality(Tokens(k))
      \/ /\ accepted'[k] = accepted[k]
         /\ Cardinality(Tokens(k)') <= Cardinality(Tokens(k)) - 1
      \/ /\ accepted'[k] = accepted[k] /\ Claims(k) = 1 /\ Claims(k)' = 0
         /\ Cardinality(Tokens(k)') <= Cardinality(Tokens(k)) + 1
      \/ /\ accepted'[k] = accepted[k] + 1 /\ Claims(k)' <= Claims(k)
         /\ Cardinality(Tokens(k)') <= Cardinality(Tokens(k)) - 1
  BY TokensFinite, SetStep
<1>3. accepted'[k] + Cardinality(Tokens(k)') + Claims(k)'
        <= accepted[k] + Cardinality(Tokens(k)) + Claims(k)
  BY <1>1, <1>2, Weigh
<1> QED BY <1>3 DEF Spent

LEMMA SpentMore ==
  ASSUME CountersOK, CountersOK', NEW k \in Deliveries,
         \/ accepted'[k] = accepted[k] /\ Tokens(k)' \subseteq Tokens(k)
         \/ /\ accepted'[k] = accepted[k] /\ Claims(k)' <= Claims(k)
            /\ \E w : Tokens(k)' \subseteq Tokens(k) \cup {w}
         \/ /\ accepted'[k] = accepted[k] + 1 /\ Claims(k)' <= Claims(k)
            /\ Tokens(k)' \subseteq Tokens(k)
  PROVE  Spent(k)' <= Spent(k) + 1
<1>1. /\ accepted[k] \in Nat /\ accepted'[k] \in Nat
      /\ Claims(k) \in {0, 1} /\ Claims(k)' \in {0, 1}
      /\ Cardinality(Tokens(k)) \in Nat /\ Cardinality(Tokens(k)') \in Nat
  BY Counted, CountedPrimed, TokensFinite, FS_CardinalityType DEF Claims
<1>2. \/ /\ accepted'[k] = accepted[k]
         /\ Cardinality(Tokens(k)') <= Cardinality(Tokens(k))
      \/ /\ accepted'[k] = accepted[k] /\ Claims(k)' <= Claims(k)
         /\ Cardinality(Tokens(k)') <= Cardinality(Tokens(k)) + 1
      \/ /\ accepted'[k] = accepted[k] + 1 /\ Claims(k)' <= Claims(k)
         /\ Cardinality(Tokens(k)') <= Cardinality(Tokens(k))
  BY TokensFinite, SetStep
<1>3. accepted'[k] + Cardinality(Tokens(k)') + Claims(k)'
        <= accepted[k] + Cardinality(Tokens(k)) + Claims(k) + 1
  BY <1>1, <1>2, Weigh
<1> QED BY <1>3 DEF Spent

(* The claims on a row that a step leaves alone.                           *)
LEMMA ClaimsKept ==
  ASSUME NEW d \in Deliveries,
         jobStatus'[d] = jobStatus[d], lockedBy'[d] = lockedBy[d], expired'[d] = expired[d],
         \A w \in Workers :
           d \in queued[w] \cup handling[w] <=> d \in queued'[w] \cup handling'[w]
  PROVE  Claims(d)' = Claims(d)
<1>1. Queue!Abandoned(d)' <=> Queue!Abandoned(d)
  BY DEF Queue!Abandoned, Queue!InMemory
<1> QED BY <1>1 DEF Claims

(* A step of a handler between its begin and its end.                      *)
LEMMA OwnBudget ==
  ASSUME Shown, NEW w \in Workers, NEW d \in Deliveries, Own(w, d)
  PROVE  \E stage \in Stage :
           /\ \A v \in Workers, k \in Deliveries :
                IF v = w /\ k = d THEN call'[v][k].stage = stage
                                  ELSE call'[v][k] = call[v][k]
           /\ \/ /\ accepted' = accepted /\ callFaults' = callFaults
                 /\ call[w][d].stage \in Over => stage \in Over
                 /\ stage \in Late => call[w][d].stage \in Late \/ Waiting(d)
              \/ /\ accepted' = [accepted EXCEPT ![d] = @ + 1] /\ callFaults' = callFaults
                 /\ call[w][d].stage = "send" /\ stage = "sent"
              \/ accepted' = accepted /\ callFaults' = callFaults + 1
              \/ /\ accepted' = [accepted EXCEPT ![d] = @ + 1]
                 /\ callFaults' = callFaults + 1 /\ call[w][d].stage = "send"
<1>0. CallOK /\ CountersOK
  BY DEF Shown
<1>a. accepted = [accepted EXCEPT ![d] = accepted[d]]
  BY <1>0 DEF CountersOK
<1>g. ASSUME NEW stage \in Stage, GoTo(w, d, stage)
      PROVE  \A v \in Workers, k \in Deliveries :
               IF v = w /\ k = d THEN call'[v][k].stage = stage
                                 ELSE call'[v][k] = call[v][k]
  <2>1. PICK c \in [stage : Stage, attempts : Nat] :
               /\ call' = [call EXCEPT ![w][d] = c]
               /\ c.stage = stage /\ c.attempts = call[w][d].attempts
    BY <1>0, <1>g, GoToEffect
  <2> QED BY <1>0, <2>1 DEF CallOK
<1> DEFINE old == call[w][d].stage
<1>1. CASE Load(w, d)
  <2>1. PICK stage \in {"send", "returned"} :
               /\ call' = [call EXCEPT ![w][d] = [stage |-> stage, attempts |-> recorded[d]]]
               /\ stage = "send" => Waiting(d)
    BY <1>1 DEF Load, Waiting
  <2>2. \A v \in Workers, k \in Deliveries :
          IF v = w /\ k = d THEN call'[v][k].stage = stage ELSE call'[v][k] = call[v][k]
    BY <1>0, <2>1 DEF CallOK
  <2>3. stage \in Stage /\ old = "begin" /\ accepted' = accepted /\ callFaults' = callFaults
    BY <1>1 DEF Load, At, Stage
  <2>4. (old \in Over => stage \in Over) /\ (stage \in Late => Waiting(d))
    BY <2>1, <2>3 DEF Over, Late, InTry, InCatch
  <2> QED BY <2>2, <2>3, <2>4
(* Neither a message nor a fault.                                          *)
<1>2. ASSUME \/ Withhold(w, d) \/ SkipUnsent(w, d) \/ Send(w, d, FALSE)
             \/ RecordSent(w, d) \/ RecordFailure(w, d) \/ FallBack(w, d)
      PROVE  \E stage \in Stage :
               /\ GoTo(w, d, stage)
               /\ accepted' = accepted /\ callFaults' = callFaults
               /\ old \in Over => stage \in Over
               /\ stage \in Late => old \in Late
  BY <1>2, <1>a DEF Withhold, SkipUnsent, Send, RecordSent, RecordFailure, FallBack, Record, At,
              Stage, Over, Late, InTry, InCatch
<1>3. ASSUME Send(w, d, TRUE)
      PROVE  \E stage \in Stage :
               /\ GoTo(w, d, stage)
               /\ accepted' = [accepted EXCEPT ![d] = @ + 1] /\ callFaults' = callFaults
               /\ old = "send" /\ stage = "sent"
  BY <1>3 DEF Send, At, Stage
<1>4. ASSUME \/ \E stage \in {"error", "threw"} : CheckThrows(w, d, stage)
             \/ WriteThrows(w, d)
             \/ \E ok \in BOOLEAN, stage \in {"send", "error", "threw"} :
                  SendThrows(w, d, ok, stage)
      PROVE  \E stage \in Stage :
               /\ GoTo(w, d, stage)
               /\ callFaults' = callFaults + 1
               /\ \/ accepted' = accepted
                  \/ accepted' = [accepted EXCEPT ![d] = @ + 1] /\ old = "send"
  BY <1>4, <1>a DEF CheckThrows, WriteThrows, SendThrows, CallFault, At, Stage
<1>5. CASE \/ Withhold(w, d) \/ SkipUnsent(w, d) \/ Send(w, d, FALSE)
           \/ RecordSent(w, d) \/ RecordFailure(w, d) \/ FallBack(w, d)
  BY <1>2, <1>5, <1>g
<1>6. CASE Send(w, d, TRUE)
  BY <1>3, <1>6, <1>g
<1>7. CASE \/ \E stage \in {"error", "threw"} : CheckThrows(w, d, stage)
           \/ WriteThrows(w, d)
           \/ \E ok \in BOOLEAN, stage \in {"send", "error", "threw"} :
                SendThrows(w, d, ok, stage)
  BY <1>4, <1>7, <1>g
<1> QED BY <1>1, <1>5, <1>6, <1>7 DEF Own

-----------------------------------------------------------------------------
(* What the steps of the model do to the queue, for its row k.             *)
LEMMA EnqueueEffect ==
  ASSUME NEW batch, Queue!Enqueue(batch), NEW k \in Deliveries
  PROVE  /\ UNCHANGED <<queued, handling, lockedBy, expired, jobFaults>>
         /\ \/ jobStatus'[k] = jobStatus[k]
            \/ k \in batch /\ jobStatus[k] = "ABSENT" /\ jobStatus'[k] = "PENDING"
         /\ Claims(k)' = Claims(k)
<1>1. /\ UNCHANGED <<queued, handling, lockedBy, expired, jobFaults>>
      /\ \/ jobStatus'[k] = jobStatus[k]
         \/ k \in batch /\ jobStatus[k] = "ABSENT" /\ jobStatus'[k] = "PENDING"
  BY DEF Queue!Enqueue, Queue!memory
<1>2. Queue!Abandoned(k)' <=> Queue!Abandoned(k)
  BY <1>1 DEF Queue!Abandoned, Queue!InMemory
<1> QED BY <1>1, <1>2 DEF Claims

LEMMA ClaimEffect ==
  ASSUME QueueFacts!Inv, NEW w \in Workers, NEW batch \in SUBSET Deliveries,
         Queue!Claim(w, batch), NEW k \in Deliveries
  PROVE  /\ queued[w] = {} /\ handling[w] = {} /\ UNCHANGED <<handling, jobFaults>>
         /\ queued'[w] = batch /\ \A v \in Workers \ {w} : queued'[v] = queued[v]
         /\ k \in batch =>
              /\ jobStatus[k] = "PENDING" \/ (jobStatus[k] = "RUNNING" /\ expired[k])
              /\ jobStatus'[k] = "RUNNING" /\ lockedBy'[k] = w /\ expired'[k] = FALSE
         /\ k \notin batch =>
              /\ jobStatus'[k] = jobStatus[k] /\ lockedBy'[k] = lockedBy[k]
              /\ expired'[k] = expired[k]
<1>1. /\ queued[w] = {} /\ handling[w] = {} /\ UNCHANGED <<handling, jobFaults>>
      /\ queued' = [queued EXCEPT ![w] = batch]
      /\ jobStatus' = [j \in Deliveries |-> IF j \in batch THEN "RUNNING" ELSE jobStatus[j]]
      /\ lockedBy' = [j \in Deliveries |-> IF j \in batch THEN w ELSE lockedBy[j]]
      /\ expired' = [j \in Deliveries |-> IF j \in batch THEN FALSE ELSE expired[j]]
      /\ \A j \in batch : jobStatus[j] = "PENDING" \/ (jobStatus[j] = "RUNNING" /\ expired[j])
  BY DEF Queue!Claim, Queue!Claimable
<1>2. queued \in [Workers -> SUBSET Deliveries]
  BY DEF QueueFacts!Inv, QueueFacts!TypeOK
<1> QED BY <1>1, <1>2

(* The steps in which a handler ends.                                      *)
Ends(w, d) ==
  \/ HandlerReturns(w, d) \/ HandlerThrows(w, d)
  \/ \E revoked \in BOOLEAN : HandlerIsFailed(w, d, revoked)

LEMMA EndsEffect ==
  ASSUME Shown, QueueFacts!Inv, NEW w \in Workers, NEW d \in Deliveries, Ends(w, d)
  PROVE  /\ d \in handling[w]
         /\ handling' = [handling EXCEPT ![w] = @ \ {d}]
         /\ UNCHANGED <<queued, jobFaults, asked, status, accepted>>
         /\ \A k \in Deliveries \ {d} :
              jobStatus'[k] = jobStatus[k] /\ lockedBy'[k] = lockedBy[k] /\ expired'[k] = expired[k]
         /\ jobStatus'[d] \in {"COMPLETED", "FAILED", "PENDING"}
         /\ \A v \in Workers, k \in Deliveries :
              v # w \/ k # d => call'[v][k] = call[v][k]
         /\ \/ callFaults' = callFaults + 1
            \/ callFaults' = callFaults /\ jobStatus'[d] = "COMPLETED"
            \/ callFaults' = callFaults /\ call[w][d].stage = "threw"
<1>1. Forget(w, d) /\ Quiet
  BY DEF Ends, HandlerReturns, HandlerThrows, HandlerIsFailed
<1>2. \/ Queue!HandlerSucceeds(w, d)
      \/ \E revoked \in BOOLEAN : Queue!HandlerFails(w, d, revoked)
  BY DEF Ends, HandlerReturns, HandlerThrows, HandlerIsFailed
<1>3. \/ callFaults' = callFaults + 1
      \/ callFaults' = callFaults /\ Queue!HandlerSucceeds(w, d)
      \/ callFaults' = callFaults /\ call[w][d].stage = "threw"
  BY DEF Ends, HandlerReturns, HandlerThrows, HandlerIsFailed, CallFault, At
<1>4. \A v \in Workers, k \in Deliveries : v # w \/ k # d => call'[v][k] = call[v][k]
  BY <1>1 DEF Forget, Shown, CallOK
<1>5. /\ d \in handling[w]
      /\ handling' = [handling EXCEPT ![w] = @ \ {d}]
      /\ UNCHANGED <<queued, jobFaults>>
      /\ \A k \in Deliveries \ {d} :
           jobStatus'[k] = jobStatus[k] /\ lockedBy'[k] = lockedBy[k] /\ expired'[k] = expired[k]
      /\ jobStatus'[d] \in {"COMPLETED", "FAILED", "PENDING"}
      /\ Queue!HandlerSucceeds(w, d) => jobStatus'[d] = "COMPLETED"
  BY <1>2, LeaveEffect
<1> QED BY <1>1, <1>3, <1>4, <1>5 DEF Quiet

(* The steps of Next, as the proofs below divide them.                     *)
LEMMA NextSteps ==
  ASSUME [Next]_vars
  PROVE  \/ \E batch \in SUBSET Deliveries : Publish(batch)
         \/ \E w \in Workers, d \in Deliveries :
              Own(w, d) \/ EnqueueFallback(w, d) \/ Ends(w, d) \/ SettlementThrows(w, d)
         \/ \E w \in Workers : Crash(w)
         \/ /\ \/ \E w \in Workers, batch \in SUBSET Deliveries : Queue!Claim(w, batch)
               \/ \E w \in Workers, d \in Deliveries : Queue!StartHandler(w, d)
               \/ \E d \in Deliveries : Queue!LockExpires(d) \/ Queue!Discard(d)
            /\ UNCHANGED deliveryVars
         \/ UNCHANGED vars
BY DEF Next, HandlerStep, HandlerFault, Own, Ends, QueueStep

LEMMA MemoryTypes ==
  ASSUME QueueFacts!Inv
  PROVE  /\ handling \in [Workers -> SUBSET Deliveries]
         /\ queued \in [Workers -> SUBSET Deliveries]
         /\ \A w \in Workers : queued[w] \cap handling[w] = {}
         /\ jobStatus \in [Deliveries -> QueueFacts!Status]
         /\ expired \in [Deliveries -> BOOLEAN]
         /\ lockedBy \in [Deliveries -> Workers \cup {None}]
         /\ jobFaults \in Nat
BY SameAssumptions
   DEF QueueFacts!Inv, QueueFacts!TypeOK, QueueFacts!QueuedOrHandled,
       QueueFacts!BoundAssumption

(* What one delivery has spent, step by step: only a fault adds to it.     *)
LEMMA SpentStep ==
  ASSUME Shown, QueueFacts!Inv, [Next]_vars, NEW k \in Deliveries
  PROVE  \/ SameFaults /\ Spent(k)' <= Spent(k)
         \/ OneMoreFault /\ Spent(k)' <= Spent(k) + 1
<1>0. /\ CallOK /\ CountersOK /\ IdleIsEmpty /\ CountersOK'
      /\ handling \in [Workers -> SUBSET Deliveries]
      /\ queued \in [Workers -> SUBSET Deliveries]
      /\ \A w \in Workers : queued[w] \cap handling[w] = {}
      /\ jobStatus \in [Deliveries -> QueueFacts!Status]
      /\ expired \in [Deliveries -> BOOLEAN]
      /\ lockedBy \in [Deliveries -> Workers \cup {None}]
      /\ callFaults \in Nat /\ jobFaults \in Nat
  BY ShownStep, MemoryTypes, NotificationAssumption DEF Shown, CountersOK
<1>b. Claims(k) \in {0, 1} /\ Claims(k)' \in {0, 1}
  BY DEF Claims
<1>k. ASSUME accepted'[k] = accepted[k], Tokens(k)' \subseteq Tokens(k),
             SameFaults \/ OneMoreFault, Claims(k)' = Claims(k) \/ OneMoreFault
      PROVE  \/ SameFaults /\ Spent(k)' <= Spent(k)
             \/ OneMoreFault /\ Spent(k)' <= Spent(k) + 1
  <2>1. CASE SameFaults /\ Claims(k)' = Claims(k)
    BY <1>0, <1>b, <1>k, <2>1, SpentKept
  <2>2. CASE OneMoreFault
    BY <1>0, <1>k, <2>2, SpentMore
  <2> QED BY <1>k, <2>1, <2>2
<1>1. ASSUME NEW batch \in SUBSET Deliveries, Publish(batch)
      PROVE  SameFaults /\ Spent(k)' <= Spent(k)
  <2>1. /\ UNCHANGED <<accepted, call, queued, handling>> /\ SameFaults
        /\ Claims(k)' = Claims(k)
    BY <1>1, EnqueueEffect DEF Publish, SameFaults
  <2>2. Tokens(k)' \subseteq Tokens(k)
    BY <2>1 DEF Tokens
  <2> QED BY <1>0, <1>b, <2>1, <2>2, SpentKept
<1>2. ASSUME NEW w \in Workers, NEW d \in Deliveries, Own(w, d)
      PROVE  \/ SameFaults /\ Spent(k)' <= Spent(k)
             \/ OneMoreFault /\ Spent(k)' <= Spent(k) + 1
  <2>1. /\ UNCHANGED <<queued, handling, jobStatus, lockedBy, expired, jobFaults>>
        /\ d \in handling[w] /\ d \notin queued[w]
    BY <1>0, <1>2, OwnEffect DEF jobVars
  <2>2. Claims(k)' = Claims(k)
    BY <2>1, ClaimsKept
  <2>3. PICK stage \in Stage :
           /\ \A v \in Workers, j \in Deliveries :
                IF v = w /\ j = d THEN call'[v][j].stage = stage
                                  ELSE call'[v][j] = call[v][j]
           /\ \/ /\ accepted' = accepted /\ callFaults' = callFaults
                 /\ call[w][d].stage \in Over => stage \in Over
              \/ /\ accepted' = [accepted EXCEPT ![d] = @ + 1] /\ callFaults' = callFaults
                 /\ call[w][d].stage = "send" /\ stage = "sent"
              \/ accepted' = accepted /\ callFaults' = callFaults + 1
              \/ /\ accepted' = [accepted EXCEPT ![d] = @ + 1]
                 /\ callFaults' = callFaults + 1 /\ call[w][d].stage = "send"
    BY <1>2, OwnBudget
  <2>4. Tokens(k)' \subseteq Tokens(k) \cup {w}
    BY <2>1, <2>3 DEF Tokens
  <2>5. k # d => Tokens(k)' \subseteq Tokens(k) /\ accepted'[k] = accepted[k]
    BY <1>0, <2>1, <2>3 DEF Tokens, CountersOK
  <2>6. CASE k # d
    <3>1. SameFaults \/ OneMoreFault
      BY <1>0, <2>1, <2>3 DEF SameFaults, OneMoreFault
    <3> QED BY <1>k, <2>2, <2>5, <2>6, <3>1
  <2>7. CASE /\ k = d /\ accepted' = accepted /\ callFaults' = callFaults
             /\ call[w][d].stage \in Over => stage \in Over
    <3>1. Tokens(k)' \subseteq Tokens(k)
      BY <2>1, <2>3, <2>7 DEF Tokens
    <3> QED BY <1>k, <2>1, <2>2, <2>7, <3>1 DEF SameFaults
  <2>8. CASE /\ k = d /\ accepted' = [accepted EXCEPT ![d] = @ + 1]
             /\ callFaults' = callFaults /\ call[w][d].stage = "send" /\ stage = "sent"
    <3>1. w \in Tokens(k) /\ Tokens(k)' \subseteq Tokens(k) \ {w}
      BY <2>1, <2>3, <2>8 DEF Tokens, Over
    <3>2. accepted'[k] = accepted[k] + 1 /\ Claims(k)' <= Claims(k) /\ SameFaults
      BY <1>0, <1>b, <2>1, <2>2, <2>8 DEF CountersOK, SameFaults
    <3> QED BY <1>0, <3>1, <3>2, SpentKept
  <2>9. CASE k = d /\ accepted' = accepted /\ callFaults' = callFaults + 1
    <3>1. OneMoreFault /\ Claims(k)' <= Claims(k)
      BY <1>b, <2>1, <2>2, <2>9 DEF OneMoreFault
    <3> QED BY <1>0, <2>4, <2>9, <3>1, SpentMore
  <2>10. CASE /\ k = d /\ accepted' = [accepted EXCEPT ![d] = @ + 1]
              /\ callFaults' = callFaults + 1 /\ call[w][d].stage = "send"
    <3>1. Tokens(k)' \subseteq Tokens(k)
      BY <2>1, <2>3, <2>10 DEF Tokens, Over
    <3>2. accepted'[k] = accepted[k] + 1 /\ Claims(k)' <= Claims(k) /\ OneMoreFault
      BY <1>0, <1>b, <2>1, <2>2, <2>10 DEF CountersOK, OneMoreFault
    <3> QED BY <1>0, <3>1, <3>2, SpentMore
  <2> QED BY <2>3, <2>6, <2>7, <2>8, <2>9, <2>10
<1>3. ASSUME NEW w \in Workers, NEW d \in Deliveries, EnqueueFallback(w, d)
      PROVE  SameFaults /\ Spent(k)' <= Spent(k)
  <2>1. /\ UNCHANGED <<accepted, callFaults>> /\ GoTo(w, d, "returned") /\ "returned" \in Stage
        /\ Queue!Enqueue({Fallback[d]}) \/ UNCHANGED jobVars
    BY <1>3 DEF EnqueueFallback, Stage
  <2>2. UNCHANGED <<queued, handling, jobFaults>> /\ Claims(k)' = Claims(k)
    BY <2>1, EnqueueEffect, ClaimsKept DEF jobVars
  <2>3. \A v \in Workers, j \in Deliveries :
          call'[v][j] = call[v][j] \/ call'[v][j].stage \in Over
    BY <1>0, <2>1, GoToEffect, MoveEffect DEF Over
  <2>4. Tokens(k)' \subseteq Tokens(k)
    BY <2>2, <2>3 DEF Tokens
  <2> QED BY <1>0, <1>b, <2>1, <2>2, <2>4, SpentKept DEF SameFaults
<1>4. ASSUME NEW w \in Workers, NEW d \in Deliveries, Ends(w, d)
      PROVE  \/ SameFaults /\ Spent(k)' <= Spent(k)
             \/ OneMoreFault /\ Spent(k)' <= Spent(k) + 1
  <2>1. /\ d \in handling[w]
        /\ handling' = [handling EXCEPT ![w] = @ \ {d}]
        /\ UNCHANGED <<queued, jobFaults, accepted>>
        /\ \A j \in Deliveries \ {d} :
             jobStatus'[j] = jobStatus[j] /\ lockedBy'[j] = lockedBy[j] /\ expired'[j] = expired[j]
        /\ \A v \in Workers, j \in Deliveries :
             v # w \/ j # d => call'[v][j] = call[v][j]
        /\ \/ callFaults' = callFaults + 1
           \/ callFaults' = callFaults /\ jobStatus'[d] = "COMPLETED"
           \/ callFaults' = callFaults /\ call[w][d].stage = "threw"
    BY <1>4, EndsEffect
  <2>2. /\ Tokens(k)' \subseteq Tokens(k)
        /\ k = d => Tokens(k)' \subseteq Tokens(k) \ {w}
    BY <1>0, <2>1 DEF Tokens
  <2>3. SameFaults \/ OneMoreFault
    BY <2>1 DEF SameFaults, OneMoreFault
  <2>4. ASSUME k # d PROVE Claims(k)' = Claims(k)
    BY <1>0, <2>1, <2>4, ClaimsKept
  <2>5. CASE k # d \/ OneMoreFault
    BY <1>k, <2>1, <2>2, <2>3, <2>4, <2>5
  <2>6. CASE k = d /\ SameFaults
    <3>1. jobStatus'[d] = "COMPLETED" \/ call[w][d].stage = "threw"
      BY <1>0, <2>1, <2>6 DEF SameFaults
    <3>2. CASE jobStatus'[d] = "COMPLETED"
      <4>1. Claims(k)' = 0
        BY <2>6, <3>2 DEF Claims
      <4>2. Claims(k)' <= Claims(k)
        BY <1>b, <4>1
      <4> QED BY <1>0, <2>1, <2>2, <2>6, <4>2, SpentKept
    <3>3. CASE call[w][d].stage = "threw"
      <4>1. w \in Tokens(k)
        BY <2>1, <2>6, <3>3 DEF Tokens, Over
      <4> QED BY <1>0, <2>1, <2>2, <2>6, <4>1, SpentKept
    <3> QED BY <3>1, <3>2, <3>3
  <2> QED BY <2>3, <2>5, <2>6
<1>5. ASSUME NEW w \in Workers,
             Crash(w) \/ \E d \in Deliveries : SettlementThrows(w, d)
      PROVE  OneMoreFault /\ Spent(k)' <= Spent(k) + 1
  <2>1. accepted' = accepted /\ callFaults' = callFaults
    BY <1>5 DEF Crash, SettlementThrows, Quiet
  <2>2. OneMoreFault
    BY <1>5, <2>1, CrashEffect, SettlementThrowsEffect
       DEF Crash, SettlementThrows, OneMoreFault
  <2>3. Tokens(k)' \subseteq Tokens(k)
    <3>1. CASE Crash(w)
      <4>1. /\ \A v \in Workers : v # w => call'[v] = call[v]
            /\ handling'[w] = {} /\ queued'[w] = {}
            /\ \A v \in Workers : v # w => handling'[v] = handling[v] /\ queued'[v] = queued[v]
        BY <1>0, <3>1, CrashEffect DEF Crash, CallOK
      <4> QED BY <4>1 DEF Tokens
    <3>2. ASSUME NEW d \in Deliveries, SettlementThrows(w, d)
          PROVE  Tokens(k)' \subseteq Tokens(k)
      <4>1. /\ \A v \in Workers, j \in Deliveries :
                 v # w \/ j # d => call'[v][j] = call[v][j]
            /\ handling' = [handling EXCEPT ![w] = @ \ {d}]
            /\ \A v \in Workers : queued'[v] \subseteq queued[v]
        BY <1>0, <3>2, SettlementThrowsEffect DEF SettlementThrows, Forget, CallOK
      <4> QED BY <1>0, <4>1 DEF Tokens
    <3> QED BY <1>5, <3>1, <3>2
  <2> QED BY <1>0, <2>1, <2>2, <2>3, SpentMore
<1>6. ASSUME NEW w \in Workers, NEW batch \in SUBSET Deliveries, Queue!Claim(w, batch),
             UNCHANGED deliveryVars
      PROVE  SameFaults /\ Spent(k)' <= Spent(k)
  <2>1. /\ queued[w] = {} /\ handling[w] = {} /\ UNCHANGED <<handling, jobFaults>>
        /\ queued'[w] = batch /\ \A v \in Workers \ {w} : queued'[v] = queued[v]
        /\ k \in batch =>
             /\ jobStatus[k] = "PENDING" \/ (jobStatus[k] = "RUNNING" /\ expired[k])
             /\ jobStatus'[k] = "RUNNING" /\ lockedBy'[k] = w /\ expired'[k] = FALSE
        /\ k \notin batch =>
             /\ jobStatus'[k] = jobStatus[k] /\ lockedBy'[k] = lockedBy[k]
             /\ expired'[k] = expired[k]
    BY <1>6, ClaimEffect
  <2>2. SameFaults /\ accepted' = accepted /\ call' = call
    BY <1>6, <2>1 DEF deliveryVars, SameFaults
  <2>3. CASE k \in batch
    <3>1. Tokens(k)' \subseteq Tokens(k) \cup {w}
      BY <2>1, <2>2 DEF Tokens
    <3>2. Claims(k) = 1
      BY <2>1, <2>3 DEF Claims
    <3>3. ~ Queue!Abandoned(k)'
      BY <2>1, <2>3 DEF Queue!Abandoned, Queue!InMemory
    <3>4. Claims(k)' = 0
      BY <2>1, <2>3, <3>3 DEF Claims
    <3> QED BY <1>0, <2>2, <3>1, <3>2, <3>4, SpentKept
  <2>4. CASE k \notin batch
    <3>1. \A v \in Workers : k \in queued'[v] <=> k \in queued[v]
      BY <2>1, <2>4
    <3>2. Tokens(k)' \subseteq Tokens(k)
      BY <2>1, <2>2, <3>1 DEF Tokens
    <3>3. Claims(k)' = Claims(k)
      BY <2>1, <2>4, <3>1, ClaimsKept
    <3> QED BY <1>0, <1>b, <2>2, <3>2, <3>3, SpentKept
  <2> QED BY <2>3, <2>4
<1>7. ASSUME NEW w \in Workers, NEW d \in Deliveries, Queue!StartHandler(w, d),
             UNCHANGED deliveryVars
      PROVE  SameFaults /\ Spent(k)' <= Spent(k)
  <2>1. /\ d \in queued[w] /\ d \notin handling[w]
        /\ queued' = [queued EXCEPT ![w] = @ \ {d}]
        /\ handling' = [handling EXCEPT ![w] = @ \cup {d}]
        /\ UNCHANGED <<jobStatus, lockedBy, expired, jobFaults>>
    BY <1>0, <1>7 DEF Queue!StartHandler, Queue!row
  <2>2. SameFaults /\ accepted' = accepted /\ call' = call
    BY <1>7, <2>1 DEF deliveryVars, SameFaults
  <2>3. Tokens(k)' \subseteq Tokens(k)
    BY <1>0, <2>1, <2>2 DEF Tokens
  <2>4. \A v \in Workers :
          k \in queued[v] \cup handling[v] <=> k \in queued'[v] \cup handling'[v]
    BY <1>0, <2>1
  <2>5. Claims(k)' = Claims(k)
    BY <2>1, <2>4, ClaimsKept
  <2> QED BY <1>0, <1>b, <2>2, <2>3, <2>5, SpentKept
<1>8. ASSUME NEW d \in Deliveries, Queue!LockExpires(d) \/ Queue!Discard(d),
             UNCHANGED deliveryVars
      PROVE  \/ SameFaults /\ Spent(k)' <= Spent(k)
             \/ OneMoreFault /\ Spent(k)' <= Spent(k) + 1
  <2>1. UNCHANGED <<queued, handling, accepted, call, callFaults>>
    BY <1>8 DEF Queue!LockExpires, Queue!Discard, Queue!memory, deliveryVars
  <2>2. Tokens(k)' \subseteq Tokens(k)
    BY <2>1 DEF Tokens
  <2>3. SameFaults \/ OneMoreFault
    BY <1>8, <2>1 DEF Queue!LockExpires, Queue!Discard, Queue!Fault, SameFaults, OneMoreFault
  <2>4. CASE k # d
    <3>1. /\ jobStatus'[k] = jobStatus[k] /\ lockedBy'[k] = lockedBy[k]
          /\ expired'[k] = expired[k]
      BY <1>0, <1>8, <2>4 DEF Queue!LockExpires, Queue!Discard
    <3>2. Claims(k)' = Claims(k)
      BY <2>1, <3>1, ClaimsKept
    <3> QED BY <1>k, <2>1, <2>2, <2>3, <3>2
  <2>5. CASE k = d /\ Queue!Discard(d)
    <3>1. Claims(k)' = Claims(k)
      BY <1>0, <2>5 DEF Queue!Discard, Claims
    <3> QED BY <1>k, <2>1, <2>2, <2>3, <3>1
  <2>6. CASE k = d /\ Queue!LockExpires(d)
    <3>1. CASE Queue!Abandoned(d) /\ UNCHANGED jobFaults
      <4>1. Claims(k) = 1
        BY <2>6, <3>1 DEF Queue!LockExpires, Claims
      <4>2. SameFaults /\ Claims(k)' <= Claims(k)
        BY <1>b, <2>1, <3>1, <4>1 DEF SameFaults
      <4> QED BY <1>0, <2>1, <2>2, <4>2, SpentKept
    <3>2. CASE Queue!Fault
      <4>1. OneMoreFault
        BY <2>1, <3>2 DEF Queue!Fault, OneMoreFault
      <4> QED BY <1>k, <2>1, <2>2, <4>1
    <3> QED BY <2>6, <3>1, <3>2 DEF Queue!LockExpires
  <2> QED BY <1>8, <2>4, <2>5, <2>6
<1>9. CASE UNCHANGED vars
  <2>1. UNCHANGED <<accepted, call, callFaults, queued, handling, jobStatus, lockedBy, expired, jobFaults>>
    BY <1>9 DEF vars, deliveryVars, jobVars
  <2>2. Tokens(k)' \subseteq Tokens(k) /\ Claims(k)' = Claims(k) /\ SameFaults
    BY <2>1, ClaimsKept DEF Tokens, SameFaults
  <2> QED BY <1>k, <2>1, <2>2
<1> QED BY <1>1, <1>2, <1>3, <1>4, <1>5, <1>6, <1>7, <1>8, <1>9, NextSteps

(* What a Slack delivery that has ended may still spend: a fault that adds *)
(* to it adds to no other delivery.                                        *)
LEMMA LateKept ==
  ASSUME CountersOK, CountersOK', NEW s \in Deliveries,
         \/ accepted'[s] = accepted[s] /\ LateTokens(s)' \subseteq LateTokens(s)
         \/ /\ accepted'[s] = accepted[s] + 1
            /\ \E w \in LateTokens(s) : LateTokens(s)' \subseteq LateTokens(s) \ {w}
  PROVE  LateSpent(s)' <= LateSpent(s)
<1>1. /\ accepted[s] \in Nat /\ accepted'[s] \in Nat
      /\ Cardinality(LateTokens(s)) \in Nat /\ Cardinality(LateTokens(s)') \in Nat
  BY Counted, CountedPrimed, TokensFinite, FS_CardinalityType
<1>2. \/ /\ accepted'[s] = accepted[s]
         /\ Cardinality(LateTokens(s)') <= Cardinality(LateTokens(s))
      \/ /\ accepted'[s] = accepted[s] + 1
         /\ Cardinality(LateTokens(s)') <= Cardinality(LateTokens(s)) - 1
  BY TokensFinite, SetStep
<1>3. accepted'[s] + Cardinality(LateTokens(s)') + 0
        <= accepted[s] + Cardinality(LateTokens(s)) + 0
  BY <1>1, <1>2, Weigh
<1>4. accepted'[s] + Cardinality(LateTokens(s)') <= accepted[s] + Cardinality(LateTokens(s))
  BY <1>1, <1>3
<1> QED BY <1>4 DEF LateSpent

LEMMA LateMore ==
  ASSUME CountersOK, CountersOK', NEW s \in Deliveries, NEW w,
         \/ accepted'[s] = accepted[s] /\ LateTokens(s)' \subseteq LateTokens(s) \cup {w}
         \/ accepted'[s] = accepted[s] + 1 /\ LateTokens(s)' \subseteq LateTokens(s)
  PROVE  LateSpent(s)' <= LateSpent(s) + 1
<1>1. /\ accepted[s] \in Nat /\ accepted'[s] \in Nat
      /\ Cardinality(LateTokens(s)) \in Nat /\ Cardinality(LateTokens(s)') \in Nat
  BY Counted, CountedPrimed, TokensFinite, FS_CardinalityType
<1>2. \/ /\ accepted'[s] = accepted[s]
         /\ Cardinality(LateTokens(s)') <= Cardinality(LateTokens(s)) + 1
      \/ /\ accepted'[s] = accepted[s] + 1
         /\ Cardinality(LateTokens(s)') <= Cardinality(LateTokens(s))
  BY TokensFinite, SetStep
<1>3. accepted'[s] + Cardinality(LateTokens(s)') + 0
        <= accepted[s] + Cardinality(LateTokens(s)) + 0 + 1
  BY <1>1, <1>2, Weigh
<1>4. accepted'[s] + Cardinality(LateTokens(s)')
        <= accepted[s] + Cardinality(LateTokens(s)) + 1
  BY <1>1, <1>3
<1> QED BY <1>4 DEF LateSpent

LEMMA LateStep ==
  ASSUME Shown, QueueFacts!Inv, [Next]_vars, NEW s \in Deliveries, ~ Waiting(s)
  PROVE  \/ LateSpent(s)' <= LateSpent(s)
         \/ /\ OneMoreFault /\ LateSpent(s)' <= LateSpent(s) + 1
            /\ \A k \in Deliveries \ {s} : Spent(k)' <= Spent(k)
<1>0. /\ CallOK /\ CountersOK /\ IdleIsEmpty /\ CountersOK'
      /\ handling \in [Workers -> SUBSET Deliveries]
      /\ queued \in [Workers -> SUBSET Deliveries]
      /\ \A w \in Workers : queued[w] \cap handling[w] = {}
  BY ShownStep, MemoryTypes DEF Shown
<1>1. ASSUME NEW batch \in SUBSET Deliveries, Publish(batch)
      PROVE  LateSpent(s)' <= LateSpent(s)
  <2>1. UNCHANGED <<accepted, call, queued, handling>>
    BY <1>1, EnqueueEffect DEF Publish
  <2> QED BY <1>0, <2>1, LateKept DEF LateTokens
<1>2. ASSUME NEW w \in Workers, NEW d \in Deliveries, Own(w, d)
      PROVE  \/ LateSpent(s)' <= LateSpent(s)
             \/ /\ OneMoreFault /\ LateSpent(s)' <= LateSpent(s) + 1
                /\ \A k \in Deliveries \ {s} : Spent(k)' <= Spent(k)
  <2>1. /\ UNCHANGED <<queued, handling, jobStatus, lockedBy, expired, jobFaults>>
        /\ d \in handling[w]
    BY <1>2, OwnEffect DEF jobVars
  <2>2. PICK stage \in Stage :
           /\ \A v \in Workers, j \in Deliveries :
                IF v = w /\ j = d THEN call'[v][j].stage = stage
                                  ELSE call'[v][j] = call[v][j]
           /\ \/ /\ accepted' = accepted /\ callFaults' = callFaults
                 /\ stage \in Late => call[w][d].stage \in Late \/ Waiting(d)
              \/ /\ accepted' = [accepted EXCEPT ![d] = @ + 1] /\ callFaults' = callFaults
                 /\ call[w][d].stage = "send" /\ stage = "sent"
              \/ accepted' = accepted /\ callFaults' = callFaults + 1
              \/ /\ accepted' = [accepted EXCEPT ![d] = @ + 1]
                 /\ callFaults' = callFaults + 1 /\ call[w][d].stage = "send"
    BY <1>2, OwnBudget
  <2>3. CASE d # s
    <3>1. LateTokens(s)' \subseteq LateTokens(s)
      BY <2>1, <2>2, <2>3 DEF LateTokens
    <3>2. accepted'[s] = accepted[s]
      BY <1>0, <2>2, <2>3 DEF CountersOK
    <3> QED BY <1>0, <3>1, <3>2, LateKept
  <2>4. CASE d = s /\ callFaults' = callFaults
    <3>1. ~(callFaults' = callFaults + 1)
      BY <1>0, <2>4, NotificationAssumption DEF CountersOK
    <3>2. CASE accepted' = accepted /\ (stage \in Late => call[w][d].stage \in Late)
      <4>1. LateTokens(s)' \subseteq LateTokens(s)
        BY <2>1, <2>2, <2>4, <3>2 DEF LateTokens
      <4> QED BY <1>0, <3>2, <4>1, LateKept
    <3>3. CASE /\ accepted' = [accepted EXCEPT ![d] = @ + 1]
               /\ call[w][d].stage = "send" /\ stage = "sent"
      <4>1. w \in LateTokens(s) /\ LateTokens(s)' \subseteq LateTokens(s) \ {w}
        BY <2>1, <2>2, <2>4, <3>3 DEF LateTokens, Late, InTry, InCatch
      <4>2. accepted'[s] = accepted[s] + 1
        BY <1>0, <2>4, <3>3 DEF CountersOK
      <4> QED BY <1>0, <4>1, <4>2, LateKept
    <3> QED BY <2>2, <2>4, <3>1, <3>2, <3>3
  <2>5. CASE d = s /\ callFaults' = callFaults + 1
    <3>1. OneMoreFault
      BY <2>1, <2>5 DEF OneMoreFault
    <3>2. LateSpent(s)' <= LateSpent(s) + 1
      <4>1. CASE accepted' = accepted
        <5>1. LateTokens(s)' \subseteq LateTokens(s) \cup {w}
          BY <2>1, <2>2, <2>5 DEF LateTokens
        <5> QED BY <1>0, <4>1, <5>1, LateMore
      <4>2. CASE /\ accepted' = [accepted EXCEPT ![d] = @ + 1]
                 /\ call[w][d].stage = "send"
        <5>1. LateTokens(s)' \subseteq LateTokens(s)
          BY <2>1, <2>2, <2>5, <4>2 DEF LateTokens, Late
        <5>2. accepted'[s] = accepted[s] + 1
          BY <1>0, <2>5, <4>2 DEF CountersOK
        <5> QED BY <1>0, <5>1, <5>2, LateMore
      <4>3. ~(callFaults' = callFaults)
        BY <1>0, <2>5, NotificationAssumption DEF CountersOK
      <4> QED BY <2>2, <4>1, <4>2, <4>3
    <3>3. ASSUME NEW k \in Deliveries \ {s} PROVE Spent(k)' <= Spent(k)
      <4>1. Tokens(k)' \subseteq Tokens(k)
        BY <2>1, <2>2, <2>5, <3>3 DEF Tokens
      <4>2. Claims(k)' = Claims(k)
        BY <2>1, <3>3, ClaimsKept
      <4>3. accepted'[k] = accepted[k]
        BY <1>0, <2>2, <2>5, <3>3 DEF CountersOK
      <4>4. Claims(k)' <= Claims(k)
        BY <4>2 DEF Claims
      <4> QED BY <1>0, <4>1, <4>3, <4>4, SpentKept
    <3> QED BY <3>1, <3>2, <3>3
  <2> QED BY <2>2, <2>3, <2>4, <2>5
<1>3. ASSUME NEW w \in Workers, NEW d \in Deliveries, EnqueueFallback(w, d)
      PROVE  LateSpent(s)' <= LateSpent(s)
  <2>1. /\ UNCHANGED accepted /\ GoTo(w, d, "returned") /\ "returned" \in Stage
        /\ Queue!Enqueue({Fallback[d]}) \/ UNCHANGED jobVars
    BY <1>3 DEF EnqueueFallback, Stage
  <2>2. handling' = handling
    BY <2>1 DEF Queue!Enqueue, Queue!memory, jobVars
  <2>3. \A v \in Workers, j \in Deliveries :
          call'[v][j] = call[v][j] \/ call'[v][j].stage = "returned"
    BY <1>0, <2>1, GoToEffect, MoveEffect
  <2>4. LateTokens(s)' \subseteq LateTokens(s)
    BY <2>2, <2>3 DEF LateTokens, Late, InTry, InCatch
  <2> QED BY <1>0, <2>1, <2>4, LateKept
<1>4. ASSUME NEW w \in Workers, NEW d \in Deliveries,
             Ends(w, d) \/ SettlementThrows(w, d) \/ Crash(w)
      PROVE  LateSpent(s)' <= LateSpent(s)
  <2>1. /\ accepted' = accepted
        /\ \A v \in Workers, j \in Deliveries :
             j \in handling'[v] => j \in handling[v] /\ call'[v][j] = call[v][j]
    <3>1. CASE Ends(w, d)
      BY <1>0, <3>1, EndsEffect
    <3>2. CASE SettlementThrows(w, d)
      BY <1>0, <3>2, SettlementThrowsEffect DEF SettlementThrows, Forget, Quiet, CallOK
    <3>3. CASE Crash(w)
      BY <1>0, <3>3, CrashEffect DEF Crash, Quiet, CallOK
    <3> QED BY <1>4, <3>1, <3>2, <3>3
  <2>2. LateTokens(s)' \subseteq LateTokens(s)
    BY <2>1 DEF LateTokens
  <2> QED BY <1>0, <2>1, <2>2, LateKept
<1>5. ASSUME \/ \E w \in Workers, batch \in SUBSET Deliveries : Queue!Claim(w, batch)
             \/ \E w \in Workers, d \in Deliveries : Queue!StartHandler(w, d)
             \/ \E d \in Deliveries : Queue!LockExpires(d) \/ Queue!Discard(d),
             UNCHANGED deliveryVars
      PROVE  LateSpent(s)' <= LateSpent(s)
  <2>1. accepted' = accepted /\ call' = call
    BY <1>5 DEF deliveryVars
  <2>2. \A v \in Workers : s \in handling'[v] => s \in handling[v] \/ call[v][s] = NoCall
    <3>1. \A v \in Workers : s \in handling'[v] =>
            \/ s \in handling[v]
            \/ s \in queued[v]
      <4>1. \/ handling' = handling
            \/ \E w \in Workers, d \in Deliveries :
                 /\ d \in queued[w]
                 /\ handling' = [handling EXCEPT ![w] = @ \cup {d}]
        BY <1>5 DEF Queue!Claim, Queue!StartHandler, Queue!LockExpires, Queue!Discard,
                    Queue!memory
      <4> QED BY <1>0, <4>1
    <3> QED BY <1>0, <3>1 DEF IdleIsEmpty
  <2>3. LateTokens(s)' \subseteq LateTokens(s)
    BY <2>1, <2>2 DEF LateTokens, Late, NoCall, InTry, InCatch
  <2> QED BY <1>0, <2>1, <2>3, LateKept
<1>6. CASE UNCHANGED vars
  <2>1. UNCHANGED <<accepted, call, handling>>
    BY <1>6 DEF vars, deliveryVars, jobVars
  <2> QED BY <1>0, <2>1, LateKept DEF LateTokens
<1>7. ASSUME NEW w \in Workers, Crash(w) PROVE LateSpent(s)' <= LateSpent(s)
  BY <1>4, <1>7
<1> QED BY <1>1, <1>2, <1>3, <1>4, <1>5, <1>6, <1>7, NextSteps

-----------------------------------------------------------------------------
LEMMA NotYetStep ==
  ASSUME Shown, QueueFacts!Inv, [Next]_vars, NEW k \in Deliveries, NotYet(k)
  PROVE  NotYet(k)'
<1>0. /\ CallOK /\ CountersOK
      /\ handling \in [Workers -> SUBSET Deliveries]
      /\ queued \in [Workers -> SUBSET Deliveries]
      /\ jobStatus \in [Deliveries -> QueueFacts!Status]
  BY MemoryTypes DEF Shown
<1>q. ASSUME accepted' = accepted, jobStatus'[k] = "ABSENT" => jobStatus[k] = "ABSENT",
             \A w \in Workers : k \in queued'[w] \cup handling'[w] =>
                                  k \in queued[w] \cup handling[w]
      PROVE  NotYet(k)'
  BY <1>q DEF NotYet
<1>1. ASSUME NEW batch \in SUBSET Deliveries, Publish(batch) PROVE NotYet(k)'
  BY <1>1, <1>q, EnqueueEffect DEF Publish
<1>2. ASSUME NEW w \in Workers, NEW d \in Deliveries, Own(w, d) PROVE NotYet(k)'
  <2>1. UNCHANGED <<queued, handling, jobStatus>> /\ d \in handling[w]
    BY <1>2, OwnEffect DEF jobVars
  <2>2. accepted' = accepted \/ accepted' = [accepted EXCEPT ![d] = @ + 1]
    BY <1>2, OwnBudget
  <2>3. jobStatus[k] = "ABSENT" => accepted'[k] = accepted[k]
    BY <1>0, <2>1, <2>2 DEF NotYet, CountersOK
  <2> QED BY <2>1, <2>3 DEF NotYet
<1>3. ASSUME NEW w \in Workers, NEW d \in Deliveries, EnqueueFallback(w, d) PROVE NotYet(k)'
  BY <1>3, <1>q, EnqueueEffect DEF EnqueueFallback, jobVars
<1>4. ASSUME NEW w \in Workers, NEW d \in Deliveries, Ends(w, d) PROVE NotYet(k)'
  <2>1. /\ handling' = [handling EXCEPT ![w] = @ \ {d}]
        /\ UNCHANGED <<queued, accepted>>
        /\ k # d => jobStatus'[k] = jobStatus[k]
        /\ jobStatus'[d] # "ABSENT"
    BY <1>4, EndsEffect
  <2> QED BY <1>0, <1>q, <2>1
<1>5. ASSUME NEW w \in Workers, NEW d \in Deliveries, SettlementThrows(w, d) \/ Crash(w)
      PROVE  NotYet(k)'
  BY <1>0, <1>5, <1>q, SettlementThrowsEffect, CrashEffect DEF SettlementThrows, Crash, Quiet
<1>6. ASSUME NEW w \in Workers, NEW batch \in SUBSET Deliveries, Queue!Claim(w, batch),
             UNCHANGED deliveryVars
      PROVE  NotYet(k)'
  <2>1. /\ handling' = handling
        /\ queued'[w] = batch /\ \A v \in Workers \ {w} : queued'[v] = queued[v]
        /\ k \in batch => jobStatus'[k] = "RUNNING"
        /\ k \notin batch => jobStatus'[k] = jobStatus[k]
    BY <1>6, ClaimEffect
  <2>2. accepted' = accepted
    BY <1>6 DEF deliveryVars
  <2> QED BY <2>1, <2>2 DEF NotYet
<1>7. ASSUME \/ \E w \in Workers, d \in Deliveries : Queue!StartHandler(w, d)
             \/ \E d \in Deliveries : Queue!LockExpires(d) \/ Queue!Discard(d),
             UNCHANGED deliveryVars
      PROVE  NotYet(k)'
  BY <1>0, <1>7, <1>q DEF Queue!StartHandler, Queue!LockExpires, Queue!Discard,
                        Queue!memory, Queue!row, deliveryVars
<1>8. CASE UNCHANGED vars
  BY <1>8, <1>q DEF vars, deliveryVars, jobVars
<1>9. ASSUME NEW w \in Workers, Crash(w) PROVE NotYet(k)'
  BY <1>5, <1>9
<1> QED BY <1>1, <1>2, <1>3, <1>4, <1>5, <1>6, <1>7, <1>8, <1>9, NextSteps

-----------------------------------------------------------------------------
LEMMA SpentNow ==
  ASSUME CountersOK, NEW d \in Deliveries
  PROVE  /\ accepted[d] \in Nat /\ Spent(d) \in Nat /\ LateSpent(d) \in Nat
         /\ accepted[d] <= Spent(d) /\ accepted[d] <= LateSpent(d)
<1>1. /\ accepted[d] \in Nat /\ Claims(d) \in Nat
      /\ Cardinality(Tokens(d)) \in Nat /\ Cardinality(LateTokens(d)) \in Nat
  BY Counted, TokensFinite, FS_CardinalityType DEF Claims
<1>2. /\ accepted[d] + Cardinality(Tokens(d)) + Claims(d) \in Nat
      /\ accepted[d] + Cardinality(LateTokens(d)) \in Nat
      /\ accepted[d] <= accepted[d] + Cardinality(Tokens(d)) + Claims(d)
      /\ accepted[d] <= accepted[d] + Cardinality(LateTokens(d))
  BY <1>1
<1> QED BY <1>1, <1>2 DEF Spent, LateSpent

LEMMA SpentNat ==
  ASSUME CountersOK, CountersOK', NEW d \in Deliveries
  PROVE  /\ Spent(d) \in Nat /\ Spent(d)' \in Nat
         /\ LateSpent(d) \in Nat /\ LateSpent(d)' \in Nat
<1>1. /\ accepted'[d] \in Nat /\ Claims(d)' \in Nat
      /\ Cardinality(Tokens(d)') \in Nat /\ Cardinality(LateTokens(d)') \in Nat
  BY CountedPrimed, TokensFinite, FS_CardinalityType DEF Claims
<1>2. /\ accepted'[d] + Cardinality(Tokens(d)') + Claims(d)' \in Nat
      /\ accepted'[d] + Cardinality(LateTokens(d)') \in Nat
  BY <1>1
<1> QED BY <1>2, SpentNow DEF Spent, LateSpent

LEMMA FaultSums ==
  ASSUME NEW a \in Nat, NEW b \in Nat
  PROVE  /\ a + b \in Nat
         /\ a + 1 + b = a + b + 1
         /\ a + (b + 1) = a + b + 1
OBVIOUS

LEMMA FaultsNat ==
  ASSUME QueueFacts!Inv, QueueFacts!Inv', CountersOK, CountersOK'
  PROVE  /\ Faults \in Nat /\ Faults' \in Nat
         /\ SameFaults => Faults' = Faults
         /\ OneMoreFault => Faults' = Faults + 1
<1>1. /\ jobFaults \in Nat /\ jobFaults' \in Nat /\ callFaults \in Nat /\ callFaults' \in Nat
  BY SameAssumptions, NotificationAssumption
     DEF QueueFacts!Inv, QueueFacts!TypeOK, QueueFacts!BoundAssumption, CountersOK
<1>2. /\ jobFaults + callFaults \in Nat
      /\ jobFaults' + callFaults' \in Nat
  BY <1>1, FaultSums
<1>3. ASSUME SameFaults PROVE jobFaults' + callFaults' = jobFaults + callFaults
  BY <1>3 DEF SameFaults
<1>4. ASSUME OneMoreFault PROVE jobFaults' + callFaults' = jobFaults + callFaults + 1
  <2>1. CASE jobFaults' = jobFaults + 1 /\ callFaults' = callFaults
    BY <1>1, <2>1, FaultSums
  <2>2. CASE jobFaults' = jobFaults /\ callFaults' = callFaults + 1
    BY <1>1, <2>2, FaultSums
  <2> QED BY <1>4, <2>1, <2>2 DEF OneMoreFault
<1> QED BY <1>2, <1>3, <1>4 DEF Faults

LEMMA BudgetStep ==
  ASSUME Shown, QueueFacts!Inv, QueueFacts!Inv', [Next]_vars, NEW d \in Deliveries, Budget(d)
  PROVE  Budget(d)'
<1>1. CountersOK /\ CountersOK'
  BY ShownStep DEF Shown
<1>2. \/ SameFaults /\ Spent(d)' <= Spent(d)
      \/ OneMoreFault /\ Spent(d)' <= Spent(d) + 1
  BY SpentStep
<1>3. /\ Spent(d) \in Nat /\ Spent(d)' \in Nat /\ Faults \in Nat /\ Faults' \in Nat
      /\ SameFaults => Faults' = Faults
      /\ OneMoreFault => Faults' = Faults + 1
  BY <1>1, SpentNat, FaultsNat
<1>4. Spent(d) <= 1 + Faults
  BY DEF Budget
<1>5. Spent(d)' <= 1 + Faults'
  BY <1>2, <1>3, <1>4
<1> QED BY <1>5 DEF Budget


(* A Slack delivery that has ended gives up a token for its fallback.      *)
LEMMA HandedOver ==
  ASSUME Shown, QueueFacts!Inv, QueueFacts!Inv', CountersOK', NEW s \in Deliveries,
         NEW e \in Deliveries, e = Fallback[s], s # e, Budget(s), NotYet(e),
         NEW w \in Workers, EnqueueFallback(w, s),
         jobStatus[e] = "ABSENT", jobStatus'[e] # "ABSENT"
  PROVE  LateSpent(s)' + Spent(e)' <= 1 + Faults'
<1>0. CallOK /\ CountersOK
  BY DEF Shown
<1>1. /\ accepted' = accepted /\ callFaults' = callFaults
      /\ s \in handling[w] /\ call[w][s].stage \in {"enqueue", "lastEnqueue"}
      /\ GoTo(w, s, "returned") /\ "returned" \in Stage
      /\ Queue!Enqueue({e}) \/ UNCHANGED jobVars
  BY DEF EnqueueFallback, At, Stage
<1>2. /\ UNCHANGED <<queued, handling, jobFaults>>
      /\ jobStatus'[e] = "PENDING"
  BY <1>1, EnqueueEffect DEF jobVars
<1>3. \A v \in Workers, k \in Deliveries :
        IF v = w /\ k = s THEN call'[v][k].stage = "returned" ELSE call'[v][k] = call[v][k]
  BY <1>0, <1>1, GoToEffect, MoveEffect
<1>4. w \in Tokens(s) /\ LateTokens(s)' \subseteq Tokens(s) \ {w}
  BY <1>1, <1>2, <1>3 DEF Tokens, LateTokens, Late, Over, InTry, InCatch
<1>5. /\ Cardinality(LateTokens(s)') \in Nat /\ Cardinality(Tokens(s)) \in Nat
      /\ Cardinality(LateTokens(s)') <= Cardinality(Tokens(s)) - 1
  BY <1>4, TokensFinite, SetStep
<1>6. Tokens(e)' = {}
  BY <1>2 DEF NotYet, Tokens
<1>7. Cardinality(Tokens(e)') = 0 /\ Claims(e)' = 1 /\ accepted'[e] = 0
  BY <1>1, <1>2, <1>6, FS_EmptySet DEF Claims, NotYet
<1>8. Spent(e)' = 1
  BY <1>7 DEF Spent
<1>9. accepted[s] \in Nat /\ Claims(s) \in Nat /\ Faults \in Nat /\ Faults' = Faults
  BY <1>0, <1>1, <1>2, Counted, FaultsNat DEF Claims, SameFaults
<1>10. accepted[s] + Cardinality(Tokens(s)) + Claims(s) <= 1 + Faults
  BY DEF Budget, Spent
<1>11. accepted[s] + Cardinality(LateTokens(s)') + 1 <= 1 + Faults'
  BY <1>5, <1>9, <1>10
<1>12. LateSpent(s)' = accepted[s] + Cardinality(LateTokens(s)')
  BY <1>1 DEF LateSpent
<1> QED BY <1>8, <1>11, <1>12

(* A job that nobody has asked for is made for a fallback, by the handler  *)
(* of the one delivery it replaces.                                        *)
LEMMA OnlyFallback ==
  ASSUME Shown, QueueFacts!Inv, [Next]_vars, NEW s \in Deliveries, NEW e \in Deliveries,
         e = Fallback[s], e # None, e \notin asked', NotYet(e),
         jobStatus[e] = "ABSENT", jobStatus'[e] # "ABSENT"
  PROVE  \E w \in Workers : EnqueueFallback(w, s)
<1>0. /\ handling \in [Workers -> SUBSET Deliveries]
      /\ jobStatus \in [Deliveries -> QueueFacts!Status]
  BY MemoryTypes
<1>1. ASSUME NEW batch \in SUBSET Deliveries, Publish(batch) PROVE FALSE
  BY <1>1, EnqueueEffect DEF Publish
<1>2. ASSUME NEW w \in Workers, NEW d \in Deliveries, Own(w, d) PROVE FALSE
  BY <1>2, OwnEffect DEF jobVars
<1>3. ASSUME NEW w \in Workers, NEW d \in Deliveries, EnqueueFallback(w, d) PROVE d = s
  <2>1. e \in {Fallback[d]}
    BY <1>3, EnqueueEffect DEF EnqueueFallback, jobVars
  <2> QED BY <2>1, NotificationAssumption
<1>4. ASSUME NEW w \in Workers, NEW d \in Deliveries, Ends(w, d) PROVE FALSE
  BY <1>4, EndsEffect DEF NotYet
<1>5. ASSUME NEW w \in Workers,
             Crash(w) \/ \E d \in Deliveries : SettlementThrows(w, d)
      PROVE  FALSE
  BY <1>5, CrashEffect, SettlementThrowsEffect DEF Crash, SettlementThrows
<1>6. ASSUME NEW w \in Workers, NEW batch \in SUBSET Deliveries, Queue!Claim(w, batch)
      PROVE  FALSE
  <2>1. ASSUME NEW k \in Deliveries
        PROVE  /\ k \in batch => jobStatus[k] = "PENDING" \/ jobStatus[k] = "RUNNING"
               /\ k \notin batch => jobStatus'[k] = jobStatus[k]
    BY <1>6, ClaimEffect
  <2> QED BY <2>1
<1>7. ASSUME NEW d \in Deliveries,
             \/ \E w \in Workers : Queue!StartHandler(w, d)
             \/ Queue!LockExpires(d) \/ Queue!Discard(d)
      PROVE  FALSE
  BY <1>0, <1>7 DEF Queue!StartHandler, Queue!LockExpires, Queue!Discard, Queue!row
<1>8. CASE UNCHANGED vars
  BY <1>8 DEF vars, jobVars
<1> QED BY <1>1, <1>2, <1>3, <1>4, <1>5, <1>6, <1>7, <1>8, NextSteps

LEMMA AskedGrows ==
  ASSUME Shown, QueueFacts!Inv, [Next]_vars
  PROVE  asked \subseteq asked'
<1>1. ASSUME NEW batch \in SUBSET Deliveries, Publish(batch) PROVE asked \subseteq asked'
  BY <1>1 DEF Publish
<1>2. ASSUME NEW w \in Workers, NEW d \in Deliveries,
             \/ Own(w, d) \/ EnqueueFallback(w, d) \/ Ends(w, d) \/ SettlementThrows(w, d)
      PROVE  asked' = asked
  <2>1. CASE Own(w, d)
    BY <2>1, OwnEffect
  <2>2. CASE EnqueueFallback(w, d)
    BY <2>2 DEF EnqueueFallback
  <2>3. CASE Ends(w, d)
    BY <2>3, EndsEffect
  <2>4. CASE SettlementThrows(w, d)
    BY <2>4 DEF SettlementThrows, Quiet
  <2> QED BY <1>2, <2>1, <2>2, <2>3, <2>4
<1>3. ASSUME NEW w \in Workers, Crash(w) PROVE asked' = asked
  BY <1>3 DEF Crash, Quiet
<1>4. CASE UNCHANGED deliveryVars
  BY <1>4 DEF deliveryVars
<1>5. CASE UNCHANGED vars
  BY <1>5 DEF vars, deliveryVars
<1> QED BY <1>1, <1>2, <1>3, <1>4, <1>5, NextSteps

LEMMA ChainedStep ==
  ASSUME Shown, QueueFacts!Inv, QueueFacts!Inv', [Next]_vars, NEW s \in Deliveries,
         Budget(s), \A d \in Deliveries : NotYet(d), Chained(s)
  PROVE  Chained(s)'
<1> DEFINE e == Fallback[s]
<1> SUFFICES ASSUME e # None, e \notin asked', jobStatus'[e] # "ABSENT"
             PROVE  ~ Waiting(s)' /\ LateSpent(s)' + Spent(e)' <= 1 + Faults'
  BY DEF Chained
<1>0. /\ CountersOK /\ CountersOK' /\ Grows /\ CallFits /\ FallbackIsThere
      /\ e \in Deliveries /\ Channel[s] = "SLACK" /\ s # e
  BY ShownStep, NotificationAssumption DEF Shown
<1>1. asked \subseteq asked'
  BY AskedGrows
<1>2. CASE jobStatus[e] # "ABSENT"
  <2>1. ~ Waiting(s) /\ LateSpent(s) + Spent(e) <= 1 + Faults
    BY <1>1, <1>2 DEF Chained
  <2>2. ~ Waiting(s)'
    BY <1>0, <2>1 DEF Grows
  <2>3. /\ LateSpent(s) \in Nat /\ LateSpent(s)' \in Nat /\ Spent(e) \in Nat /\ Spent(e)' \in Nat
        /\ Faults \in Nat /\ Faults' \in Nat
        /\ SameFaults => Faults' = Faults
        /\ OneMoreFault => Faults' = Faults + 1
    BY <1>0, SpentNat, FaultsNat
  <2>4. \/ SameFaults /\ Spent(e)' <= Spent(e)
        \/ OneMoreFault /\ Spent(e)' <= Spent(e) + 1
    BY <1>0, SpentStep
  <2>5. \/ LateSpent(s)' <= LateSpent(s)
        \/ /\ OneMoreFault /\ LateSpent(s)' <= LateSpent(s) + 1
           /\ Spent(e)' <= Spent(e)
    BY <1>0, <2>1, LateStep
  <2> HIDE DEF e
  <2>6. LateSpent(s)' + Spent(e)' <= 1 + Faults'
    BY <2>1, <2>3, <2>4, <2>5
  <2> QED BY <2>2, <2>6
<1>3. CASE jobStatus[e] = "ABSENT"
  <2>1. PICK w \in Workers : EnqueueFallback(w, s)
    BY <1>0, <1>3, OnlyFallback
  <2>2. call[w][s].stage \in {"enqueue", "lastEnqueue"} /\ Fits(call[w][s], s)
    BY <1>0, <2>1 DEF EnqueueFallback, At, CallFits
  <2>3. ~ Waiting(s)
    BY <2>2 DEF Fits, InTry, InCatch
  <2>4. ~ Waiting(s)'
    BY <1>0, <2>3 DEF Grows
  <2>5. LateSpent(s)' + Spent(e)' <= 1 + Faults'
    BY <1>0, <1>3, <2>1, HandedOver
  <2> QED BY <2>4, <2>5
<1> QED BY <1>2, <1>3

-----------------------------------------------------------------------------
LEMMA InitShown ==
  Init => Shown /\ \A d \in Deliveries : Budget(d) /\ NotYet(d) /\ Chained(d)
<1> SUFFICES ASSUME Init
             PROVE  Shown /\ \A d \in Deliveries : Budget(d) /\ NotYet(d) /\ Chained(d)
  OBVIOUS
<1>1. \A w \in Workers, d \in Deliveries : call[w][d] = NoCall
  BY DEF Init
<1>2. CallOK /\ FallbackIsThere /\ IdleIsEmpty
  BY <1>1, NoCallOK DEF Init, CallOK, FallbackIsThere, IdleIsEmpty
<1>3. CountersOK
  BY NotificationAssumption DEF Init, CountersOK, Status
<1>4. CallFits
  BY <1>1, NoCallOK DEF CallFits, Fits, InTry, InCatch
<1>5. RecordedFits /\ StatusIsEarned
  BY DEF Init, RecordedFits, Tries, StatusIsEarned
<1>6. ASSUME NEW d \in Deliveries PROVE Budget(d) /\ NotYet(d) /\ Chained(d)
  <2>1. /\ accepted[d] = 0 /\ jobFaults = 0 /\ callFaults = 0
        /\ jobStatus = [k \in Deliveries |-> "ABSENT"]
        /\ \A w \in Workers : queued[w] = {} /\ handling[w] = {}
    BY DEF Init, Queue!Init
  <2>2. Tokens(d) = {} /\ Claims(d) = 1
    BY <2>1 DEF Tokens, Claims
  <2>3. Budget(d)
    BY <2>1, <2>2, FS_EmptySet DEF Budget, Spent, Faults
  <2>4. Fallback[d] # None => Fallback[d] \in Deliveries
    BY NotificationAssumption
  <2> QED BY <2>1, <2>3, <2>4 DEF NotYet, Chained
<1> QED BY <1>2, <1>3, <1>4, <1>5, <1>6 DEF Shown

NotificationInv ==
  Shown /\ \A d \in Deliveries : Budget(d) /\ NotYet(d) /\ Chained(d)

(* The inductive invariant, beside the one of the queue.                   *)
THEOREM Invariance == Spec => []NotificationInv
<1>1. Init => NotificationInv
  BY InitShown DEF NotificationInv
<1>2. NotificationInv /\ QueueFacts!Inv /\ QueueFacts!Inv' /\ [Next]_vars => NotificationInv'
  <2> SUFFICES ASSUME NotificationInv, QueueFacts!Inv, QueueFacts!Inv', [Next]_vars
               PROVE  NotificationInv'
    OBVIOUS
  <2>1. Shown /\ \A d \in Deliveries : Budget(d) /\ NotYet(d) /\ Chained(d)
    BY DEF NotificationInv
  <2>2. Shown'
    BY <2>1, ShownStep
  <2>3. ASSUME NEW d \in Deliveries PROVE Budget(d)' /\ NotYet(d)' /\ Chained(d)'
    BY <2>1, BudgetStep, NotYetStep, ChainedStep
  <2> QED BY <2>2, <2>3 DEF NotificationInv
<1> QED BY <1>1, <1>2, QueueInvariant, PTL DEF Spec

(* Every column of the table, and what each handler holds, has its type.   *)
THEOREM TypeCorrect == Spec => []TypeOK
<1>1. NotificationInv /\ QueueFacts!Inv => TypeOK
  BY DEF NotificationInv, Shown, CallOK, CountersOK, TypeOK, QueueFacts!Inv,
         QueueFacts!TypeOK, Queue!TypeOK, QueueFacts!Status, Queue!Status
<1> QED BY <1>1, Invariance, QueueInvariant, PTL

(* What deliverNotificationDelivery shows of a delivery was earned: SENT   *)
(* by an accepted message, FAILED of an e-mail by all its attempts.        *)
THEOREM StatusEarned == Spec => []StatusIsEarned
<1>1. NotificationInv => StatusIsEarned
  BY DEF NotificationInv, Shown
<1> QED BY <1>1, Invariance, PTL

(* A recipient is told twice, by one channel or by the e-mail that         *)
(* createEmailFallbackDelivery puts in the place of a Slack message, only  *)
(* after as many faults.                                                   *)
THEOREM MessagesBounded == Spec => []MessagesHaveAFault
<1>1. NotificationInv /\ QueueFacts!Inv => MessagesHaveAFault
  <2> SUFFICES ASSUME NotificationInv, QueueFacts!Inv, NEW d \in Deliveries
               PROVE  /\ accepted[d] <= 1 + jobFaults + callFaults
                      /\ Fallback[d] # None /\ Fallback[d] \notin asked =>
                           accepted[d] + accepted[Fallback[d]] <= 1 + jobFaults + callFaults
    BY DEF MessagesHaveAFault
  <2>0. Shown /\ CountersOK /\ Budget(d) /\ Chained(d) /\ \A k \in Deliveries : NotYet(k)
    BY DEF NotificationInv, Shown
  <2>1. jobFaults \in Nat /\ callFaults \in Nat
    BY <2>0, MemoryTypes, Counted
  <2>2. Faults = jobFaults + callFaults /\ 1 + Faults = 1 + jobFaults + callFaults /\ Faults \in Nat
    BY <2>1 DEF Faults
  <2>3. ASSUME NEW k \in Deliveries
        PROVE  /\ accepted[k] \in Nat /\ Spent(k) \in Nat /\ LateSpent(k) \in Nat
               /\ accepted[k] <= Spent(k) /\ accepted[k] <= LateSpent(k)
    BY <2>0, SpentNow
  <2>4. accepted[d] <= 1 + Faults
    BY <2>0, <2>2, <2>3 DEF Budget
  <2>5. ASSUME Fallback[d] # None, Fallback[d] \notin asked
        PROVE  accepted[d] + accepted[Fallback[d]] <= 1 + Faults
    <3>1. Fallback[d] \in Deliveries
      BY <2>5, NotificationAssumption
    <3>2. CASE jobStatus[Fallback[d]] = "ABSENT"
      BY <2>0, <2>3, <2>4, <3>1, <3>2 DEF NotYet
    <3>3. CASE jobStatus[Fallback[d]] # "ABSENT"
      <4>1. LateSpent(d) + Spent(Fallback[d]) <= 1 + Faults
        BY <2>0, <2>5, <3>3 DEF Chained
      <4> QED BY <2>2, <2>3, <3>1, <4>1
    <3> QED BY <3>2, <3>3
  <2> QED BY <2>2, <2>4, <2>5
<1> QED BY <1>1, Invariance, QueueInvariant, PTL

-----------------------------------------------------------------------------
(* As long as nothing fails but the providers, a job that runs is in the   *)
(* hand of the worker that its row names,                                  *)
InHand(w, d) == d \in queued[w] \cup handling[w]
Ended(d) == status[d] \in {"SENT", "SKIPPED", "FAILED"}

HolderFits ==
  /\ \A w \in Workers, d \in Deliveries : InHand(w, d) =>
       /\ jobStatus[d] = "RUNNING" /\ lockedBy[d] = w
       /\ jobSeen[w][d].attempts = jobAttempts[d]
  /\ \A d \in Deliveries : jobStatus[d] = "RUNNING" =>
       ~ expired[d] /\ \E w \in Workers : lockedBy[d] = w /\ InHand(w, d)

(* the handler is at a place that fits the delivery,                       *)
HandFits(c, d) ==
  /\ c.stage \in {"begin", "send", "sent", "error"} =>
       status[d] = "PENDING" /\ recorded[d] + 1 = jobAttempts[d]
  /\ c.stage \in {"send", "sent", "error"} => c.attempts = recorded[d]
  /\ c.stage = "threw" =>
       /\ status[d] = "PENDING" /\ recorded[d] = jobAttempts[d]
       /\ recorded[d] < MaxDeliveryAttempts
  /\ c.stage \in InTry => status[d] = "SKIPPED"
  /\ c.stage \in InCatch \cup {"returned"} => Ended(d)
  /\ c.stage \in {"enqueue", "lastEnqueue"} => status[Fallback[d]] # "ABSENT"
HandsFit == \A w \in Workers, d \in Deliveries : InHand(w, d) => HandFits(call[w][d], d)

(* a job that does not run fits it as well, where a row without a job      *)
(* awaits the handler of a Slack delivery,                                 *)
Awaited(d) ==
  \E w \in Workers, s \in Deliveries :
    Fallback[s] = d /\ At(w, s, {"enqueue", "lastEnqueue"})
RowFits(d) ==
  /\ jobStatus[d] = "ABSENT" =>
       status[d] \in {"ABSENT", "PENDING"} /\ recorded[d] = 0 /\ jobAttempts[d] = 0
  /\ jobStatus[d] = "ABSENT" /\ status[d] = "PENDING" => Awaited(d)
  /\ jobStatus[d] = "PENDING" => status[d] = "PENDING" /\ recorded[d] = jobAttempts[d]
  /\ jobStatus[d] \in Queue!Terminal => Ended(d)
RestFits == \A d \in Deliveries : RowFits(d)

(* and a delivery that failed has left an e-mail, or is about to.          *)
Replaced(d) ==
  \/ jobStatus[Fallback[d]] # "ABSENT"
  \/ \E w \in Workers : At(w, d, InCatch)
FallbacksFit ==
  \A d \in Deliveries : status[d] = "FAILED" /\ Fallback[d] # None => Replaced(d)

Orderly == HolderFits /\ HandsFit /\ RestFits /\ FallbacksFit
Calm == jobFaults + callFaults = 0

(* The types that the steps below need.                                    *)
LEMMA TypesOfSteps ==
  ASSUME QueueFacts!Inv, Shown
  PROVE  /\ status \in [Deliveries -> Status] /\ recorded \in [Deliveries -> Nat]
         /\ call \in [Workers -> [Deliveries -> [stage : Stage, attempts : Nat]]]
         /\ handling \in [Workers -> SUBSET Deliveries]
         /\ queued \in [Workers -> SUBSET Deliveries]
         /\ jobStatus \in [Deliveries -> QueueFacts!Status]
         /\ jobAttempts \in [Deliveries -> Nat]
         /\ None \notin Deliveries
BY MemoryTypes, SameAssumptions
   DEF Shown, CallOK, CountersOK, QueueFacts!Inv, QueueFacts!TypeOK, QueueFacts!JobAssumption

(* A step that leaves the queue alone and moves one handler, and writes    *)
(* nothing but its own delivery.                                           *)
LEMMA HandMoves ==
  ASSUME QueueFacts!Inv, Shown, Orderly, UNCHANGED jobVars,
         NEW w \in Workers, NEW d \in Deliveries, d \in handling[w],
         call[w][d].stage \notin {"enqueue", "lastEnqueue"} \cup InCatch,
         NEW c \in [stage : Stage, attempts : Nat], call' = [call EXCEPT ![w][d] = c],
         \A k \in Deliveries \ {d} : status'[k] = status[k] /\ recorded'[k] = recorded[k],
         HandFits(c, d)', c.stage \notin {"enqueue", "lastEnqueue"},
         status'[d] = "FAILED" /\ Fallback[d] # None => c.stage \in InCatch
  PROVE  Orderly'
<1>q. /\ UNCHANGED <<jobStatus, jobAttempts, lockedBy, expired, queued, handling, jobSeen>>
      /\ HolderFits /\ HandsFit /\ RestFits /\ FallbacksFit
  BY DEF jobVars, Orderly
<1>t. /\ call \in [Workers -> [Deliveries -> [stage : Stage, attempts : Nat]]]
      /\ None \notin Deliveries
  BY TypesOfSteps
<1>c. \A v \in Workers, k \in Deliveries :
        call'[v][k] = IF v = w /\ k = d THEN c ELSE call[v][k]
  BY <1>t, MoveEffect DEF CallOK
<1>1. HolderFits'
  BY <1>q DEF HolderFits, InHand
<1>h. jobStatus[d] = "RUNNING" /\ \A v \in Workers : InHand(v, d) => v = w
  BY <1>q DEF HolderFits, InHand
<1>2. HandsFit'
  <2> SUFFICES ASSUME NEW v \in Workers, NEW k \in Deliveries, InHand(v, k)'
               PROVE  HandFits(call[v][k], k)'
    BY DEF HandsFit
  <2>0. InHand(v, k)
    BY <1>q DEF InHand
  <2>1. CASE k = d
    <3>1. v = w /\ call'[v][k] = c
      BY <1>h, <1>c, <2>0, <2>1
    <3> QED BY <2>1, <3>1
  <2>2. CASE k # d
    <3>1. /\ call'[v][k] = call[v][k] /\ HandFits(call[v][k], k)
          /\ status'[k] = status[k] /\ recorded'[k] = recorded[k] /\ jobAttempts' = jobAttempts
      BY <1>c, <1>q, <2>0, <2>2 DEF HandsFit
    <3>2. call[v][k].stage \in {"enqueue", "lastEnqueue"} =>
            Fallback[k] \in Deliveries /\ status'[Fallback[k]] # "ABSENT"
      <4> SUFFICES ASSUME call[v][k].stage \in {"enqueue", "lastEnqueue"}
                   PROVE  Fallback[k] \in Deliveries /\ status'[Fallback[k]] # "ABSENT"
        OBVIOUS
      <4>1. Fallback[k] \in Deliveries /\ status[Fallback[k]] # "ABSENT"
        BY <3>1, NotificationAssumption DEF Shown, FallbackIsThere, HandFits
      <4>2. status'[d] # "ABSENT"
        BY <1>h, <1>t DEF HandFits, Ended, Stage, InTry, InCatch
      <4> QED BY <4>1, <4>2
    <3> QED BY <3>1, <3>2 DEF HandFits, Ended
  <2> QED BY <2>1, <2>2
<1>3. RestFits'
  <2> SUFFICES ASSUME NEW k \in Deliveries, jobStatus'[k] # "RUNNING"
               PROVE  RowFits(k)'
    BY DEF RestFits, RowFits, Queue!Terminal
  <2>1. status'[k] = status[k] /\ recorded'[k] = recorded[k] /\ k # d
    BY <1>q, <1>h
  <2>2. Awaited(k) => Awaited(k)'
    BY <1>q, <1>c DEF Awaited, At
  <2> QED BY <1>q, <2>1, <2>2 DEF RestFits, RowFits, Ended
<1>4. FallbacksFit'
  <2> SUFFICES ASSUME NEW k \in Deliveries, status'[k] = "FAILED", Fallback[k] # None
               PROVE  Replaced(k)'
    BY DEF FallbacksFit
  <2>1. CASE k = d
    BY <1>q, <1>c, <2>1 DEF Replaced, At
  <2>2. CASE k # d
    <3>1. Replaced(k)
      BY <1>q, <2>2 DEF FallbacksFit
    <3> QED BY <1>q, <1>c, <2>2, <3>1 DEF Replaced, At
  <2> QED BY <2>1, <2>2
<1> QED BY <1>1, <1>2, <1>3, <1>4 DEF Orderly

(* FallBack makes the row of the e-mail.                                   *)
LEMMA FallBackOrderly ==
  ASSUME QueueFacts!Inv, Shown, Orderly,
         NEW w \in Workers, NEW d \in Deliveries, FallBack(w, d)
  PROVE  Orderly'
<1>0. /\ UNCHANGED <<jobStatus, jobAttempts, lockedBy, expired, queued, handling, jobSeen>>
      /\ HolderFits /\ HandsFit /\ RestFits /\ FallbacksFit /\ UNCHANGED recorded
  BY DEF jobVars, Orderly, FallBack
<1>t. /\ call \in [Workers -> [Deliveries -> [stage : Stage, attempts : Nat]]]
      /\ None \notin Deliveries /\ status \in [Deliveries -> Status] /\ CallOK
  BY TypesOfSteps DEF Shown
<1>h. /\ d \in handling[w] /\ call[w][d].stage \in {"fallback", "lastFallback"}
      /\ InHand(w, d) /\ HandFits(call[w][d], d)
      /\ jobStatus[d] = "RUNNING" /\ \A v \in Workers : InHand(v, d) => v = w
  BY <1>0 DEF FallBack, At, HolderFits, InHand, HandsFit
<1>u. \A k \in Deliveries :
        \/ status'[k] = status[k]
        \/ k = Fallback[d] /\ status[k] = "ABSENT" /\ status'[k] = "PENDING"
  BY <1>t DEF FallBack, Upsert
<1>f. Fallback[d] # None => Fallback[d] \in Deliveries /\ status'[Fallback[d]] # "ABSENT"
  BY <1>t, NotificationAssumption DEF FallBack, Upsert
<1>c. PICK c \in [stage : Stage, attempts : Nat] :
        /\ call' = [call EXCEPT ![w][d] = c]
        /\ c.stage = IF Fallback[d] = None THEN "returned"
                     ELSE IF call[w][d].stage \in InTry THEN "enqueue" ELSE "lastEnqueue"
  <2> DEFINE stage == IF Fallback[d] = None THEN "returned"
                      ELSE IF call[w][d].stage \in InTry THEN "enqueue" ELSE "lastEnqueue"
  <2>1. stage \in Stage /\ GoTo(w, d, stage)
    BY DEF FallBack, Stage, InTry, InCatch
  <2> HIDE DEF stage
  <2>2. \E x \in [stage : Stage, attempts : Nat] :
          call' = [call EXCEPT ![w][d] = x] /\ x.stage = stage
    BY <1>t, <2>1, GoToEffect
  <2> QED BY <2>2 DEF stage
<1>m. \A v \in Workers, k \in Deliveries :
        call'[v][k] = IF v = w /\ k = d THEN c ELSE call[v][k]
  BY <1>t, <1>c, MoveEffect
<1>1. HolderFits'
  BY <1>0 DEF HolderFits, InHand
<1>2. HandsFit'
  <2> SUFFICES ASSUME NEW v \in Workers, NEW k \in Deliveries, InHand(v, k)'
               PROVE  HandFits(call[v][k], k)'
    BY DEF HandsFit
  <2>0. InHand(v, k) /\ HandFits(call[v][k], k)
    BY <1>0 DEF InHand, HandsFit
  <2>1. CASE k = d
    <3>1. v = w /\ call'[v][k] = c
      BY <1>h, <1>m, <2>0, <2>1
    <3>2. Ended(d) /\ status'[d] = status[d]
          /\ (call[w][d].stage \in InTry => status[d] = "SKIPPED")
      BY <1>h, <1>u DEF HandFits, Ended, InTry, InCatch
    <3> QED BY <1>c, <1>f, <2>1, <3>1, <3>2 DEF HandFits, Ended, InTry, InCatch
  <2>2. CASE k # d
    <3>1. call'[v][k] = call[v][k]
      BY <1>m, <2>2
    <3>2. call[v][k].stage \in {"enqueue", "lastEnqueue"} =>
            Fallback[k] \in Deliveries /\ status'[Fallback[k]] # "ABSENT"
      <4> SUFFICES ASSUME call[v][k].stage \in {"enqueue", "lastEnqueue"}
                   PROVE  Fallback[k] \in Deliveries /\ status'[Fallback[k]] # "ABSENT"
        OBVIOUS
      <4>1. Fallback[k] \in Deliveries /\ status[Fallback[k]] # "ABSENT"
        BY <2>0, NotificationAssumption DEF Shown, FallbackIsThere, HandFits
      <4> QED BY <1>u, <4>1
    <3> QED BY <1>0, <1>u, <2>0, <3>1, <3>2 DEF HandFits, Ended
  <2> QED BY <2>1, <2>2
<1>3. RestFits'
  <2> SUFFICES ASSUME NEW k \in Deliveries, jobStatus'[k] # "RUNNING"
               PROVE  RowFits(k)'
    BY DEF RestFits, RowFits, Queue!Terminal
  <2>1. Awaited(k) => Awaited(k)'
    <3> SUFFICES ASSUME NEW v \in Workers, NEW s \in Deliveries,
                        Fallback[s] = k, At(v, s, {"enqueue", "lastEnqueue"})
                 PROVE  Awaited(k)'
      BY DEF Awaited
    <3>1. ~(v = w /\ s = d)
      BY <1>h DEF At
    <3> QED BY <1>0, <1>m, <3>1 DEF Awaited, At
  <2>2. CASE status'[k] = status[k]
    BY <1>0, <2>1, <2>2 DEF RestFits, RowFits, Ended
  <2>3. CASE k = Fallback[d] /\ status[k] = "ABSENT" /\ status'[k] = "PENDING"
    <3>1. jobStatus[k] = "ABSENT"
      BY <1>0, <2>3, TypesOfSteps DEF RestFits, RowFits, Ended, Queue!Terminal, QueueFacts!Status
    <3>2. c.stage \in {"enqueue", "lastEnqueue"}
      BY <1>c, <1>t, <2>3
    <3>3. Awaited(k)'
      BY <1>0, <1>h, <1>m, <2>3, <3>2 DEF Awaited, At
    <3> QED BY <1>0, <2>3, <3>1, <3>3 DEF RestFits, RowFits, Queue!Terminal
  <2> QED BY <1>u, <2>2, <2>3
<1>4. FallbacksFit'
  <2> SUFFICES ASSUME NEW k \in Deliveries, status'[k] = "FAILED", Fallback[k] # None
               PROVE  Replaced(k)'
    BY DEF FallbacksFit
  <2>1. Replaced(k)
    BY <1>0, <1>u DEF FallbacksFit
  <2>2. CASE jobStatus[Fallback[k]] # "ABSENT"
    BY <1>0, <2>2 DEF Replaced
  <2>3. ASSUME NEW v \in Workers, At(v, k, InCatch) PROVE Replaced(k)'
    <3>1. call'[v][k].stage \in InCatch
      <4>1. CASE v = w /\ k = d
        BY <1>c, <1>h, <1>m, <2>3, <4>1 DEF At, InTry, InCatch
      <4>2. CASE ~(v = w /\ k = d)
        BY <1>m, <2>3, <4>2 DEF At
      <4> QED BY <4>1, <4>2
    <3> QED BY <1>0, <2>3, <3>1 DEF Replaced, At
  <2> QED BY <2>1, <2>2, <2>3 DEF Replaced
<1> QED BY <1>1, <1>2, <1>3, <1>4 DEF Orderly

(* The other steps of a handler that is not disturbed.                     *)
LEMMA OwnOrderly ==
  ASSUME QueueFacts!Inv, Shown, Orderly, UNCHANGED callFaults,
         NEW w \in Workers, NEW d \in Deliveries, Own(w, d)
  PROVE  Orderly'
<1>0. UNCHANGED jobVars /\ d \in handling[w] /\ CallOK
  BY OwnEffect DEF Shown
<1>f. callFaults \in Nat /\ callFaults' = callFaults
  BY NotificationAssumption DEF Shown, CountersOK
<1>t. /\ call \in [Workers -> [Deliveries -> [stage : Stage, attempts : Nat]]]
      /\ status \in [Deliveries -> Status] /\ recorded \in [Deliveries -> Nat]
      /\ call[w][d].attempts \in Nat /\ jobAttempts' = jobAttempts
  BY <1>0, TypesOfSteps DEF jobVars
<1>h. HandFits(call[w][d], d)
  BY <1>0 DEF Orderly, HandsFit, InHand
<1>n. ~ CallFault
  BY <1>f DEF CallFault
<1>g. ASSUME NEW stage \in Stage \ {"enqueue", "lastEnqueue"}, GoTo(w, d, stage),
             call[w][d].stage \notin {"enqueue", "lastEnqueue"} \cup InCatch,
             \A k \in Deliveries \ {d} : status'[k] = status[k] /\ recorded'[k] = recorded[k],
             \A c \in [stage : Stage, attempts : Nat] :
               c.stage = stage /\ c.attempts = call[w][d].attempts => HandFits(c, d)',
             status'[d] = "FAILED" /\ Fallback[d] # None => stage \in InCatch
      PROVE  Orderly'
  <2>1. PICK c \in [stage : Stage, attempts : Nat] :
          /\ call' = [call EXCEPT ![w][d] = c]
          /\ c.stage = stage /\ c.attempts = call[w][d].attempts
    BY <1>0, <1>g, GoToEffect
  <2>2. HandFits(c, d)'
    BY <1>g, <2>1
  <2> QED BY <1>0, <1>g, <2>1, <2>2, HandMoves
<1>1. CASE Load(w, d)
  <2>0. call[w][d].stage = "begin" /\ status[d] = "PENDING" /\ recorded[d] + 1 = jobAttempts[d]
    BY <1>1, <1>h DEF Load, At, HandFits
  <2>1. /\ [stage |-> "send", attempts |-> recorded[d]] \in [stage : Stage, attempts : Nat]
        /\ call' = [call EXCEPT ![w][d] = [stage |-> "send", attempts |-> recorded[d]]]
    BY <1>1, <1>t, <2>0 DEF Load, Stage
  <2>2. PICK c \in [stage : Stage, attempts : Nat] :
          /\ call' = [call EXCEPT ![w][d] = c]
          /\ c.stage = "send" /\ c.attempts = recorded[d] /\ UNCHANGED <<status, recorded>>
    BY <1>1, <2>1 DEF Load
  <2>3. HandFits(c, d)'
    BY <1>t, <2>0, <2>2 DEF HandFits, InTry, InCatch
  <2>4. status'[d] # "FAILED"
    BY <2>0, <2>2
  <2> QED BY <1>0, <2>0, <2>2, <2>3, <2>4, HandMoves DEF InCatch
<1>2. CASE Withhold(w, d)
  <2>1. call[w][d].stage = "send" /\ GoTo(w, d, "returned") /\ "returned" \in Stage
    BY <1>2 DEF Withhold, At, Stage
  <2>2. /\ status'[d] = "SKIPPED"
        /\ \A k \in Deliveries \ {d} : status'[k] = status[k] /\ recorded'[k] = recorded[k]
    BY <1>2, <1>t DEF Withhold
  <2>3. ASSUME NEW c \in [stage : Stage, attempts : Nat], c.stage = "returned"
        PROVE  HandFits(c, d)'
    BY <2>2, <2>3 DEF HandFits, Ended, InTry, InCatch
  <2> QED BY <1>g, <2>1, <2>2, <2>3 DEF InCatch
<1>3. CASE SkipUnsent(w, d)
  <2> DEFINE stage == IF Channel[d] = "SLACK" THEN "fallback" ELSE "returned"
  <2>1. call[w][d].stage = "send" /\ GoTo(w, d, stage) /\ stage \in Stage
    BY <1>3 DEF SkipUnsent, At, Stage, InTry
  <2>2. /\ status'[d] = "SKIPPED"
        /\ \A k \in Deliveries \ {d} : status'[k] = status[k] /\ recorded'[k] = recorded[k]
    BY <1>3, <1>t DEF SkipUnsent, Record
  <2>3. ASSUME NEW c \in [stage : Stage, attempts : Nat], c.stage \in {"fallback", "returned"}
        PROVE  HandFits(c, d)'
    BY <2>2, <2>3 DEF HandFits, Ended, InTry, InCatch
  <2>4. stage \in {"fallback", "returned"}
    OBVIOUS
  <2> HIDE DEF stage
  <2> QED BY <1>g, <2>1, <2>2, <2>3, <2>4 DEF InCatch
<1>4. CASE \E ok \in BOOLEAN : Send(w, d, ok)
  <2>1. PICK stage \in {"sent", "error"} : GoTo(w, d, stage)
    BY <1>4 DEF Send
  <2>2. /\ call[w][d].stage = "send" /\ UNCHANGED <<status, recorded>> /\ stage \in Stage
    BY <1>4 DEF Send, At, Stage
  <2>3. status[d] = "PENDING" /\ recorded[d] + 1 = jobAttempts[d]
        /\ call[w][d].attempts = recorded[d]
    BY <1>h, <2>2 DEF HandFits
  <2>4. ASSUME NEW c \in [stage : Stage, attempts : Nat], c.stage = stage,
               c.attempts = call[w][d].attempts
        PROVE  HandFits(c, d)'
    BY <1>t, <2>1, <2>2, <2>3, <2>4 DEF HandFits, InTry, InCatch
  <2> QED BY <1>g, <2>1, <2>2, <2>3, <2>4 DEF InCatch
<1>5. CASE RecordSent(w, d)
  <2>1. call[w][d].stage = "sent" /\ GoTo(w, d, "returned") /\ "returned" \in Stage
    BY <1>5 DEF RecordSent, At, Stage
  <2>2. /\ status'[d] = "SENT"
        /\ \A k \in Deliveries \ {d} : status'[k] = status[k] /\ recorded'[k] = recorded[k]
    BY <1>5, <1>t DEF RecordSent, Record
  <2>3. ASSUME NEW c \in [stage : Stage, attempts : Nat], c.stage = "returned"
        PROVE  HandFits(c, d)'
    BY <2>2, <2>3 DEF HandFits, Ended, InTry, InCatch
  <2> QED BY <1>g, <2>1, <2>2, <2>3 DEF InCatch
<1>6. CASE RecordFailure(w, d)
  <2>1. /\ call[w][d].stage = "error" /\ recorded[d] + 1 = jobAttempts[d]
        /\ call[w][d].attempts = recorded[d]
    BY <1>6, <1>h DEF RecordFailure, At, HandFits
  <2>2. PICK stage \in {"lastFallback", "returned", "threw"} :
          /\ GoTo(w, d, stage)
          /\ stage = "lastFallback" <=> Channel[d] = "SLACK"
          /\ stage = "threw" <=> FailureStatus(d, call[w][d].attempts + 1) # "FAILED"
    BY <1>6 DEF RecordFailure, FailureStatus
  <2>3. /\ status'[d] = FailureStatus(d, call[w][d].attempts + 1)
        /\ recorded'[d] = call[w][d].attempts + 1
        /\ \A k \in Deliveries \ {d} : status'[k] = status[k] /\ recorded'[k] = recorded[k]
    BY <1>6, <1>t DEF RecordFailure, Record
  <2>4. /\ stage # "threw" => status'[d] = "FAILED"
        /\ stage = "threw" => status'[d] = "PENDING" /\ recorded'[d] < MaxDeliveryAttempts
        /\ recorded'[d] = jobAttempts'[d]
    BY <1>t, <2>1, <2>2, <2>3, NotificationAssumption DEF FailureStatus
  <2>5. ASSUME NEW c \in [stage : Stage, attempts : Nat], c.stage = stage
        PROVE  HandFits(c, d)'
    BY <2>2, <2>4, <2>5 DEF HandFits, Ended, InTry, InCatch
  <2>6. status'[d] = "FAILED" /\ Fallback[d] # None => stage \in InCatch
    BY <2>2, <2>4, NotificationAssumption DEF InCatch
  <2>7. stage \in Stage \ {"enqueue", "lastEnqueue"}
    BY <2>2 DEF Stage, InTry, InCatch
  <2> QED BY <1>g, <2>1, <2>2, <2>3, <2>5, <2>6, <2>7 DEF InCatch
<1>7. CASE FallBack(w, d)
  BY <1>7, FallBackOrderly
<1>8. ~ (\E stage \in {"error", "threw"} : CheckThrows(w, d, stage))
  BY <1>n DEF CheckThrows
<1>9. ~ (\E ok \in BOOLEAN, stage \in {"send", "error", "threw"} : SendThrows(w, d, ok, stage))
  BY <1>n DEF SendThrows
<1>10. ~ WriteThrows(w, d)
  BY <1>n DEF WriteThrows
<1> QED BY <1>1, <1>2, <1>3, <1>4, <1>5, <1>6, <1>7, <1>8, <1>9, <1>10 DEF Own

(* Enqueueing is no matter to a job that is there.                         *)
LEMMA EnqueuesOrderly ==
  ASSUME NEW batch, Queue!Enqueue(batch)
  PROVE  /\ UNCHANGED <<queued, handling, lockedBy, expired, jobAttempts, jobSeen>>
         /\ \A k \in Deliveries :
              jobStatus'[k] = IF k \in batch /\ jobStatus[k] = "ABSENT" THEN "PENDING"
                              ELSE jobStatus[k]
BY DEF Queue!Enqueue, Queue!memory

LEMMA PublishOrderly ==
  ASSUME QueueFacts!Inv, Shown, Orderly, NEW batch \in SUBSET Deliveries, Publish(batch)
  PROVE  Orderly'
<1>0. /\ UNCHANGED <<queued, handling, lockedBy, expired, jobAttempts, jobSeen, recorded, call>>
      /\ \A k \in Deliveries :
           jobStatus'[k] = IF k \in batch /\ jobStatus[k] = "ABSENT" THEN "PENDING"
                           ELSE jobStatus[k]
      /\ HolderFits /\ HandsFit /\ RestFits /\ FallbacksFit
  BY EnqueuesOrderly DEF Publish, Orderly
<1>u. \A k \in Deliveries :
        status'[k] = IF k \in batch /\ status[k] = "ABSENT" THEN "PENDING" ELSE status[k]
  BY DEF Publish, Upsert
<1>t. /\ jobStatus \in [Deliveries -> QueueFacts!Status]
      /\ None \notin Deliveries /\ FallbackIsThere
  BY TypesOfSteps DEF Shown
<1>1. HolderFits'
  BY <1>0 DEF HolderFits, InHand
<1>2. HandsFit'
  <2> SUFFICES ASSUME NEW v \in Workers, NEW k \in Deliveries, InHand(v, k)'
               PROVE  HandFits(call[v][k], k)'
    BY DEF HandsFit
  <2>0. InHand(v, k) /\ HandFits(call[v][k], k) /\ call'[v][k] = call[v][k]
    BY <1>0 DEF InHand, HandsFit
  <2>1. call[v][k].stage \in {"enqueue", "lastEnqueue"} => status'[Fallback[k]] # "ABSENT"
    BY <1>t, <1>u, <2>0, NotificationAssumption DEF FallbackIsThere, HandFits
  <2> QED BY <1>0, <1>u, <2>0, <2>1 DEF HandFits, Ended
<1>3. RestFits'
  <2> SUFFICES ASSUME NEW k \in Deliveries
               PROVE  RowFits(k)'
    BY DEF RestFits, RowFits
  <2>1. Awaited(k) => Awaited(k)'
    BY <1>0 DEF Awaited, At
  <2>2. CASE k \in batch /\ jobStatus[k] = "ABSENT"
    BY <1>0, <1>u, <2>2 DEF RestFits, RowFits, Queue!Terminal
  <2>3. CASE ~(k \in batch /\ jobStatus[k] = "ABSENT")
    <3>1. jobStatus'[k] = jobStatus[k]
      BY <1>0, <2>3
    <3>2. status'[k] = status[k] \/ jobStatus[k] = "RUNNING"
      BY <1>0, <1>t, <1>u, <2>3 DEF RestFits, RowFits, Ended, Queue!Terminal, QueueFacts!Status
    <3> QED BY <1>0, <2>1, <3>1, <3>2 DEF RestFits, RowFits, Ended, Queue!Terminal
  <2> QED BY <2>2, <2>3
<1>4. FallbacksFit'
  <2> SUFFICES ASSUME NEW k \in Deliveries, status'[k] = "FAILED", Fallback[k] # None
               PROVE  Replaced(k)'
    BY DEF FallbacksFit
  <2>1. Replaced(k) /\ Fallback[k] \in Deliveries
    BY <1>0, <1>u, NotificationAssumption DEF FallbacksFit
  <2> QED BY <1>0, <2>1 DEF Replaced, At
<1> QED BY <1>1, <1>2, <1>3, <1>4 DEF Orderly

LEMMA FallbackEnqueued ==
  ASSUME QueueFacts!Inv, Shown, Orderly,
         NEW w \in Workers, NEW d \in Deliveries, EnqueueFallback(w, d)
  PROVE  Orderly'
<1>e. /\ d \in handling[w] /\ call[w][d].stage \in {"enqueue", "lastEnqueue"}
      /\ GoTo(w, d, "returned") /\ "returned" \in Stage /\ UNCHANGED <<status, recorded>>
  BY DEF EnqueueFallback, At, Stage
<1>t. /\ jobStatus \in [Deliveries -> QueueFacts!Status] /\ CallOK
      /\ None \notin Deliveries /\ FallbackIsThere
  BY TypesOfSteps DEF Shown
<1>f. Fallback[d] \in Deliveries
  BY <1>e, <1>t, NotificationAssumption DEF FallbackIsThere
<1>0. /\ UNCHANGED <<queued, handling, lockedBy, expired, jobAttempts, jobSeen>>
      /\ \A k \in Deliveries :
           jobStatus'[k] = IF k = Fallback[d] /\ jobStatus[k] = "ABSENT" THEN "PENDING"
                           ELSE jobStatus[k]
  <2>1. CASE Queue!Enqueue({Fallback[d]})
    BY <2>1, EnqueuesOrderly
  <2>2. CASE jobStatus[Fallback[d]] # "ABSENT" /\ UNCHANGED jobVars
    BY <2>2 DEF jobVars
  <2> QED BY <2>1, <2>2 DEF EnqueueFallback
<1>o. HolderFits /\ HandsFit /\ RestFits /\ FallbacksFit
  BY DEF Orderly
<1>c. PICK c \in [stage : Stage, attempts : Nat] :
        call' = [call EXCEPT ![w][d] = c] /\ c.stage = "returned"
  BY <1>e, <1>t, GoToEffect
<1>m. \A v \in Workers, k \in Deliveries :
        call'[v][k] = IF v = w /\ k = d THEN c ELSE call[v][k]
  BY <1>t, <1>c DEF CallOK
<1>h. /\ HandFits(call[w][d], d) /\ Ended(d) /\ status[Fallback[d]] # "ABSENT"
      /\ jobStatus[d] = "RUNNING" /\ \A v \in Workers : InHand(v, d) => v = w
  <2>1. InHand(w, d)
    BY <1>e DEF InHand
  <2>2. HandFits(call[w][d], d) /\ jobStatus[d] = "RUNNING" /\ lockedBy[d] = w
    BY <1>o, <2>1 DEF HolderFits, HandsFit
  <2>3. \A v \in Workers : InHand(v, d) => v = w
    BY <1>o, <2>2 DEF HolderFits
  <2> QED BY <1>e, <2>2, <2>3 DEF HandFits, Ended, InTry, InCatch
<1>1. HolderFits'
  BY <1>0, <1>o DEF HolderFits, InHand
<1>2. HandsFit'
  <2> SUFFICES ASSUME NEW v \in Workers, NEW k \in Deliveries, InHand(v, k)'
               PROVE  HandFits(call[v][k], k)'
    BY DEF HandsFit
  <2>0. InHand(v, k) /\ HandFits(call[v][k], k)
    BY <1>0, <1>o DEF InHand, HandsFit
  <2>1. CASE k = d
    <3>1. v = w /\ call'[v][k] = c
      BY <1>h, <1>m, <2>0, <2>1
    <3> QED BY <1>c, <1>e, <1>h, <2>1, <3>1 DEF HandFits, Ended, InTry, InCatch
  <2>2. CASE k # d
    BY <1>0, <1>e, <1>m, <2>0, <2>2 DEF HandFits, Ended
  <2> QED BY <2>1, <2>2
<1>3. RestFits'
  <2> SUFFICES ASSUME NEW k \in Deliveries, jobStatus'[k] # "RUNNING"
               PROVE  RowFits(k)'
    BY DEF RestFits, RowFits, Queue!Terminal
  <2>1. CASE k = Fallback[d]
    <3>1. CASE jobStatus[k] = "ABSENT"
      BY <1>0, <1>e, <1>h, <1>o, <2>1, <3>1 DEF RestFits, RowFits, Queue!Terminal
    <3>2. CASE jobStatus[k] # "ABSENT"
      BY <1>0, <1>e, <1>o, <2>1, <3>2 DEF RestFits, RowFits, Ended, Queue!Terminal
    <3> QED BY <3>1, <3>2
  <2>2. CASE k # Fallback[d]
    <3>1. Awaited(k) => Awaited(k)'
      <4> SUFFICES ASSUME NEW v \in Workers, NEW s \in Deliveries,
                          Fallback[s] = k, At(v, s, {"enqueue", "lastEnqueue"})
                   PROVE  Awaited(k)'
        BY DEF Awaited
      <4>1. call'[v][s] = call[v][s]
        BY <1>m, <2>2
      <4> QED BY <1>0, <4>1 DEF Awaited, At
    <3> QED BY <1>0, <1>e, <1>o, <2>2, <3>1 DEF RestFits, RowFits, Ended
  <2> QED BY <2>1, <2>2
<1>4. FallbacksFit'
  <2> SUFFICES ASSUME NEW k \in Deliveries, status'[k] = "FAILED", Fallback[k] # None
               PROVE  Replaced(k)'
    BY DEF FallbacksFit
  <2>1. Replaced(k) /\ Fallback[k] \in Deliveries
    BY <1>e, <1>o, NotificationAssumption DEF FallbacksFit
  <2>2. CASE k = d
    BY <1>0, <1>f, <2>2 DEF Replaced
  <2>3. CASE k # d
    BY <1>0, <1>m, <2>1, <2>3 DEF Replaced, At
  <2> QED BY <2>2, <2>3
<1> QED BY <1>1, <1>2, <1>3, <1>4 DEF Orderly

(* The steps of the queue on its own.                                      *)
LEMMA ClaimOrderly ==
  ASSUME QueueFacts!Inv, Shown, Orderly, UNCHANGED deliveryVars,
         NEW w \in Workers, NEW batch \in SUBSET Deliveries, Queue!Claim(w, batch)
  PROVE  Orderly'
<1>o. HolderFits /\ HandsFit /\ RestFits /\ FallbacksFit /\ UNCHANGED <<status, recorded, call>>
  BY DEF Orderly, deliveryVars
<1>t. /\ jobStatus \in [Deliveries -> QueueFacts!Status] /\ IdleIsEmpty
      /\ jobAttempts \in [Deliveries -> Nat] /\ recorded \in [Deliveries -> Nat]
      /\ None \notin Deliveries /\ FallbackIsThere
  BY TypesOfSteps DEF Shown
<1>b. \A k \in Deliveries :
        /\ queued[w] = {} /\ handling[w] = {} /\ UNCHANGED handling
        /\ queued'[w] = batch /\ \A v \in Workers \ {w} : queued'[v] = queued[v]
        /\ k \in batch =>
             /\ jobStatus[k] = "PENDING" \/ (jobStatus[k] = "RUNNING" /\ expired[k])
             /\ jobStatus'[k] = "RUNNING" /\ lockedBy'[k] = w /\ expired'[k] = FALSE
        /\ k \notin batch =>
             /\ jobStatus'[k] = jobStatus[k] /\ lockedBy'[k] = lockedBy[k]
             /\ expired'[k] = expired[k]
  BY ClaimEffect
<1>s. /\ \A k \in Deliveries :
           jobAttempts'[k] = IF k \in batch THEN jobAttempts[k] + 1 ELSE jobAttempts[k]
      /\ \A v \in Workers \ {w} : jobSeen'[v] = jobSeen[v]
      /\ \A k \in batch : jobSeen'[w][k].attempts = jobAttempts[k] + 1
  <2>1. jobSeen \in [Workers -> [Deliveries -> [attempts : Nat, serial : Nat]]]
    BY DEF QueueFacts!Inv, QueueFacts!TypeOK
  <2>2. /\ jobAttempts' = [k \in Deliveries |->
             IF k \in batch THEN jobAttempts[k] + 1 ELSE jobAttempts[k]]
        /\ jobSeen' = [jobSeen EXCEPT ![w] = [k \in Deliveries |->
             IF k \in batch THEN Queue!Remembered(k) ELSE Queue!Unclaimed]]
    BY DEF Queue!Claim
  <2>3. \A k \in Deliveries : Queue!Remembered(k).attempts = jobAttempts[k] + 1
    BY DEF Queue!Remembered
  <2> QED BY <2>1, <2>2, <2>3
<1>k. \A k \in batch :
        /\ jobStatus[k] = "PENDING" /\ status[k] = "PENDING" /\ recorded[k] = jobAttempts[k]
        /\ \A v \in Workers : ~ InHand(v, k)
  BY <1>b, <1>o DEF HolderFits, RestFits, RowFits
<1>i. \A v \in Workers, k \in Deliveries :
        InHand(v, k)' <=> IF v = w THEN k \in batch ELSE InHand(v, k)
  BY <1>b DEF InHand
<1>w. \A k \in Deliveries : ~ InHand(w, k)
  BY <1>b DEF InHand
<1>1. HolderFits'
  <2>1. ASSUME NEW v \in Workers, NEW k \in Deliveries, InHand(v, k)'
        PROVE  /\ jobStatus'[k] = "RUNNING" /\ lockedBy'[k] = v
               /\ jobSeen'[v][k].attempts = jobAttempts'[k]
    <3>1. CASE v = w
      BY <1>b, <1>i, <1>s, <2>1, <3>1
    <3>2. CASE v # w
      BY <1>b, <1>i, <1>k, <1>o, <1>s, <2>1, <3>2 DEF HolderFits
    <3> QED BY <3>1, <3>2
  <2>2. ASSUME NEW k \in Deliveries, jobStatus'[k] = "RUNNING"
        PROVE  ~ expired'[k] /\ \E v \in Workers : lockedBy'[k] = v /\ InHand(v, k)'
    <3>1. CASE k \in batch
      BY <1>b, <1>i, <3>1
    <3>2. CASE k \notin batch
      <4>1. PICK v \in Workers : lockedBy[k] = v /\ InHand(v, k)
        BY <1>b, <1>o, <2>2, <3>2 DEF HolderFits
      <4> QED BY <1>b, <1>i, <1>o, <1>w, <2>2, <3>2, <4>1 DEF HolderFits
    <3> QED BY <3>1, <3>2
  <2> QED BY <2>1, <2>2 DEF HolderFits
<1>2. HandsFit'
  <2> SUFFICES ASSUME NEW v \in Workers, NEW k \in Deliveries, InHand(v, k)'
               PROVE  HandFits(call[v][k], k)'
    BY DEF HandsFit
  <2>1. CASE v = w
    <3>1. k \in batch /\ call'[v][k] = NoCall
      BY <1>b, <1>i, <1>o, <1>t, <2>1 DEF IdleIsEmpty
    <3> QED BY <1>k, <1>o, <1>s, <1>t, <3>1 DEF HandFits, NoCall, InTry, InCatch
  <2>2. CASE v # w
    <3>1. InHand(v, k) /\ k \notin batch /\ HandFits(call[v][k], k)
      BY <1>i, <1>k, <1>o, <2>2 DEF HandsFit
    <3> QED BY <1>o, <1>s, <3>1 DEF HandFits, Ended
  <2> QED BY <2>1, <2>2
<1>3. RestFits'
  <2>1. \A k \in Deliveries : Awaited(k) => Awaited(k)'
    BY <1>b, <1>o DEF Awaited, At
  <2> QED BY <1>b, <1>o, <1>s, <2>1 DEF RestFits, RowFits, Ended, Queue!Terminal
<1>4. FallbacksFit'
  <2> SUFFICES ASSUME NEW k \in Deliveries, status'[k] = "FAILED", Fallback[k] # None
               PROVE  Replaced(k)'
    BY DEF FallbacksFit
  <2>1. Replaced(k) /\ Fallback[k] \in Deliveries
    BY <1>o, NotificationAssumption DEF FallbacksFit
  <2> QED BY <1>b, <1>o, <2>1 DEF Replaced, At
<1> QED BY <1>1, <1>2, <1>3, <1>4 DEF Orderly

LEMMA StartOrderly ==
  ASSUME QueueFacts!Inv, Shown, Orderly, UNCHANGED deliveryVars,
         NEW w \in Workers, NEW d \in Deliveries, Queue!StartHandler(w, d)
  PROVE  Orderly'
<1>o. /\ HolderFits /\ HandsFit /\ RestFits /\ FallbacksFit
      /\ UNCHANGED <<status, recorded, call, jobStatus, jobAttempts, lockedBy, expired, jobSeen>>
  BY DEF Orderly, deliveryVars, Queue!StartHandler, Queue!row
<1>i. \A v \in Workers :
        handling[v] \subseteq handling'[v] /\ \A k \in Deliveries : InHand(v, k)' <=> InHand(v, k)
  BY MemoryTypes DEF Queue!StartHandler, InHand
<1>1. HolderFits'
  BY <1>o, <1>i DEF HolderFits
<1>2. HandsFit'
  BY <1>o, <1>i DEF HandsFit, HandFits, Ended
<1>3. RestFits'
  <2>1. \A k \in Deliveries : Awaited(k) => Awaited(k)'
    BY <1>i, <1>o DEF Awaited, At
  <2> QED BY <1>o, <2>1 DEF RestFits, RowFits, Ended
<1>4. FallbacksFit'
  BY <1>o, <1>i DEF FallbacksFit, Replaced, At
<1> QED BY <1>1, <1>2, <1>3, <1>4 DEF Orderly

LEMMA DiscardOrderly ==
  ASSUME QueueFacts!Inv, Shown, Orderly, UNCHANGED deliveryVars,
         NEW d \in Deliveries, Queue!Discard(d)
  PROVE  Orderly'
<1>o. /\ HolderFits /\ HandsFit /\ RestFits /\ FallbacksFit
      /\ UNCHANGED <<status, recorded, call, jobAttempts, lockedBy, expired, jobSeen,
                     queued, handling>>
  BY DEF Orderly, deliveryVars, Queue!Discard, Queue!memory
<1>d. /\ jobStatus[d] = "FAILED" /\ jobStatus'[d] = "CANCELLED"
      /\ \A k \in Deliveries \ {d} : jobStatus'[k] = jobStatus[k]
  BY TypesOfSteps DEF Queue!Discard
<1>1. HolderFits'
  BY <1>o, <1>d DEF HolderFits, InHand
<1>2. HandsFit'
  BY <1>o DEF HandsFit, HandFits, Ended, InHand
<1>3. RestFits'
  <2>1. \A k \in Deliveries : Awaited(k) => Awaited(k)'
    BY <1>o DEF Awaited, At
  <2> QED BY <1>o, <1>d, <2>1 DEF RestFits, RowFits, Ended, Queue!Terminal
<1>4. FallbacksFit'
  <2>1. \A k \in Deliveries : Fallback[k] # None => Fallback[k] \in Deliveries
    BY NotificationAssumption
  <2> QED BY <1>o, <1>d, <2>1 DEF FallbacksFit, Replaced, At
<1> QED BY <1>1, <1>2, <1>3, <1>4 DEF Orderly

(* The end of a handler: it has returned, or will be tried again.          *)
LEMMA EndsOrderly ==
  ASSUME QueueFacts!Inv, Shown, Orderly, UNCHANGED callFaults,
         MaxDeliveryAttempts <= MaxAttempts,
         NEW w \in Workers, NEW d \in Deliveries, Ends(w, d)
  PROVE  Orderly'
<1>o. HolderFits /\ HandsFit /\ RestFits /\ FallbacksFit
  BY DEF Orderly
<1>t. /\ jobStatus \in [Deliveries -> QueueFacts!Status] /\ CallOK
      /\ handling \in [Workers -> SUBSET Deliveries]
      /\ jobAttempts \in [Deliveries -> Nat] /\ recorded \in [Deliveries -> Nat]
      /\ \A v \in Workers : queued[v] \cap handling[v] = {}
      /\ None \notin Deliveries /\ FallbackIsThere
  BY TypesOfSteps, MemoryTypes DEF Shown
<1>e. HandlerReturns(w, d) \/ HandlerThrows(w, d)
  <2>1. callFaults \in Nat /\ callFaults' = callFaults
    BY NotificationAssumption DEF Shown, CountersOK
  <2>2. ~ CallFault
    BY <2>1 DEF CallFault
  <2> QED BY <2>2 DEF Ends, HandlerIsFailed
<1>f. /\ d \in handling[w] /\ handling' = [handling EXCEPT ![w] = @ \ {d}] /\ UNCHANGED queued
      /\ \A k \in Deliveries \ {d} :
           jobStatus'[k] = jobStatus[k] /\ lockedBy'[k] = lockedBy[k] /\ expired'[k] = expired[k]
      /\ \A v \in Workers, k \in Deliveries : v # w \/ k # d => call'[v][k] = call[v][k]
  BY EndsEffect
<1>g. /\ UNCHANGED <<status, recorded, jobAttempts>>
      /\ jobSeen' = [jobSeen EXCEPT ![w][d] = Queue!Unclaimed]
      /\ call[w][d].stage \in {"returned", "threw"}
  BY <1>e DEF HandlerReturns, HandlerThrows, Quiet, Queue!HandlerSucceeds,
              Queue!HandlerFails, Queue!LeaveHandler, At
<1>s. \A v \in Workers, k \in Deliveries : v # w \/ k # d => jobSeen'[v][k] = jobSeen[v][k]
  <2>1. jobSeen \in [Workers -> [Deliveries -> [attempts : Nat, serial : Nat]]]
    BY DEF QueueFacts!Inv, QueueFacts!TypeOK
  <2> QED BY <1>g, <2>1
<1>h. /\ HandFits(call[w][d], d) /\ lockedBy[d] = w
      /\ jobSeen[w][d].attempts = jobAttempts[d]
      /\ \A v \in Workers : InHand(v, d) => v = w
  BY <1>f, <1>o DEF HandsFit, HolderFits, InHand
<1>i. \A v \in Workers, k \in Deliveries :
        InHand(v, k)' <=> InHand(v, k) /\ ~(v = w /\ k = d)
  BY <1>f, <1>t DEF InHand
<1>n. \A v \in Workers : ~ InHand(v, d)'
  BY <1>h, <1>i
<1>d. \/ jobStatus'[d] = "COMPLETED" /\ Ended(d)
      \/ jobStatus'[d] = "PENDING" /\ status[d] = "PENDING" /\ recorded[d] = jobAttempts[d]
  <2>1. CASE HandlerReturns(w, d)
    <3>1. Ended(d)
      BY <1>h, <2>1 DEF HandlerReturns, At, HandFits
    <3>2. jobStatus'[d] = "COMPLETED"
      BY <2>1, LeaveEffect DEF HandlerReturns
    <3> QED BY <3>1, <3>2
  <2>2. CASE HandlerThrows(w, d)
    <3>1. /\ status[d] = "PENDING" /\ recorded[d] = jobAttempts[d]
          /\ recorded[d] < MaxDeliveryAttempts
      BY <1>h, <2>2 DEF HandlerThrows, At, HandFits
    <3>2. /\ MaxAttempts \in Nat /\ MaxDeliveryAttempts \in Nat
          /\ recorded[d] \in Nat
      BY <1>t, SameAssumptions, NotificationAssumption DEF QueueFacts!BoundAssumption
    <3>3. ~ (jobSeen[w][d].attempts >= MaxAttempts)
      BY <1>h, <3>1, <3>2
    <3>4. Queue!FailureStatus(w, d, FALSE) = "PENDING"
      BY <3>3 DEF Queue!FailureStatus
    <3>5. Queue!MaySettle(w, d)
      BY DEF Queue!MaySettle
    <3>6. jobStatus' = [jobStatus EXCEPT ![d] = "PENDING"]
      BY <2>2, <3>4, <3>5 DEF HandlerThrows, Queue!HandlerFails, Queue!Settle, Queue!Release
    <3> QED BY <1>t, <3>1, <3>6
  <2> QED BY <1>e, <2>1, <2>2
<1>1. HolderFits'
  <2>1. ASSUME NEW v \in Workers, NEW k \in Deliveries, InHand(v, k)'
        PROVE  /\ jobStatus'[k] = "RUNNING" /\ lockedBy'[k] = v
               /\ jobSeen'[v][k].attempts = jobAttempts'[k]
    <3>1. k # d /\ InHand(v, k)
      BY <1>i, <1>n, <2>1
    <3> QED BY <1>f, <1>g, <1>o, <1>s, <3>1 DEF HolderFits
  <2>2. ASSUME NEW k \in Deliveries, jobStatus'[k] = "RUNNING"
        PROVE  ~ expired'[k] /\ \E v \in Workers : lockedBy'[k] = v /\ InHand(v, k)'
    <3>1. k # d
      BY <1>d, <2>2
    <3> QED BY <1>f, <1>i, <1>o, <2>2, <3>1 DEF HolderFits
  <2> QED BY <2>1, <2>2 DEF HolderFits
<1>2. HandsFit'
  <2> SUFFICES ASSUME NEW v \in Workers, NEW k \in Deliveries, InHand(v, k)'
               PROVE  HandFits(call[v][k], k)'
    BY DEF HandsFit
  <2>1. k # d /\ HandFits(call[v][k], k) /\ call'[v][k] = call[v][k]
    BY <1>f, <1>i, <1>n, <1>o DEF HandsFit
  <2> QED BY <1>g, <2>1 DEF HandFits, Ended
<1>a. \A k \in Deliveries : Awaited(k) => Awaited(k)'
  <2> SUFFICES ASSUME NEW k \in Deliveries, NEW v \in Workers, NEW s \in Deliveries,
                      Fallback[s] = k, At(v, s, {"enqueue", "lastEnqueue"})
               PROVE  Awaited(k)'
    BY DEF Awaited
  <2>1. ~(v = w /\ s = d)
    BY <1>g DEF At
  <2>2. call'[v][s] = call[v][s] /\ s \in handling'[v]
    BY <1>f, <1>t, <2>1 DEF At
  <2> QED BY <2>2 DEF Awaited, At
<1>3. RestFits'
  <2> SUFFICES ASSUME NEW k \in Deliveries
               PROVE  RowFits(k)'
    BY DEF RestFits, RowFits
  <2>1. CASE k = d
    BY <1>d, <1>g, <2>1 DEF RowFits, Ended, Queue!Terminal
  <2>2. CASE k # d
    BY <1>a, <1>f, <1>g, <1>o, <2>2 DEF RestFits, RowFits, Ended
  <2> QED BY <2>1, <2>2
<1>4. FallbacksFit'
  <2> SUFFICES ASSUME NEW k \in Deliveries, status'[k] = "FAILED", Fallback[k] # None
               PROVE  Replaced(k)'
    BY DEF FallbacksFit
  <2>1. Replaced(k) /\ Fallback[k] \in Deliveries
    BY <1>g, <1>o, NotificationAssumption DEF FallbacksFit
  <2>2. CASE jobStatus[Fallback[k]] # "ABSENT"
    BY <1>d, <1>f, <2>1, <2>2 DEF Replaced
  <2>3. ASSUME NEW v \in Workers, At(v, k, InCatch) PROVE Replaced(k)'
    <3>1. ~(v = w /\ k = d)
      BY <1>g, <2>3 DEF At, InCatch
    <3>2. call'[v][k] = call[v][k] /\ k \in handling'[v]
      BY <1>f, <1>t, <2>3, <3>1 DEF At
    <3> QED BY <2>3, <3>2 DEF Replaced, At
  <2> QED BY <2>1, <2>2, <2>3 DEF Replaced
<1> QED BY <1>1, <1>2, <1>3, <1>4 DEF Orderly

(* As long as there is no fault, every step keeps order.                   *)
LEMMA OrderlyStep ==
  ASSUME QueueFacts!Inv, Shown, Orderly, [Next]_vars, UNCHANGED <<callFaults, jobFaults>>,
         MaxDeliveryAttempts <= MaxAttempts
  PROVE  Orderly'
<1>n. jobFaults \in Nat /\ jobFaults' = jobFaults /\ ~ Queue!Fault
  BY MemoryTypes DEF Queue!Fault
<1>1. ASSUME NEW batch \in SUBSET Deliveries, Publish(batch) PROVE Orderly'
  BY <1>1, PublishOrderly
<1>2. ASSUME NEW w \in Workers, NEW d \in Deliveries,
             Own(w, d) \/ EnqueueFallback(w, d) \/ Ends(w, d)
      PROVE  Orderly'
  BY <1>2, OwnOrderly, FallbackEnqueued, EndsOrderly
<1>3. ASSUME NEW w \in Workers, NEW d \in Deliveries, SettlementThrows(w, d)
      PROVE  FALSE
  BY <1>3, <1>n DEF SettlementThrows, Queue!SettlementThrows
<1>4. ASSUME NEW w \in Workers, Crash(w) PROVE FALSE
  BY <1>4, <1>n DEF Crash, Queue!Crash
<1>5. ASSUME UNCHANGED deliveryVars,
             NEW w \in Workers, NEW batch \in SUBSET Deliveries, Queue!Claim(w, batch)
      PROVE  Orderly'
  BY <1>5, ClaimOrderly
<1>6. ASSUME UNCHANGED deliveryVars,
             NEW w \in Workers, NEW d \in Deliveries, Queue!StartHandler(w, d)
      PROVE  Orderly'
  BY <1>6, StartOrderly
<1>7. ASSUME NEW d \in Deliveries, Queue!LockExpires(d) PROVE FALSE
  <2>1. jobStatus[d] = "RUNNING" /\ Queue!Abandoned(d)
    BY <1>7, <1>n DEF Queue!LockExpires
  <2>2. \E w \in Workers : lockedBy[d] = w /\ InHand(w, d)
    BY <2>1 DEF Orderly, HolderFits
  <2> QED BY <2>1, <2>2 DEF Queue!Abandoned, Queue!InMemory, InHand
<1>8. ASSUME UNCHANGED deliveryVars, NEW d \in Deliveries, Queue!Discard(d)
      PROVE  Orderly'
  BY <1>8, DiscardOrderly
<1>9. CASE UNCHANGED vars
  BY <1>9
     DEF vars, deliveryVars, jobVars, Orderly, HolderFits, HandsFit, RestFits, RowFits,
         FallbacksFit, HandFits, InHand, Ended, Awaited, Replaced, At
<1> QED BY <1>1, <1>2, <1>3, <1>4, <1>5, <1>6, <1>7, <1>8, <1>9, NextSteps

LEMMA InitOrderly == Init => Orderly
<1> SUFFICES ASSUME Init PROVE Orderly
  OBVIOUS
<1>1. /\ \A d \in Deliveries : /\ status[d] = "ABSENT" /\ recorded[d] = 0
                               /\ jobStatus[d] = "ABSENT" /\ jobAttempts[d] = 0
      /\ \A w \in Workers, d \in Deliveries : ~ InHand(w, d)
  BY DEF Init, Queue!Init, InHand
<1> QED BY <1>1 DEF Orderly, HolderFits, HandsFit, RestFits, RowFits, FallbacksFit, Queue!Terminal

(* A step after which nothing has failed is no fault.                      *)
LEMMA NoneIsZero ==
  ASSUME NEW a \in Nat, NEW b \in Nat
  PROVE  a + b = 0 <=> a = 0 /\ b = 0
OBVIOUS

LEMMA CalmStep ==
  ASSUME QueueFacts!Inv, QueueFacts!Inv', Shown, Shown', [Next]_vars, Calm',
         NEW k \in Deliveries
  PROVE  Calm /\ UNCHANGED <<callFaults, jobFaults>>
<1>1. /\ jobFaults \in Nat /\ jobFaults' \in Nat /\ callFaults \in Nat /\ callFaults' \in Nat
  BY SameAssumptions, NotificationAssumption
     DEF QueueFacts!Inv, QueueFacts!TypeOK, QueueFacts!BoundAssumption, Shown, CountersOK
<1>2. jobFaults' + callFaults' = 0
  BY DEF Calm
<1>3. jobFaults' = 0 /\ callFaults' = 0
  BY <1>1, <1>2, NoneIsZero
<1>4. ~ OneMoreFault
  BY <1>1, <1>3 DEF OneMoreFault
<1>5. SameFaults
  BY <1>4, SpentStep
<1>6. jobFaults = 0 /\ callFaults = 0
  BY <1>3, <1>5 DEF SameFaults
<1> QED BY <1>5, <1>6 DEF SameFaults, Calm

(* Where the queue retries at least as often as an e-mail is retried (five *)
(* times each, NOTIFICATION_DELIVERY_MAX_ATTEMPTS and MAX_ATTEMPTS), no    *)
(* delivery is left without a job or an e-mail in its place.               *)
THEOREM NoneForgotten ==
  MaxDeliveryAttempts <= MaxAttempts => (Spec => []NothingIsForgotten)
<1> SUFFICES ASSUME MaxDeliveryAttempts <= MaxAttempts PROVE Spec => []NothingIsForgotten
  OBVIOUS
<1>1. Init => (Calm => Orderly)
  BY InitOrderly
<1>2. /\ NotificationInv /\ NotificationInv' /\ QueueFacts!Inv /\ QueueFacts!Inv'
      /\ (Calm => Orderly) /\ [Next]_vars
      => (Calm => Orderly)'
  <2> SUFFICES ASSUME NotificationInv, NotificationInv', QueueFacts!Inv, QueueFacts!Inv',
                      Calm => Orderly, [Next]_vars, Calm'
               PROVE  Orderly'
    OBVIOUS
  <2>1. Shown /\ Shown'
    BY DEF NotificationInv
  <2>2. CASE \E k \in Deliveries : TRUE
    <3>1. Calm /\ UNCHANGED <<callFaults, jobFaults>>
      BY <2>1, <2>2, CalmStep
    <3> QED BY <2>1, <3>1, OrderlyStep
  <2>3. CASE ~ \E k \in Deliveries : TRUE
    BY <2>3 DEF Orderly, HolderFits, HandsFit, RestFits, RowFits, FallbacksFit
  <2> QED BY <2>2, <2>3
<1>3. NotificationInv /\ QueueFacts!Inv /\ (Calm => Orderly) => NothingIsForgotten
  <2> SUFFICES ASSUME NotificationInv, QueueFacts!Inv, Calm, Orderly,
                      NEW d \in Deliveries, ~ Sending(d)
               PROVE  /\ status[d] = "PENDING" =>
                           \/ jobStatus[d] \in {"PENDING", "RUNNING"}
                           \/ \E s \in Deliveries : Fallback[s] = d /\ Sending(s)
                      /\ status[d] = "FAILED" /\ Fallback[d] # None =>
                           jobStatus[Fallback[d]] # "ABSENT"
    BY DEF NothingIsForgotten, Calm
  <2>1. jobStatus[d] \in {"ABSENT", "PENDING", "RUNNING"} \cup Queue!Terminal
    BY MemoryTypes DEF QueueFacts!Status, Queue!Terminal
  <2>2. Awaited(d) => \E s \in Deliveries : Fallback[s] = d /\ Sending(s)
    BY DEF Awaited, At, Sending
  <2>3. status[d] = "FAILED" /\ Fallback[d] # None => jobStatus[Fallback[d]] # "ABSENT"
    BY DEF Orderly, FallbacksFit, Replaced, At, Sending
  <2> QED BY <2>1, <2>2, <2>3 DEF Orderly, RestFits, RowFits, Ended
<1> QED BY <1>1, <1>2, <1>3, Invariance, QueueInvariant, PTL DEF Spec
===================
