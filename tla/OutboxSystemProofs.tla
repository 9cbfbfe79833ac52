-------------------------- MODULE OutboxSystemProofs -------------------------
(***************************************************************************)
(* The composition implements its two components, so that all that is      *)
(* proved of them holds of it; and what it adds: the jobs of an event come *)
(* to the queue together, and linked to their prerequisites.               *)
(***************************************************************************)
EXTENDS OutboxSystem, TLAPS

OutboxFacts == INSTANCE EventOutboxProofs WITH
  status <- eventStatus, attempts <- eventAttempts, seen <- eventSeen,
  faults <- eventFaults, BatchSize <- EventBatch, MaxFaults <- MaxEventFaults

QueueFacts == INSTANCE WorkflowJobsProofs WITH
  status <- jobStatus, attempts <- jobAttempts, seen <- jobSeen,
  faults <- jobFaults, BatchSize <- JobBatch, MaxFaults <- MaxJobFaults

(* The instances that the specification uses and those that carry the      *)
(* proofs are the same.                                                    *)
LEMMA SameAssumptions ==
  /\ OutboxFacts!OutboxAssumption
  /\ QueueFacts!JobAssumption
  /\ QueueFacts!BoundAssumption
BY ComponentAssumption
   DEF Outbox!OutboxAssumption, Outbox!IsFiniteSet,
       OutboxFacts!OutboxAssumption, OutboxFacts!IsFiniteSet,
       Queue!JobAssumption, Queue!Kinds, Queue!IsFiniteSet, Queue!BoundAssumption,
       QueueFacts!JobAssumption, QueueFacts!Kinds, QueueFacts!IsFiniteSet,
       QueueFacts!BoundAssumption

LEMMA SameOutbox ==
  /\ Outbox!Init => OutboxFacts!Init
  /\ [Outbox!Next]_(Outbox!vars) => [OutboxFacts!Next]_(OutboxFacts!vars)
BY DEF Outbox!vars, OutboxFacts!vars, Outbox!Abandoned,
   OutboxFacts!Abandoned, Outbox!Fault, OutboxFacts!Fault, Outbox!Init,
   OutboxFacts!Init, Outbox!Append, OutboxFacts!Append, Outbox!Claimable,
   OutboxFacts!Claimable, Outbox!Claim, OutboxFacts!Claim, Outbox!Release,
   OutboxFacts!Release, Outbox!Forget, OutboxFacts!Forget, Outbox!Dispatch,
   OutboxFacts!Dispatch, Outbox!FailureStatus, OutboxFacts!FailureStatus,
   Outbox!DispatchFails, OutboxFacts!DispatchFails,
   Outbox!DispatchUnacknowledged, OutboxFacts!DispatchUnacknowledged,
   Outbox!FailEventThrows, OutboxFacts!FailEventThrows, Outbox!LockExpires,
   OutboxFacts!LockExpires, Outbox!Crash, OutboxFacts!Crash, Outbox!Next,
   OutboxFacts!Next, Outbox!Cardinality,
   OutboxFacts!Cardinality

LEMMA SameQueue ==
  /\ Queue!Init => QueueFacts!Init
  /\ [Queue!Next]_(Queue!vars) => [QueueFacts!Next]_(QueueFacts!vars)
BY DEF Queue!vars, QueueFacts!vars, Queue!row, QueueFacts!row, Queue!memory,
   QueueFacts!memory, Queue!InMemory, QueueFacts!InMemory, Queue!Unclaimed,
   QueueFacts!Unclaimed, Queue!Terminal, QueueFacts!Terminal,
   Queue!Abandoned, QueueFacts!Abandoned, Queue!Fault, QueueFacts!Fault,
   Queue!Init, QueueFacts!Init, Queue!ResolvedDependency,
   QueueFacts!ResolvedDependency, Queue!Enqueue, QueueFacts!Enqueue,
   Queue!Claimable, QueueFacts!Claimable, Queue!OneLane, QueueFacts!OneLane,
   Queue!Remembered, QueueFacts!Remembered, Queue!Claim, QueueFacts!Claim,
   Queue!StartHandler, QueueFacts!StartHandler, Queue!HoldsLock,
   QueueFacts!HoldsLock, Queue!HoldsAttempt, QueueFacts!HoldsAttempt,
   Queue!MaySettle, QueueFacts!MaySettle, Queue!Release, QueueFacts!Release,
   Queue!Settle, QueueFacts!Settle, Queue!LeaveHandler,
   QueueFacts!LeaveHandler, Queue!HandlerSucceeds,
   QueueFacts!HandlerSucceeds, Queue!FailureStatus,
   QueueFacts!FailureStatus, Queue!HandlerFails, QueueFacts!HandlerFails,
   Queue!HandlerDefers, QueueFacts!HandlerDefers, Queue!SettlementThrows,
   QueueFacts!SettlementThrows, Queue!LockExpires, QueueFacts!LockExpires,
   Queue!Crash, QueueFacts!Crash, Queue!RequestVariantAgain,
   QueueFacts!RequestVariantAgain, Queue!RetryDiagnostic,
   QueueFacts!RetryDiagnostic, Queue!Discard, QueueFacts!Discard,
   Queue!Next, QueueFacts!Next,
   Queue!Cardinality, QueueFacts!Cardinality

-----------------------------------------------------------------------------
(* A step of the system is a step of each component, or leaves it alone.   *)
LEMMA OutboxStep == [Next]_vars => [Outbox!Next]_(Outbox!vars)
<1> SUFFICES ASSUME [Next]_vars PROVE Outbox!Next \/ UNCHANGED Outbox!vars
  OBVIOUS
<1> USE DEF Outbox!vars, eventVars
<1>1. ASSUME NEW e \in Events, Append(e) \/ EventLockExpires(e) PROVE Outbox!Next
  BY <1>1 DEF Append, EventLockExpires, Outbox!Next
<1>2. ASSUME NEW w \in Workers, NEW batch \in SUBSET Events, ClaimEvents(w, batch)
      PROVE  Outbox!Next
  BY <1>2 DEF ClaimEvents, Outbox!Next
<1>3. ASSUME NEW w \in Workers, NEW e \in Events, Dispatch(w, e) PROVE Outbox!Next
  BY <1>3 DEF Dispatch, Outbox!Next
<1>4. ASSUME NEW w \in Workers, NEW e \in Events, NEW revoked \in BOOLEAN,
             DispatchFails(w, e, revoked) \/ DispatchUnacknowledged(w, e, revoked)
      PROVE  Outbox!Next
  BY <1>4 DEF DispatchFails, DispatchUnacknowledged, Outbox!Next
<1>5. ASSUME NEW w \in Workers, FailEventThrows(w) \/ Crash(w) PROVE Outbox!Next
  BY <1>5 DEF FailEventThrows, Crash, Outbox!Next
<1>6. ASSUME NEW w \in Workers, NEW batch \in SUBSET Jobs, ClaimJobs(w, batch)
      PROVE  UNCHANGED Outbox!vars
  BY <1>6 DEF ClaimJobs, Queue!Claim
<1>7. ASSUME NEW w \in Workers, NEW j \in Jobs, JobStep(w, j)
      PROVE  UNCHANGED Outbox!vars
  BY <1>7 DEF JobStep, Queue!StartHandler, Queue!HandlerSucceeds, Queue!HandlerFails,
              Queue!SettlementThrows, Queue!LeaveHandler
<1>8. ASSUME NEW j \in Jobs, JobLockExpires(j) \/ Discard(j)
      PROVE  UNCHANGED Outbox!vars
  BY <1>8 DEF JobLockExpires, Discard, Queue!LockExpires, Queue!Discard, Queue!memory
<1>9. CASE UNCHANGED vars
  BY <1>9 DEF vars
<1> QED BY <1>1, <1>2, <1>3, <1>4, <1>5, <1>6, <1>7, <1>8, <1>9 DEF Next

LEMMA QueueStep == [Next]_vars => [Queue!Next]_(Queue!vars)
<1> SUFFICES ASSUME [Next]_vars PROVE Queue!Next \/ UNCHANGED Queue!vars
  OBVIOUS
<1>j. ASSUME UNCHANGED <<jobVars, alive>> PROVE UNCHANGED Queue!vars
  BY <1>j DEF jobVars, Queue!vars, Queue!row, Queue!memory
<1>1. ASSUME NEW e \in Events, Append(e) \/ EventLockExpires(e)
      PROVE  UNCHANGED Queue!vars
  BY <1>1, <1>j DEF Append, EventLockExpires, Outbox!Append, Outbox!LockExpires
<1>2. ASSUME NEW w \in Workers, NEW batch \in SUBSET Events, ClaimEvents(w, batch)
      PROVE  UNCHANGED Queue!vars
  BY <1>2, <1>j DEF ClaimEvents, Outbox!Claim
<1>3. ASSUME NEW e \in Events, EnqueueDerived(e), UNCHANGED alive
      PROVE  Queue!Next \/ UNCHANGED Queue!vars
  <2>1. Derived[e] \in SUBSET Jobs
    BY DerivedAssumption
  <2> QED BY <1>3, <1>j, <2>1 DEF EnqueueDerived, Queue!Next
<1>4. ASSUME NEW w \in Workers, NEW e \in Events,
             \/ Dispatch(w, e)
             \/ \E revoked \in BOOLEAN : DispatchUnacknowledged(w, e, revoked)
      PROVE  Queue!Next \/ UNCHANGED Queue!vars
  BY <1>3, <1>4 DEF Dispatch, DispatchUnacknowledged, Outbox!Dispatch,
                    Outbox!DispatchUnacknowledged
<1>5. ASSUME NEW w \in Workers, NEW e \in Events, NEW revoked \in BOOLEAN,
             DispatchFails(w, e, revoked)
      PROVE  UNCHANGED Queue!vars
  BY <1>5, <1>j DEF DispatchFails, Outbox!DispatchFails
<1>6. ASSUME NEW w \in Workers, FailEventThrows(w) PROVE UNCHANGED Queue!vars
  BY <1>6, <1>j DEF FailEventThrows, Outbox!FailEventThrows
<1>7. ASSUME NEW w \in Workers, Crash(w) PROVE Queue!Next
  BY <1>7 DEF Crash, Queue!Next
<1>8. ASSUME NEW w \in Workers, NEW batch \in SUBSET Jobs, ClaimJobs(w, batch)
      PROVE  Queue!Next
  BY <1>8 DEF ClaimJobs, Queue!Next
<1>9. ASSUME NEW w \in Workers, NEW j \in Jobs, JobStep(w, j) PROVE Queue!Next
  BY <1>9 DEF JobStep, Queue!Next
<1>10. ASSUME NEW j \in Jobs, JobLockExpires(j) \/ Discard(j) PROVE Queue!Next
  BY <1>10 DEF JobLockExpires, Discard, Queue!Next
<1>11. CASE UNCHANGED vars
  BY <1>11, <1>j DEF vars
<1> QED BY <1>1, <1>2, <1>4, <1>5, <1>6, <1>7, <1>8, <1>9, <1>10, <1>11 DEF Next

(* The composition implements the outbox: the job queue that shares its    *)
(* workers adds no behaviour to it.                                        *)
THEOREM ImplementsOutbox == Spec => Outbox!Spec
<1>1. Init => Outbox!Init
  BY DEF Init
<1> QED BY <1>1, OutboxStep, PTL DEF Spec, Outbox!Spec

(* The composition implements the job queue, each publication of an event  *)
(* being one transaction that enqueues a batch.                            *)
THEOREM ImplementsQueue == Spec => Queue!Spec
<1>1. Init => Queue!Init
  BY DEF Init
<1> QED BY <1>1, QueueStep, PTL DEF Spec, Queue!Spec

(* What is proved of the components holds of the composition.              *)
LEMMA ComponentInvariants ==
  Spec => [](OutboxFacts!Inv /\ QueueFacts!Inv /\ QueueFacts!RanAfterItsPrerequisite)
<1>1. Spec => OutboxFacts!Spec /\ QueueFacts!Spec
  <2>1. Spec => OutboxFacts!Spec
    BY ImplementsOutbox, SameOutbox, PTL DEF Outbox!Spec, OutboxFacts!Spec
  <2>2. Spec => QueueFacts!Spec
    BY ImplementsQueue, SameQueue, PTL DEF Queue!Spec, QueueFacts!Spec
  <2> QED BY <2>1, <2>2
<1>2. OutboxFacts!Spec => []OutboxFacts!Inv
  BY SameAssumptions, OutboxFacts!Invariance DEF OutboxFacts!OutboxAssumption
<1>3. QueueFacts!Spec => []QueueFacts!Inv /\ []QueueFacts!RanAfterItsPrerequisite
  BY SameAssumptions, QueueFacts!Invariance, QueueFacts!ChainOrder
     DEF QueueFacts!JobAssumption, QueueFacts!BoundAssumption
<1> QED BY <1>1, <1>2, <1>3, PTL

-----------------------------------------------------------------------------
(* What the composition adds.  A job that left a trace depends on the      *)
(* prerequisite its event gave it; the jobs of an event are in the table   *)
(* when it is DISPATCHED, and left no trace when it never was.             *)
Linked ==
  \A e \in Events : \A j \in Derived[e] :
    QueueFacts!Known(j) => dependsOn[j] = Prerequisite[j]

Whole ==
  \A e \in Events : \A j \in Derived[e] :
    /\ eventStatus[e] = "DISPATCHED" => InTable(j)
    /\ eventStatus[e] # "DISPATCHED" /\ doubts[e] = 0 => ~QueueFacts!Known(j)

Inv == OutboxFacts!Inv /\ QueueFacts!Inv

LEMMA DerivedIsJob == ASSUME NEW e \in Events, NEW j \in Derived[e] PROVE j \in Jobs
BY DerivedAssumption

(* Steps other than a publication.                                         *)
LEMMA QuietStep ==
  ASSUME Inv, [Next]_vars, NEW k \in Jobs,
         ~ \E w \in Workers, e \in Events :
             \/ Dispatch(w, e)
             \/ \E revoked \in BOOLEAN : DispatchUnacknowledged(w, e, revoked)
  PROVE  /\ dependsOn'[k] = dependsOn[k]
         /\ QueueFacts!Known(k)' => QueueFacts!Known(k)
         /\ InTable(k) => InTable(k)'
<1> DEFINE Quiet == /\ dependsOn'[k] = dependsOn[k]
                    /\ QueueFacts!Known(k)' => QueueFacts!Known(k)
                    /\ jobStatus[k] # "ABSENT" => jobStatus'[k] # "ABSENT"
<1> SUFFICES Quiet
  BY DEF InTable
<1> HIDE DEF Quiet
<1>i. QueueFacts!Inv
  BY DEF Inv
<1>0. ASSUME \/ \E w \in Workers, batch \in SUBSET Jobs : QueueFacts!Claim(w, batch)
             \/ \E w \in Workers, j \in Jobs :
                  \/ QueueFacts!StartHandler(w, j) \/ QueueFacts!HandlerSucceeds(w, j)
                  \/ QueueFacts!SettlementThrows(w, j)
                  \/ \E revoked \in BOOLEAN : QueueFacts!HandlerFails(w, j, revoked)
             \/ \E j \in Jobs : QueueFacts!LockExpires(j) \/ QueueFacts!Discard(j)
             \/ \E w \in Workers : QueueFacts!Crash(w)
             \/ UNCHANGED QueueFacts!vars
      PROVE  Quiet
  BY <1>0, <1>i, SameAssumptions, QueueFacts!KnownStep
     DEF Quiet, QueueFacts!JobAssumption, QueueFacts!BoundAssumption
<1>j. ASSUME UNCHANGED <<jobVars, alive>> PROVE UNCHANGED QueueFacts!vars
  BY <1>j DEF jobVars, QueueFacts!vars, QueueFacts!row, QueueFacts!memory
<1>1. ASSUME NEW e \in Events, Append(e) \/ EventLockExpires(e) PROVE Quiet
  BY <1>0, <1>1, <1>j DEF Append, EventLockExpires, Outbox!Append, Outbox!LockExpires
<1>2. ASSUME NEW w \in Workers, NEW batch \in SUBSET Events, ClaimEvents(w, batch)
      PROVE  Quiet
  BY <1>0, <1>2, <1>j DEF ClaimEvents, Outbox!Claim
<1>3. ASSUME NEW w \in Workers, NEW e \in Events, NEW revoked \in BOOLEAN,
             DispatchFails(w, e, revoked)
      PROVE  Quiet
  BY <1>0, <1>3, <1>j DEF DispatchFails, Outbox!DispatchFails
<1>4. ASSUME NEW w \in Workers, FailEventThrows(w) PROVE Quiet
  BY <1>0, <1>4, <1>j DEF FailEventThrows, Outbox!FailEventThrows
<1>5. ASSUME NEW w \in Workers, Crash(w) PROVE Quiet
  <2>1. QueueFacts!Crash(w)
    BY <1>5 DEF Crash, Queue!Crash, QueueFacts!Crash, Queue!Fault, QueueFacts!Fault,
                Queue!Unclaimed, QueueFacts!Unclaimed, Queue!row, QueueFacts!row
  <2> QED BY <1>0, <2>1
<1>6. ASSUME NEW w \in Workers, NEW batch \in SUBSET Jobs, ClaimJobs(w, batch) PROVE Quiet
  <2>1. QueueFacts!Claim(w, batch)
    BY <1>6 DEF ClaimJobs, Queue!Claim, QueueFacts!Claim, Queue!Cardinality,
                QueueFacts!Cardinality, Queue!Claimable, QueueFacts!Claimable,
                Queue!OneLane, QueueFacts!OneLane, Queue!Remembered,
                QueueFacts!Remembered, Queue!Unclaimed, QueueFacts!Unclaimed
  <2> QED BY <1>0, <2>1
<1>7. ASSUME NEW w \in Workers, NEW j \in Jobs, JobStep(w, j) PROVE Quiet
  <2> USE DEF JobStep, Queue!Settle, QueueFacts!Settle, Queue!MaySettle,
              QueueFacts!MaySettle, Queue!HoldsAttempt, QueueFacts!HoldsAttempt,
              Queue!HoldsLock, QueueFacts!HoldsLock, Queue!Release, QueueFacts!Release,
              Queue!LeaveHandler, QueueFacts!LeaveHandler, Queue!Unclaimed,
              QueueFacts!Unclaimed, Queue!row, QueueFacts!row
  <2>1. \/ QueueFacts!StartHandler(w, j) \/ QueueFacts!HandlerSucceeds(w, j)
        \/ QueueFacts!SettlementThrows(w, j)
        \/ \E revoked \in BOOLEAN : QueueFacts!HandlerFails(w, j, revoked)
    BY <1>7 DEF Queue!StartHandler, QueueFacts!StartHandler, Queue!Cardinality,
                QueueFacts!Cardinality, Queue!HandlerSucceeds, QueueFacts!HandlerSucceeds,
                Queue!HandlerFails, QueueFacts!HandlerFails, Queue!FailureStatus,
                QueueFacts!FailureStatus, Queue!SettlementThrows,
                QueueFacts!SettlementThrows, Queue!Fault, QueueFacts!Fault
  <2> QED BY <1>0, <2>1
<1>8. ASSUME NEW j \in Jobs, JobLockExpires(j) \/ Discard(j) PROVE Quiet
  <2>1. QueueFacts!LockExpires(j) \/ QueueFacts!Discard(j)
    BY <1>8 DEF JobLockExpires, Discard, Queue!LockExpires, QueueFacts!LockExpires,
                Queue!Abandoned, QueueFacts!Abandoned, Queue!InMemory,
                QueueFacts!InMemory, Queue!Fault, QueueFacts!Fault, Queue!memory,
                QueueFacts!memory, Queue!Discard, QueueFacts!Discard
  <2> QED BY <1>0, <2>1
<1>9. CASE UNCHANGED vars
  BY <1>0, <1>9, <1>j DEF vars
<1> QED BY <1>1, <1>2, <1>3, <1>4, <1>5, <1>6, <1>7, <1>8, <1>9 DEF Next

(* A publication.                                                          *)
LEMMA PublicationStep ==
  ASSUME Inv, NEW e \in Events, EnqueueDerived(e), UNCHANGED alive, NEW k \in Jobs
  PROVE  /\ InTable(k) => InTable(k)'
         /\ k \in Derived[e] =>
              /\ InTable(k)'
              /\ \/ dependsOn'[k] = dependsOn[k] /\ InTable(k)
                 \/ dependsOn'[k] = Queue!ResolvedDependency(k, Derived[e])
<1> USE DEF InTable, QueueFacts!Known, QueueFacts!InMemory
<1>1. CASE Queue!Enqueue(Derived[e])
  BY <1>1 DEF Queue!Enqueue, Queue!memory
<1>2. CASE UNCHANGED jobVars /\ \A j \in Derived[e] : jobStatus[j] # "ABSENT"
  BY <1>2 DEF jobVars
<1> QED BY <1>1, <1>2 DEF EnqueueDerived

LEMMA PublicationElsewhere ==
  ASSUME NEW e \in Events, EnqueueDerived(e), UNCHANGED alive,
         NEW k \in Jobs, k \notin Derived[e]
  PROVE  /\ dependsOn'[k] = dependsOn[k]
         /\ QueueFacts!Known(k)' => QueueFacts!Known(k)
         /\ InTable(k) => InTable(k)'
<1> USE DEF InTable, QueueFacts!Known, QueueFacts!InMemory
<1>1. CASE Queue!Enqueue(Derived[e])
  BY <1>1 DEF Queue!Enqueue, Queue!memory
<1>2. CASE UNCHANGED jobVars
  BY <1>2 DEF jobVars
<1> QED BY <1>1, <1>2 DEF EnqueueDerived

LEMMA StepLinked == ASSUME Inv, Linked, [Next]_vars PROVE Linked'
<1> SUFFICES ASSUME NEW e \in Events, NEW j \in Derived[e], QueueFacts!Known(j)'
             PROVE  dependsOn'[j] = Prerequisite[j]
  BY DEF Linked
<1>j. j \in Jobs
  BY DerivedIsJob
<1>1. ASSUME NEW w \in Workers, NEW f \in Events,
             \/ Dispatch(w, f)
             \/ \E revoked \in BOOLEAN : DispatchUnacknowledged(w, f, revoked)
      PROVE  dependsOn'[j] = Prerequisite[j]
  <2>1. EnqueueDerived(f) /\ UNCHANGED alive
    BY <1>1 DEF Dispatch, DispatchUnacknowledged, Outbox!Dispatch,
                Outbox!DispatchUnacknowledged
  <2>2. CASE j \in Derived[f]
    <3>1. Prerequisite[j] \in Derived[f] \cup {None}
      BY <2>2, KeyAssumption
    <3>2. Queue!ResolvedDependency(j, Derived[f]) = Prerequisite[j]
      BY <3>1 DEF Queue!ResolvedDependency
    <3>3. InTable(j) => dependsOn[j] = Prerequisite[j]
      BY DEF Linked, InTable, QueueFacts!Known
    <3> QED BY <1>j, <2>1, <2>2, <3>2, <3>3, PublicationStep
  <2>3. CASE j \notin Derived[f]
    BY <1>j, <2>1, <2>3, PublicationElsewhere DEF Linked
  <2> QED BY <2>2, <2>3
<1>2. CASE ~ \E w \in Workers, f \in Events :
             \/ Dispatch(w, f)
             \/ \E revoked \in BOOLEAN : DispatchUnacknowledged(w, f, revoked)
  BY <1>j, <1>2, QuietStep DEF Linked
<1> QED BY <1>1, <1>2

LEMMA StepWhole == ASSUME Inv, Whole, [Next]_vars PROVE Whole'
<1> SUFFICES ASSUME NEW e \in Events, NEW j \in Derived[e]
             PROVE  /\ eventStatus'[e] = "DISPATCHED" => InTable(j)'
                    /\ eventStatus'[e] # "DISPATCHED" /\ doubts'[e] = 0
                         => ~QueueFacts!Known(j)'
  BY DEF Whole
<1>j. j \in Jobs
  BY DerivedIsJob
<1>t. eventStatus \in [Events -> Outbox!Status] /\ doubts \in [Events -> Nat]
  BY DEF Inv, OutboxFacts!Inv, OutboxFacts!TypeOK, OutboxFacts!Status, Outbox!Status
<1>k. doubts'[e] = 0 =>
        /\ doubts[e] = 0
        /\ eventStatus[e] = "DISPATCHED" => eventStatus'[e] = "DISPATCHED"
  <2>1. [OutboxFacts!Next]_(OutboxFacts!vars)
    BY OutboxStep, SameOutbox
  <2> QED BY <2>1, SameAssumptions, OutboxFacts!DispatchedKept
          DEF Inv, OutboxFacts!OutboxAssumption
<1>1. ASSUME NEW w \in Workers, NEW f \in Events,
             \/ Dispatch(w, f)
             \/ \E revoked \in BOOLEAN : DispatchUnacknowledged(w, f, revoked)
      PROVE  /\ eventStatus'[e] = "DISPATCHED" => InTable(j)'
             /\ eventStatus'[e] # "DISPATCHED" /\ doubts'[e] = 0
                  => ~QueueFacts!Known(j)'
  <2>1. EnqueueDerived(f) /\ UNCHANGED alive
    BY <1>1 DEF Dispatch, DispatchUnacknowledged, Outbox!Dispatch,
                Outbox!DispatchUnacknowledged
  <2>2. CASE e = f
    <3>1. InTable(j)'
      BY <1>j, <2>1, <2>2, PublicationStep
    <3>2. eventStatus'[e] = "DISPATCHED" \/ doubts'[e] = doubts[e] + 1
      BY <1>1, <1>t, <2>2 DEF Dispatch, DispatchUnacknowledged, Outbox!Dispatch,
                              Outbox!DispatchUnacknowledged, Outbox!Release
    <3> QED BY <1>t, <3>1, <3>2
  <2>3. CASE e # f
    <3>1. j \notin Derived[f]
      BY <2>3, KeyAssumption
    <3>2. eventStatus'[e] = eventStatus[e]
      BY <1>1, <1>t, <2>3 DEF Dispatch, DispatchUnacknowledged, Outbox!Dispatch,
                              Outbox!DispatchUnacknowledged, Outbox!Release
    <3> QED BY <1>j, <1>k, <2>1, <3>1, <3>2, PublicationElsewhere DEF Whole
  <2> QED BY <2>2, <2>3
<1>2. CASE ~ \E w \in Workers, f \in Events :
             \/ Dispatch(w, f)
             \/ \E revoked \in BOOLEAN : DispatchUnacknowledged(w, f, revoked)
  <2>1. eventStatus'[e] = "DISPATCHED" => eventStatus[e] = "DISPATCHED"
    <3>1. ASSUME NEW g \in Events, Append(g) PROVE eventStatus'[e] # "DISPATCHED" \/ eventStatus'[e] = eventStatus[e]
      BY <3>1, <1>t DEF Append, Outbox!Append
    <3>2. ASSUME NEW w \in Workers, NEW g \in Events, NEW revoked \in BOOLEAN,
                 DispatchFails(w, g, revoked)
          PROVE  eventStatus'[e] # "DISPATCHED" \/ eventStatus'[e] = eventStatus[e]
      BY <3>2, <1>t DEF DispatchFails, Outbox!DispatchFails, Outbox!Release,
                        Outbox!FailureStatus
    <3>3. ASSUME \/ \E g \in Events : EventLockExpires(g)
                 \/ \E w \in Workers, batch \in SUBSET Events : ClaimEvents(w, batch)
                 \/ \E w \in Workers : FailEventThrows(w) \/ Crash(w)
                 \/ \E w \in Workers, batch \in SUBSET Jobs : ClaimJobs(w, batch)
                 \/ \E w \in Workers, k \in Jobs : JobStep(w, k)
                 \/ \E k \in Jobs : JobLockExpires(k) \/ Discard(k)
                 \/ UNCHANGED vars
          PROVE  eventStatus' = eventStatus
      BY <3>3 DEF EventLockExpires, Outbox!LockExpires, ClaimEvents, Outbox!Claim,
                  FailEventThrows, Outbox!FailEventThrows, Crash, Outbox!Crash,
                  ClaimJobs, JobStep, JobLockExpires, Discard, vars, eventVars
    <3> QED BY <1>2, <3>1, <3>2, <3>3 DEF Next
  <2>2. /\ QueueFacts!Known(j)' => QueueFacts!Known(j)
        /\ InTable(j) => InTable(j)'
    BY <1>j, <1>2, QuietStep
  <2> QED BY <1>k, <2>1, <2>2 DEF Whole
<1> QED BY <1>1, <1>2

-----------------------------------------------------------------------------
LEMMA InitLinkedWhole == Init => Linked /\ Whole
BY DerivedIsJob
   DEF Init, Outbox!Init, Queue!Init, Linked, Whole, QueueFacts!Known, QueueFacts!InMemory

LEMMA LinkedWhole == Spec => [](Linked /\ Whole)
<1>1. Inv /\ (Linked /\ Whole) /\ [Next]_vars => (Linked /\ Whole)'
  BY StepLinked, StepWhole
<1>2. OutboxFacts!Inv /\ QueueFacts!Inv => Inv
  BY DEF Inv
<1> QED BY <1>1, <1>2, InitLinkedWhole, ComponentInvariants, PTL DEF Spec

(* No attempt to dispatch an event leaves a part of its jobs in the queue. *)
THEOREM WholePublication == Spec => []PublicationIsWhole
<1>1. Whole => PublicationIsWhole
  BY DEF Whole, PublicationIsWhole, InTable, QueueFacts!Known
<1> QED BY <1>1, LinkedWhole, PTL

(* A derived job has run only after the prerequisite that its event gave   *)
(* it, which stays completed, across dispatchers and workers that crash,   *)
(* are overtaken or repeat each other.                                     *)
THEOREM ChainOrder == Spec => []ChainRunsInOrder
<1>1. Linked /\ QueueFacts!RanAfterItsPrerequisite => ChainRunsInOrder
  <2> SUFFICES ASSUME Linked, QueueFacts!RanAfterItsPrerequisite,
                      NEW e \in Events, NEW j \in Derived[e],
                      Prerequisite[j] # None, Queue!Once(Prerequisite[j]), serial[j] > 0
               PROVE  jobStatus[Prerequisite[j]] = "COMPLETED"
    BY DEF ChainRunsInOrder
  <2>1. dependsOn[j] = Prerequisite[j]
    BY DEF Linked, QueueFacts!Known
  <2> QED BY <2>1, DerivedIsJob
          DEF QueueFacts!RanAfterItsPrerequisite, Queue!Once, QueueFacts!Once
<1> QED BY <1>1, LinkedWhole, ComponentInvariants, PTL

(* A fenced job that has ended stays ended when its event is published a   *)
(* second time.                                                            *)
THEOREM NothingRepeated == Spec => RepublicationRepeatsNothing
<1> DEFINE A == \A j \in Jobs :
       Queue!Once(j) /\ jobStatus[j] \in Queue!Terminal
         => jobStatus'[j] \in Queue!Terminal
<1>1. QueueFacts!Inv /\ [Next]_vars => [A]_vars
  <2> SUFFICES ASSUME QueueFacts!Inv, [Next]_vars PROVE A
    OBVIOUS
  <2>1. [QueueFacts!Next]_(QueueFacts!vars)
    BY QueueStep, SameQueue
  <2> QED BY <2>1, SameAssumptions, QueueFacts!SettledStays
          DEF QueueFacts!JobAssumption, QueueFacts!BoundAssumption, Queue!Once,
              QueueFacts!Once, Queue!Terminal, QueueFacts!Terminal
<1> HIDE DEF A
<1>2. Spec => [][A]_vars
  BY <1>1, ComponentInvariants, PTL DEF Spec
<1> QED BY <1>2 DEF A, RepublicationRepeatsNothing
=============================================================================
