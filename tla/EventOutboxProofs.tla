-------------------------- MODULE EventOutboxProofs --------------------------
(***************************************************************************)
(* Proofs about EventOutbox, for any events, workers and bounds.           *)
(*                                                                         *)
(* Each way in which an event may still be published is counted: one for   *)
(* every dispatcher that has it in its batch, and one for the row itself   *)
(* when it can be claimed, or will be once its lock expires.  A claim      *)
(* moves the count from the row to the worker; only a lock that expires in *)
(* use, or a commit reported as a failure, adds to it.                     *)
(***************************************************************************)
EXTENDS EventOutbox, FiniteSetTheorems, TLAPS

Holders(e) == {w \in Workers : e \in claimed[w]}
Count(e) == Cardinality(Holders(e))

Claims(e) ==
  IF status[e] = "PENDING" /\ (lock[e] # "fresh" \/ Count(e) = 0) THEN 1 ELSE 0

AbsentIsUnknown(e) ==
  status[e] = "ABSENT" => published[e] = 0 /\ Count(e) = 0
DispatchedIsPublished(e) ==
  status[e] = "DISPATCHED" => published[e] >= 1
Budget(e) ==
  published[e] + Count(e) + Claims(e) <= 1 + doubts[e]
Unpublished(e) ==
  doubts[e] = 0 /\ status[e] # "DISPATCHED" => published[e] = 0

EventInv(e) ==
  /\ AbsentIsUnknown(e)
  /\ DispatchedIsPublished(e)
  /\ Budget(e)
  /\ Unpublished(e)

Inv == TypeOK /\ \A e \in Events : EventInv(e)

-----------------------------------------------------------------------------
(* Counting the holders of an event.                                       *)
LEMMA CountType ==
  ASSUME TypeOK, NEW e \in Events
  PROVE  /\ IsFiniteSet(Holders(e))
         /\ Count(e) \in Nat
         /\ Abandoned(e) <=> Count(e) = 0
<1>1. IsFiniteSet(Holders(e))
  BY OutboxAssumption, FS_Subset DEF Holders
<1>2. Count(e) \in Nat
  BY <1>1, FS_CardinalityType DEF Count
<1>3. Count(e) = 0 <=> Holders(e) = {}
  BY <1>1, FS_EmptySet DEF Count
<1>4. Abandoned(e) <=> Holders(e) = {}
  BY DEF Abandoned, Holders
<1> QED BY <1>1, <1>2, <1>3, <1>4

(* A held event has been counted at least once.                            *)
LEMMA HeldIsCounted ==
  ASSUME TypeOK, NEW w \in Workers, NEW e \in claimed[w]
  PROVE  e \in Events /\ Count(e) \in Nat \ {0}
<1>1. e \in Events
  BY DEF TypeOK
<1>2. ~Abandoned(e)
  BY DEF Abandoned
<1> QED BY <1>1, <1>2, CountType

(* Forgetting some events takes one holder from each that was held.        *)
LEMMA ForgetCount ==
  ASSUME TypeOK, NEW w \in Workers, NEW events, Forget(w, events), NEW e \in Events
  PROVE  Count(e)' = IF e \in events /\ e \in claimed[w] THEN Count(e) - 1 ELSE Count(e)
<1>1. \A v \in Workers : claimed'[v] = IF v = w THEN claimed[v] \ events ELSE claimed[v]
  BY DEF Forget, TypeOK
<1>2. CASE e \in events /\ e \in claimed[w]
  <2>1. Holders(e)' = Holders(e) \ {w}
    BY <1>1, <1>2 DEF Holders
  <2>2. w \in Holders(e)
    BY <1>2 DEF Holders
  <2>3. Cardinality(Holders(e) \ {w}) = Cardinality(Holders(e)) - 1
    BY <2>2, CountType, FS_RemoveElement
  <2> QED BY <1>2, <2>1, <2>3 DEF Count
<1>3. CASE ~(e \in events /\ e \in claimed[w])
  <2>1. Holders(e)' = Holders(e)
    BY <1>1, <1>3 DEF Holders
  <2> QED BY <1>3, <2>1 DEF Count
<1> QED BY <1>2, <1>3

(* A claim adds one holder to each event of the batch.                     *)
LEMMA ClaimCount ==
  ASSUME TypeOK, NEW w \in Workers, NEW batch \in SUBSET Events, Claim(w, batch),
         NEW e \in Events
  PROVE  Count(e)' = IF e \in batch THEN Count(e) + 1 ELSE Count(e)
<1>1. \A v \in Workers : claimed'[v] = IF v = w THEN batch ELSE claimed[v]
  BY DEF Claim, TypeOK
<1>2. claimed[w] = {}
  BY DEF Claim
<1>3. CASE e \in batch
  <2>1. Holders(e)' = Holders(e) \cup {w}
    BY <1>1, <1>3 DEF Holders
  <2>2. w \notin Holders(e)
    BY <1>2 DEF Holders
  <2>3. Cardinality(Holders(e) \cup {w}) = Cardinality(Holders(e)) + 1
    BY <2>2, CountType, FS_AddElement
  <2> QED BY <1>3, <2>1, <2>3 DEF Count
<1>4. CASE e \notin batch
  <2>1. Holders(e)' = Holders(e)
    BY <1>1, <1>2, <1>4 DEF Holders
  <2> QED BY <1>4, <2>1 DEF Count
<1> QED BY <1>3, <1>4

-----------------------------------------------------------------------------
(* Type correctness.                                                       *)
LEMMA OutcomeType ==
  ASSUME NEW w, NEW e, NEW revoked
  PROVE  FailureStatus(w, e, revoked) \in {"FAILED", "PENDING"}
BY DEF FailureStatus

LEMMA ForgetType ==
  ASSUME TypeOK, NEW w \in Workers, NEW events, Forget(w, events)
  PROVE  /\ claimed' \in [Workers -> SUBSET Events]
         /\ seen' \in [Workers -> [Events -> Nat]]
<1>1. claimed' \in [Workers -> SUBSET Events]
  BY DEF Forget, TypeOK
<1>2. [e \in Events |-> IF e \in events THEN 0 ELSE seen[w][e]] \in [Events -> Nat]
  BY DEF TypeOK
<1>3. seen' \in [Workers -> [Events -> Nat]]
  BY <1>2 DEF Forget, TypeOK
<1> QED BY <1>1, <1>3

LEMMA ReleaseEffect ==
  ASSUME TypeOK, NEW e \in Events, NEW outcome \in Status, Release(e, outcome)
  PROVE  /\ status' \in [Events -> Status]
         /\ lock' \in [Events -> Lock]
         /\ attempts' = attempts
         /\ \A k \in Events :
              /\ status'[k] = IF k = e THEN outcome ELSE status[k]
              /\ lock'[k] = IF k = e THEN "none" ELSE lock[k]
              /\ lock'[k] # "none" => status'[k] = "PENDING"
BY DEF Release, TypeOK, Lock

LEMMA TypeCorrectStep ==
  ASSUME TypeOK, [Next]_vars
  PROVE  TypeOK'
<1> USE OutboxAssumption
<1>1. ASSUME NEW e \in Events, Append(e) PROVE TypeOK'
  BY <1>1 DEF Append, TypeOK, Status, Lock
<1>2. ASSUME NEW w \in Workers, NEW batch \in SUBSET Events, Claim(w, batch)
      PROVE TypeOK'
  <2>1. lock' \in [Events -> Lock]
    BY <1>2 DEF Claim, TypeOK, Lock
  <2>2. attempts' \in [Events -> Nat]
    BY <1>2 DEF Claim, TypeOK
  <2>3. claimed' \in [Workers -> SUBSET Events]
    BY <1>2 DEF Claim, TypeOK
  <2>4. [e \in Events |-> IF e \in batch THEN attempts[e] + 1 ELSE 0] \in [Events -> Nat]
    BY DEF TypeOK
  <2>5. seen' \in [Workers -> [Events -> Nat]]
    BY <1>2, <2>4 DEF Claim, TypeOK
  <2>6. \A e \in Events : lock'[e] # "none" => status'[e] = "PENDING"
    BY <1>2 DEF Claim, Claimable, TypeOK
  <2> QED BY <1>2, <2>1, <2>2, <2>3, <2>5, <2>6 DEF Claim, TypeOK
<1>3. ASSUME NEW w \in Workers, NEW e \in Events, Dispatch(w, e) PROVE TypeOK'
  <2>1. published' \in [Events -> Nat]
    BY <1>3 DEF Dispatch, TypeOK
  <2>2. Release(e, "DISPATCHED") /\ "DISPATCHED" \in Status /\ Forget(w, {e})
    BY <1>3 DEF Dispatch, Status
  <2> QED BY <1>3, <2>1, <2>2, ReleaseEffect, ForgetType DEF Dispatch, TypeOK
<1>4. ASSUME NEW w \in Workers, NEW e \in Events, NEW revoked \in BOOLEAN,
             DispatchFails(w, e, revoked)
      PROVE TypeOK'
  <2>1. Release(e, FailureStatus(w, e, revoked)) /\ Forget(w, {e})
    BY <1>4 DEF DispatchFails
  <2>2. FailureStatus(w, e, revoked) \in Status
    BY OutcomeType DEF Status
  <2> QED BY <1>4, <2>1, <2>2, ReleaseEffect, ForgetType DEF DispatchFails, TypeOK
<1>5. ASSUME NEW w \in Workers, NEW e \in Events, NEW revoked \in BOOLEAN,
             DispatchUnacknowledged(w, e, revoked)
      PROVE TypeOK'
  <2>1. Release(e, FailureStatus(w, e, revoked)) /\ Forget(w, {e})
    BY <1>5 DEF DispatchUnacknowledged
  <2>2. FailureStatus(w, e, revoked) \in Status
    BY OutcomeType DEF Status
  <2>3. published' \in [Events -> Nat] /\ doubts' \in [Events -> Nat]
    BY <1>5 DEF DispatchUnacknowledged, TypeOK
  <2>4. faults' \in 0 .. MaxFaults
    BY <1>5 DEF DispatchUnacknowledged, Fault, TypeOK
  <2> QED BY <1>5, <2>1, <2>2, <2>3, <2>4, ReleaseEffect, ForgetType
          DEF DispatchUnacknowledged, TypeOK
<1>6. ASSUME NEW w \in Workers, FailEventThrows(w) PROVE TypeOK'
  <2>1. faults' \in 0 .. MaxFaults
    BY <1>6 DEF FailEventThrows, Fault, TypeOK
  <2> QED BY <1>6, <2>1, ForgetType DEF FailEventThrows, TypeOK
<1>7. ASSUME NEW e \in Events, LockExpires(e) PROVE TypeOK'
  <2>1. faults' \in 0 .. MaxFaults /\ doubts' \in [Events -> Nat]
    BY <1>7 DEF LockExpires, Fault, TypeOK
  <2>2. lock' \in [Events -> Lock]
    BY <1>7 DEF LockExpires, TypeOK, Lock
  <2>3. \A k \in Events : lock'[k] # "none" => status'[k] = "PENDING"
    BY <1>7 DEF LockExpires, TypeOK
  <2> QED BY <1>7, <2>1, <2>2, <2>3 DEF LockExpires, TypeOK
<1>8. ASSUME NEW w \in Workers, Crash(w) PROVE TypeOK'
  <2>1. faults' \in 0 .. MaxFaults
    BY <1>8 DEF Crash, Fault, TypeOK
  <2> QED BY <1>8, <2>1, ForgetType DEF Crash, TypeOK
<1>9. CASE UNCHANGED vars
  BY <1>9 DEF vars, TypeOK
<1> QED BY <1>1, <1>2, <1>3, <1>4, <1>5, <1>6, <1>7, <1>8, <1>9 DEF Next

-----------------------------------------------------------------------------
(* What may happen to one event in a step.                                 *)
LEMMA EventStep ==
  ASSUME Inv, [Next]_vars, NEW k \in Events
  PROVE  EventInv(k)'
<1> DEFINE n == Count(k)
<1>t. /\ TypeOK /\ EventInv(k)
      /\ status[k] \in Status /\ lock[k] \in Lock
      /\ published[k] \in Nat /\ doubts[k] \in Nat
  BY DEF Inv, TypeOK
<1>n. n \in Nat /\ (Abandoned(k) <=> n = 0)
  BY <1>t, CountType
<1> HIDE DEF n
<1> USE DEF EventInv, AbsentIsUnknown, DispatchedIsPublished, Budget, Unpublished, Claims
<1>1. ASSUME NEW e \in Events, Append(e) PROVE EventInv(k)'
  <2>1. n' = n
    BY <1>1 DEF Append, n, Count, Holders
  <2>2. /\ status'[k] = IF k = e THEN "PENDING" ELSE status[k]
        /\ k = e => status[k] = "ABSENT"
        /\ published' = published /\ doubts' = doubts /\ lock' = lock
    BY <1>1, <1>t DEF Append, TypeOK
  <2> QED BY <1>t, <1>n, <2>1, <2>2 DEF n
<1>2. ASSUME NEW w \in Workers, NEW batch \in SUBSET Events, Claim(w, batch)
      PROVE EventInv(k)'
  <2>1. n' = IF k \in batch THEN n + 1 ELSE n
    BY <1>2, <1>t, ClaimCount DEF n
  <2>2. /\ status' = status /\ published' = published /\ doubts' = doubts
        /\ lock'[k] = IF k \in batch THEN "fresh" ELSE lock[k]
        /\ k \in batch => status[k] = "PENDING" /\ lock[k] # "fresh"
    BY <1>2 DEF Claim, Claimable
  <2> QED BY <1>t, <1>n, <2>1, <2>2 DEF n
<1>3. ASSUME NEW w \in Workers, NEW e \in Events, Dispatch(w, e) PROVE EventInv(k)'
  <2>1. Forget(w, {e}) /\ Release(e, "DISPATCHED") /\ "DISPATCHED" \in Status
    BY <1>3 DEF Dispatch, Status
  <2>2. /\ n' = IF k = e THEN n - 1 ELSE n
        /\ k = e => n # 0
    BY <1>3, <1>t, <2>1, ForgetCount, HeldIsCounted DEF Dispatch, n
  <2>3. /\ status'[k] = IF k = e THEN "DISPATCHED" ELSE status[k]
        /\ lock'[k] = IF k = e THEN "none" ELSE lock[k]
    BY <1>t, <2>1, ReleaseEffect
  <2>4. /\ published'[k] = IF k = e THEN published[k] + 1 ELSE published[k]
        /\ doubts' = doubts
    BY <1>3, <1>t DEF Dispatch, TypeOK
  <2> QED BY <1>t, <1>n, <2>2, <2>3, <2>4 DEF n
<1>4. ASSUME NEW w \in Workers, NEW e \in Events, NEW revoked \in BOOLEAN,
             DispatchFails(w, e, revoked)
      PROVE EventInv(k)'
  <2> DEFINE outcome == FailureStatus(w, e, revoked)
  <2>1. /\ Forget(w, {e}) /\ Release(e, outcome)
        /\ outcome \in {"FAILED", "PENDING"} /\ outcome \in Status
    BY <1>4, OutcomeType DEF DispatchFails, Status
  <2> HIDE DEF outcome
  <2>2. /\ n' = IF k = e THEN n - 1 ELSE n
        /\ k = e => n # 0
    BY <1>4, <1>t, <2>1, ForgetCount, HeldIsCounted DEF DispatchFails, n
  <2>3. /\ status'[k] = IF k = e THEN outcome ELSE status[k]
        /\ lock'[k] = IF k = e THEN "none" ELSE lock[k]
    BY <1>t, <2>1, ReleaseEffect
  <2>4. published' = published /\ doubts' = doubts
    BY <1>4 DEF DispatchFails
  <2> QED BY <1>t, <1>n, <2>1, <2>2, <2>3, <2>4 DEF n
<1>5. ASSUME NEW w \in Workers, NEW e \in Events, NEW revoked \in BOOLEAN,
             DispatchUnacknowledged(w, e, revoked)
      PROVE EventInv(k)'
  <2> DEFINE outcome == FailureStatus(w, e, revoked)
  <2>1. /\ Forget(w, {e}) /\ Release(e, outcome)
        /\ outcome \in {"FAILED", "PENDING"} /\ outcome \in Status
    BY <1>5, OutcomeType DEF DispatchUnacknowledged, Status
  <2> HIDE DEF outcome
  <2>2. /\ n' = IF k = e THEN n - 1 ELSE n
        /\ k = e => n # 0
    BY <1>5, <1>t, <2>1, ForgetCount, HeldIsCounted DEF DispatchUnacknowledged, n
  <2>3. /\ status'[k] = IF k = e THEN outcome ELSE status[k]
        /\ lock'[k] = IF k = e THEN "none" ELSE lock[k]
    BY <1>t, <2>1, ReleaseEffect
  <2>4. /\ published'[k] = IF k = e THEN published[k] + 1 ELSE published[k]
        /\ doubts'[k] = IF k = e THEN doubts[k] + 1 ELSE doubts[k]
    BY <1>5, <1>t DEF DispatchUnacknowledged, TypeOK
  <2> QED BY <1>t, <1>n, <2>1, <2>2, <2>3, <2>4 DEF n
<1>6. ASSUME NEW w \in Workers, FailEventThrows(w) PROVE EventInv(k)'
  <2>1. n' = n \/ (n' = n - 1 /\ n # 0)
    BY <1>6, <1>t, ForgetCount, HeldIsCounted DEF FailEventThrows, n
  <2>2. UNCHANGED <<status, lock, published, doubts>>
    BY <1>6 DEF FailEventThrows
  <2> QED BY <1>t, <1>n, <2>1, <2>2 DEF n
<1>7. ASSUME NEW e \in Events, LockExpires(e) PROVE EventInv(k)'
  <2>1. n' = n
    BY <1>7 DEF LockExpires, n, Count, Holders
  <2>2. /\ status' = status /\ published' = published
        /\ lock'[k] = IF k = e THEN "stale" ELSE lock[k]
        /\ k = e => lock[k] = "fresh"
        /\ doubts'[k] = IF k = e /\ n # 0 THEN doubts[k] + 1 ELSE doubts[k]
    BY <1>7, <1>t, <1>n DEF LockExpires, TypeOK
  <2> QED BY <1>t, <1>n, <2>1, <2>2 DEF n
<1>8. ASSUME NEW w \in Workers, Crash(w) PROVE EventInv(k)'
  <2>1. n' = n \/ (n' = n - 1 /\ n # 0)
    BY <1>8, <1>t, ForgetCount, HeldIsCounted DEF Crash, n
  <2>2. UNCHANGED <<status, lock, published, doubts>>
    BY <1>8 DEF Crash
  <2> QED BY <1>t, <1>n, <2>1, <2>2 DEF n
<1>9. CASE UNCHANGED vars
  <2>1. n' = n
    BY <1>9 DEF vars, n, Count, Holders
  <2> QED BY <1>9, <1>t, <1>n, <2>1 DEF n, vars
<1> QED BY <1>1, <1>2, <1>3, <1>4, <1>5, <1>6, <1>7, <1>8, <1>9 DEF Next

LEMMA InvInit == Init => Inv
<1> SUFFICES ASSUME Init PROVE Inv
  OBVIOUS
<1>1. TypeOK
  BY OutboxAssumption DEF Init, TypeOK, Status, Lock
<1>2. ASSUME NEW e \in Events PROVE EventInv(e)
  <2>1. Abandoned(e) /\ status[e] = "ABSENT" /\ published[e] = 0 /\ doubts[e] = 0
    BY DEF Init, Abandoned
  <2>2. Count(e) = 0
    BY <1>1, <2>1, CountType
  <2> QED BY <2>1, <2>2
       DEF EventInv, AbsentIsUnknown, DispatchedIsPublished, Budget, Unpublished, Claims
<1> QED BY <1>1, <1>2 DEF Inv

(* The inductive invariant holds in every reachable state.                 *)
THEOREM Invariance == Spec => []Inv
<1>1. Inv /\ [Next]_vars => Inv'
  BY TypeCorrectStep, EventStep DEF Inv
<1> QED BY <1>1, InvInit, PTL DEF Spec

(* The variables keep their types, and a row is locked only while it is    *)
(* PENDING: every write that ends a claim gives the lock back.             *)
THEOREM TypeCorrect == Spec => []TypeOK
<1>1. Inv => TypeOK
  BY DEF Inv
<1> QED BY <1>1, Invariance, PTL

(* However many workers crash, retry and overtake each other, an event is  *)
(* published at most once more than there were doubts about it.            *)
THEOREM PublicationBound == Spec => []PublishedOnce
<1>1. Inv => PublishedOnce
  <2> SUFFICES ASSUME Inv, NEW e \in Events PROVE published[e] <= 1 + doubts[e]
    BY DEF PublishedOnce
  <2>1. Count(e) \in Nat /\ Claims(e) \in {0, 1} /\ Budget(e)
    BY CountType DEF Inv, EventInv, Claims
  <2>2. published[e] \in Nat /\ doubts[e] \in Nat
    BY DEF Inv, TypeOK
  <2> QED BY <2>1, <2>2 DEF Budget
<1> QED BY <1>1, Invariance, PTL

(* An event about which there is no doubt is unpublished unless it is      *)
(* DISPATCHED.                                                             *)
THEOREM NothingHalfDispatched == Spec => []UnsettledIsUnpublished
<1>1. Inv => UnsettledIsUnpublished
  BY DEF Inv, EventInv, Unpublished, UnsettledIsUnpublished
<1> QED BY <1>1, Invariance, PTL

(* What a step may do to an event that is DISPATCHED and not in doubt.      *)
LEMMA DispatchedKept ==
  ASSUME Inv, [Next]_vars, NEW k \in Events, doubts'[k] = 0
  PROVE  /\ doubts[k] = 0
         /\ status[k] = "DISPATCHED" => status'[k] = "DISPATCHED"
<1>d. doubts[k] = 0
  <2>1. doubts \in [Events -> Nat]
    BY DEF Inv, TypeOK
  <2>2. doubts' = doubts \/ \E e \in Events : doubts' = [doubts EXCEPT ![e] = @ + 1]
    BY DEF Next, vars, Append, Claim, Dispatch, DispatchFails, DispatchUnacknowledged,
           FailEventThrows, LockExpires, Crash
  <2> QED BY <2>1, <2>2
<1> SUFFICES ASSUME Next, status[k] = "DISPATCHED" PROVE status'[k] = "DISPATCHED"
  BY <1>d DEF vars
<1>t. TypeOK /\ published[k] \in Nat /\ doubts[k] \in Nat
  BY DEF Inv, TypeOK
<1>n. Count(k) \in Nat
  BY <1>t, CountType
<1>0. doubts[k] = 0 => Count(k) = 0
  BY <1>t, <1>n DEF Inv, EventInv, DispatchedIsPublished, Budget, Claims
<1>1. ASSUME NEW e \in Events, Append(e) PROVE status'[k] = "DISPATCHED"
  BY <1>1, <1>t DEF Append, TypeOK
<1>2. ASSUME NEW w \in Workers, NEW batch \in SUBSET Events, Claim(w, batch)
      PROVE status'[k] = "DISPATCHED"
  BY <1>2 DEF Claim
<1>3. ASSUME NEW w \in Workers, NEW e \in Events, Dispatch(w, e)
      PROVE status'[k] = "DISPATCHED"
  BY <1>3, <1>t DEF Dispatch, Release, TypeOK
<1>4. ASSUME NEW w \in Workers, NEW e \in Events, NEW revoked \in BOOLEAN,
             DispatchFails(w, e, revoked)
      PROVE status'[k] = "DISPATCHED"
  <2>1. doubts[k] = 0 /\ e \in claimed[w]
    BY <1>4 DEF DispatchFails
  <2>2. k # e
    BY <2>1, <1>t, <1>0, HeldIsCounted
  <2> QED BY <1>4, <1>t, <2>2 DEF DispatchFails, Release, TypeOK
<1>5. ASSUME NEW w \in Workers, NEW e \in Events, NEW revoked \in BOOLEAN,
             DispatchUnacknowledged(w, e, revoked)
      PROVE status'[k] = "DISPATCHED"
  <2>1. k # e
    BY <1>5, <1>t DEF DispatchUnacknowledged, TypeOK
  <2> QED BY <1>5, <1>t, <2>1 DEF DispatchUnacknowledged, Release, TypeOK
<1>6. ASSUME NEW w \in Workers, FailEventThrows(w) PROVE status'[k] = "DISPATCHED"
  BY <1>6 DEF FailEventThrows
<1>7. ASSUME NEW e \in Events, LockExpires(e) PROVE status'[k] = "DISPATCHED"
  BY <1>7 DEF LockExpires
<1>8. ASSUME NEW w \in Workers, Crash(w) PROVE status'[k] = "DISPATCHED"
  BY <1>8 DEF Crash
<1> QED BY <1>1, <1>2, <1>3, <1>4, <1>5, <1>6, <1>7, <1>8 DEF Next

(* An event about which there is no doubt stays DISPATCHED: no dispatcher  *)
(* has it in its batch any more.                                           *)
THEOREM DispatchIsFinal == Spec => DispatchedStays
<1> DEFINE A == \A e \in Events :
      doubts'[e] = 0 /\ status[e] = "DISPATCHED" => status'[e] = "DISPATCHED"
<1>1. Inv /\ [Next]_vars => [A]_vars
  BY DispatchedKept
<1> HIDE DEF A
<1>2. Spec => [][A]_vars
  BY <1>1, Invariance, PTL DEF Spec
<1> QED BY <1>2 DEF A, DispatchedStays
=============================================================================
