----------------------------- MODULE EventOutbox -----------------------------
(***************************************************************************)
(* The dispatcher of the transactional outbox: the rows of the table       *)
(* "Event" and dispatchPendingEvents of packages/workflows/src/outbox.ts,  *)
(* run by every worker process before it serves the job queue.             *)
(*                                                                         *)
(* The transaction that dispatches an event enqueues its jobs, creates its *)
(* notifications and one delivery for each active webhook endpoint, and    *)
(* marks the event DISPATCHED.  It commits or rolls back as a whole: one   *)
(* publication of the event.  Time is abstracted as in WorkflowJobs.       *)
(***************************************************************************)
EXTENDS Integers, FiniteSets

CONSTANTS
  Events,       \* the rows that producers may append
  Workers,      \* worker processes; a restarted process is a new one
  MaxAttempts,  \* MAX_ATTEMPTS
  BatchSize,    \* events claimed at once
  MaxFaults     \* bound: crashes, lost locks, failed writes of one behaviour

ASSUME OutboxAssumption ==
  /\ IsFiniteSet(Workers)
  /\ MaxAttempts \in Nat \ {0}
  /\ BatchSize \in Nat \ {0}
  /\ MaxFaults \in Nat

VARIABLES
  status,      \* the columns of the table: status,
  attempts,    \*   attempts,
  lock,        \*   whether lockedAt is null, or older than LOCK_TIMEOUT_MS
  published,   \* publications of each event that have committed
  doubts,      \* history: locks lost in use and commits reported as failures
  claimed,     \* events a worker has claimed and not yet dealt with
  seen,        \* the attempts of the event when the worker claimed it
  alive,       \* worker processes that have not crashed
  faults       \* faults so far

vars == <<status, attempts, lock, published, doubts, claimed, seen, alive, faults>>

Status == {"ABSENT", "PENDING", "DISPATCHED", "FAILED"}
Lock == {"none", "fresh", "stale"}

Abandoned(e) == \A w \in Workers : e \notin claimed[w]
Fault == faults < MaxFaults /\ faults' = faults + 1

Init ==
  /\ status = [e \in Events |-> "ABSENT"]
  /\ attempts = [e \in Events |-> 0]
  /\ lock = [e \in Events |-> "none"]
  /\ published = [e \in Events |-> 0]
  /\ doubts = [e \in Events |-> 0]
  /\ claimed = [w \in Workers |-> {}]
  /\ seen = [w \in Workers |-> [e \in Events |-> 0]]
  /\ alive = Workers
  /\ faults = 0

(* appendEvents: a producer's transaction commits.  Replaying an event     *)
(* appends a new one.                                                      *)
Append(e) ==
  /\ status[e] = "ABSENT"
  /\ status' = [status EXCEPT ![e] = "PENDING"]
  /\ UNCHANGED <<attempts, lock, published, doubts, claimed, seen, alive, faults>>

(* Faulty variant of Claimable: a lock is never taken over.                *)
ClaimableWhenUnlocked(e) == status[e] = "PENDING" /\ lock[e] = "none"

(* A claim locks the row and leaves it PENDING.                            *)
Claimable(e) == status[e] = "PENDING" /\ lock[e] # "fresh"

(* claimPendingEvents.  Rows locked by another transaction are skipped, so *)
(* any claimable rows may make up the batch.                               *)
Claim(w, batch) ==
  /\ w \in alive /\ claimed[w] = {}
  /\ batch # {} /\ Cardinality(batch) <= BatchSize
  /\ \A e \in batch : Claimable(e)
  /\ lock' = [e \in Events |-> IF e \in batch THEN "fresh" ELSE lock[e]]
  /\ attempts' = [e \in Events |-> IF e \in batch THEN attempts[e] + 1 ELSE attempts[e]]
  /\ claimed' = [claimed EXCEPT ![w] = batch]
  /\ seen' = [seen EXCEPT ![w] = [e \in Events |->
               IF e \in batch THEN attempts[e] + 1 ELSE 0]]
  /\ UNCHANGED <<status, published, doubts, alive, faults>>

(* The row after a publication or after failEvent, which update it by its  *)
(* id: whoever holds the lock, and whatever became of the event meanwhile. *)
Release(e, outcome) ==
  /\ status' = [status EXCEPT ![e] = outcome]
  /\ lock' = [lock EXCEPT ![e] = "none"]
  /\ UNCHANGED attempts

Forget(w, events) ==
  /\ claimed' = [claimed EXCEPT ![w] = @ \ events]
  /\ seen' = [seen EXCEPT ![w] = [e \in Events |-> IF e \in events THEN 0 ELSE seen[w][e]]]

(* Faulty variant of Dispatch: the event is marked in a second             *)
(* transaction, which may not happen.                                      *)
DispatchInTwoWrites(w, e) ==
  /\ e \in claimed[w]
  /\ \/ Release(e, "DISPATCHED")
     \/ UNCHANGED <<status, attempts, lock>>
  /\ published' = [published EXCEPT ![e] = @ + 1]
  /\ Forget(w, {e})
  /\ UNCHANGED <<doubts, alive, faults>>

(* The transaction that publishes the event commits.                       *)
Dispatch(w, e) ==
  /\ e \in claimed[w]
  /\ Release(e, "DISPATCHED")
  /\ published' = [published EXCEPT ![e] = @ + 1]
  /\ Forget(w, {e})
  /\ UNCHANGED <<doubts, alive, faults>>

FailureStatus(w, e, revoked) ==
  IF revoked \/ seen[w][e] >= MaxAttempts THEN "FAILED" ELSE "PENDING"

(* The transaction rolls back; failEvent writes the outcome in another.    *)
DispatchFails(w, e, revoked) ==
  /\ e \in claimed[w]
  /\ Release(e, FailureStatus(w, e, revoked))
  /\ Forget(w, {e})
  /\ UNCHANGED <<published, doubts, alive, faults>>

(* The transaction commits, but an error reaches the dispatcher after the  *)
(* commit, from the second membership check of withMcpConnectionExecution  *)
(* or a lost acknowledgement: failEvent reverts the row it has published.  *)
DispatchUnacknowledged(w, e, revoked) ==
  /\ e \in claimed[w]
  /\ Fault
  /\ Release(e, FailureStatus(w, e, revoked))
  /\ published' = [published EXCEPT ![e] = @ + 1]
  /\ doubts' = [doubts EXCEPT ![e] = @ + 1]
  /\ Forget(w, {e})
  /\ UNCHANGED alive

(* failEvent throws too: the loop ends and the rest of the batch is        *)
(* dropped, its rows PENDING and locked.                                   *)
FailEventThrows(w) ==
  /\ claimed[w] # {}
  /\ Fault
  /\ Forget(w, Events)
  /\ UNCHANGED <<status, attempts, lock, published, doubts, alive>>

(* Five minutes pass since lockedAt: a fault while the claim is in use.    *)
LockExpires(e) ==
  /\ lock[e] = "fresh"
  /\ \/ Abandoned(e) /\ UNCHANGED <<faults, doubts>>
     \/ ~Abandoned(e) /\ Fault /\ doubts' = [doubts EXCEPT ![e] = @ + 1]
  /\ lock' = [lock EXCEPT ![e] = "stale"]
  /\ UNCHANGED <<status, attempts, published, claimed, seen, alive>>

(* The process exits in the middle of a batch.                             *)
Crash(w) ==
  /\ w \in alive /\ alive # {w}
  /\ Fault
  /\ alive' = alive \ {w}
  /\ Forget(w, Events)
  /\ UNCHANGED <<status, attempts, lock, published, doubts>>

Finish(w, e) ==
  \/ Dispatch(w, e)
  \/ \E revoked \in BOOLEAN : DispatchFails(w, e, revoked)

Next ==
  \/ \E e \in Events : Append(e)
  \/ \E w \in Workers, batch \in SUBSET Events : Claim(w, batch)
  \/ \E w \in Workers, e \in Events : Dispatch(w, e)
  \/ \E w \in Workers, e \in Events, revoked \in BOOLEAN : DispatchFails(w, e, revoked)
  \/ \E w \in Workers, e \in Events, revoked \in BOOLEAN : DispatchUnacknowledged(w, e, revoked)
  \/ \E w \in Workers : FailEventThrows(w)
  \/ \E e \in Events : LockExpires(e)
  \/ \E w \in Workers : Crash(w)

Spec == Init /\ [][Next]_vars

(* A live worker polls for ever, a dispatch commits or fails, and five     *)
(* minutes pass for a row nobody works on.  Producers and faults are not   *)
(* fair, and no commit is promised: every attempt may fail.                *)
FairSpec ==
  /\ Spec
  /\ \A w \in Workers : WF_vars(\E batch \in SUBSET Events : Claim(w, batch))
  /\ \A w \in Workers, e \in Events : WF_vars(Finish(w, e))
  /\ \A e \in Events : WF_vars(Abandoned(e) /\ LockExpires(e))
-----------------------------------------------------------------------------
(* The types, and: a row is locked only while it is PENDING.               *)
TypeOK ==
  /\ status \in [Events -> Status]
  /\ attempts \in [Events -> Nat]
  /\ lock \in [Events -> Lock]
  /\ published \in [Events -> Nat]
  /\ doubts \in [Events -> Nat]
  /\ claimed \in [Workers -> SUBSET Events]
  /\ seen \in [Workers -> [Events -> Nat]]
  /\ alive \subseteq Workers
  /\ faults \in 0 .. MaxFaults
  /\ \A e \in Events : lock[e] # "none" => status[e] = "PENDING"

(* Crashes, rollbacks, failed writes and retries publish no event twice.   *)
(* Each publication after the first (duplicate webhook deliveries and      *)
(* notifications) takes a dispatcher that outlived its lock, or a commit   *)
(* that was reported to it as a failure.                                   *)
PublishedOnce == \A e \in Events : published[e] <= 1 + doubts[e]

(* Without such a doubt a dispatched event stays dispatched.               *)
DispatchedStays ==
  [][\A e \in Events :
       doubts'[e] = 0 /\ status[e] = "DISPATCHED" => status'[e] = "DISPATCHED"]_vars

(* Without such a doubt an event that is still to be dispatched, or has    *)
(* failed, has not been published: nobody gives up on, or repeats, what a  *)
(* committed transaction has done.                                         *)
UnsettledIsUnpublished ==
  \A e \in Events :
    doubts[e] = 0 /\ status[e] # "DISPATCHED" => published[e] = 0

(* However often dispatchers crash or lose an event, it is dispatched in   *)
(* the end or fails, and is never left locked in the table.                *)
EveryEventSettles ==
  \A e \in Events : <>[](status[e] \in {"ABSENT", "DISPATCHED", "FAILED"})
=============================================================================
