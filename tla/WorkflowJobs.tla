---------------------------- MODULE WorkflowJobs ----------------------------
(***************************************************************************)
(* The durable job queue of packages/workflows/src/outbox.ts: the rows of  *)
(* the table "WorkflowJob", the worker processes that claim them in        *)
(* batches, and the writes that settle a claim.                            *)
(*                                                                         *)
(* Time is abstracted.  A PENDING row is claimable at any moment: its      *)
(* runAfter delays a claim, but every order in which rows fall due is      *)
(* possible, and a workspace held by the operator-import flag only claims  *)
(* less.  A row's lock is either fresh or older than LOCK_TIMEOUT_MS       *)
(* (five minutes); LockExpires is the passage of those five minutes.  A    *)
(* lease renewal keeps a fresh lock fresh and so has no step of its own.   *)
(***************************************************************************)
EXTENDS Integers, FiniteSets

CONSTANTS
  Jobs,          \* the rows that may be enqueued; a row is one dedupe key
  Workers,       \* worker processes; a restarted process is a new one
  None,          \* no worker, no prerequisite
  Kind,          \* how the type of a job is settled, see Kinds
  Prerequisite,  \* the job whose dedupe key a job depends on, or None
  MaxAttempts,   \* MAX_ATTEMPTS
  BatchSize,     \* rows claimed at once
  Lanes,         \* jobs of a batch handled concurrently
  MaxFaults      \* bound: crashes, lost leases, failed writes, deferrals and
                 \* operator interventions of one behaviour

(* The job types, by the condition under which a claim may be settled:     *)
(*   plain        the row is updated by its id, whoever holds it           *)
(*   attempt      RUNNING, the claimer's lockedBy and attempts             *)
(*                (agent.brain-absorb, agent.brain-source-regenerate)      *)
(*   variant      as attempt, and a member may ask for it again (the       *)
(*                article and graph variants)                              *)
(*   fresh        as attempt, and the lock has not expired (meeting        *)
(*                transcript and audio jobs, knowledge synchronisation)    *)
(*   maintenance  as fresh, and the handler may defer (Brain maintenance)  *)
(*   sql          as attempt, and claimed alone (data-source.sync)         *)
(*   diagnostic   RUNNING and the claimer's lockedBy; fails at once        *)
Kinds == {"plain", "attempt", "variant", "fresh", "maintenance", "sql", "diagnostic"}

ASSUME JobAssumption ==
  /\ IsFiniteSet(Jobs)
  /\ None \notin Jobs \cup Workers
  /\ Kind \in [Jobs -> Kinds]
  /\ Prerequisite \in [Jobs -> Jobs \cup {None}]

ASSUME BoundAssumption ==
  /\ MaxAttempts \in Nat \ {0}
  /\ BatchSize \in Nat \ {0}
  /\ Lanes \in Nat \ {0}
  /\ MaxFaults \in Nat

VARIABLES
  status,    \* the columns of the table: status,
  attempts,  \*   attempts,
  lockedBy,  \*   lockedBy,
  expired,   \*   whether lockedAt is older than LOCK_TIMEOUT_MS,
  dependsOn, \*   dependsOnJobId
  serial,    \* history: how many times each job has been claimed
  queued,    \* jobs of a worker's batch that no lane has started
  handling,  \* jobs of a worker's batch whose handler is running
  seen,      \* the attempts and serial of the row when the worker claimed it
  lanes,     \* lanes of the worker's batch that have not thrown
  alive,     \* worker processes that have not crashed
  faults     \* faults so far

row == <<status, attempts, lockedBy, expired, dependsOn>>
memory == <<queued, handling, seen, lanes, alive>>
vars == <<row, serial, memory, faults>>

Status == {"ABSENT", "PENDING", "RUNNING", "COMPLETED", "FAILED", "CANCELLED"}
Terminal == {"COMPLETED", "FAILED", "CANCELLED"}
Unclaimed == [attempts |-> 0, serial |-> 0]

InMemory(w, j) == j \in queued[w] \cup handling[w]
Abandoned(j) == \A w \in Workers : lockedBy[j] = w => ~InMemory(w, j)

Fault == faults < MaxFaults /\ faults' = faults + 1

-----------------------------------------------------------------------------
Init ==
  /\ status = [j \in Jobs |-> "ABSENT"]
  /\ attempts = [j \in Jobs |-> 0]
  /\ lockedBy = [j \in Jobs |-> None]
  /\ expired = [j \in Jobs |-> FALSE]
  /\ dependsOn = [j \in Jobs |-> None]
  /\ serial = [j \in Jobs |-> 0]
  /\ queued = [w \in Workers |-> {}]
  /\ handling = [w \in Workers |-> {}]
  /\ seen = [w \in Workers |-> [j \in Jobs |-> Unclaimed]]
  /\ lanes = [w \in Workers |-> 0]
  /\ alive = Workers
  /\ faults = 0

(* The prerequisite is looked up by its dedupe key when the job is         *)
(* enqueued; one that is not in the table resolves to no dependency.  A    *)
(* transaction sees the rows it has inserted, and inserts prerequisites    *)
(* first.                                                                  *)
ResolvedDependency(j, batch) ==
  IF Prerequisite[j] # None
     /\ (status[Prerequisite[j]] # "ABSENT" \/ Prerequisite[j] \in batch)
    THEN Prerequisite[j]
    ELSE None

(* A transaction enqueues the jobs of batch (enqueueJob): the upsert on    *)
(* the dedupe key changes nothing when the row exists, in whatever status. *)
(* Faulty variant: the upsert re-arms a row that exists.                   *)
EnqueueOrReset(batch) ==
  /\ batch # {}
  /\ status' = [j \in Jobs |-> IF j \in batch THEN "PENDING" ELSE status[j]]
  /\ dependsOn' = [j \in Jobs |->
                   IF j \in batch THEN ResolvedDependency(j, batch) ELSE dependsOn[j]]
  /\ UNCHANGED <<attempts, lockedBy, expired, serial, memory, faults>>

Enqueue(batch) ==
  /\ \E j \in batch : status[j] = "ABSENT"
  /\ status' = [j \in Jobs |->
                IF j \in batch /\ status[j] = "ABSENT" THEN "PENDING" ELSE status[j]]
  /\ dependsOn' = [j \in Jobs |->
                   IF j \in batch /\ status[j] = "ABSENT"
                     THEN ResolvedDependency(j, batch)
                     ELSE dependsOn[j]]
  /\ UNCHANGED <<attempts, lockedBy, expired, serial, memory, faults>>

(* A faulty variant of Claimable, for the mutants: a failed prerequisite   *)
(* counts as done.                                                         *)
ClaimableOnceSettled(j) ==
  /\ \/ status[j] = "PENDING"
     \/ status[j] = "RUNNING" /\ expired[j]
  /\ dependsOn[j] # None => status[dependsOn[j]] \in Terminal

(* A faulty variant of Claimable: an expired lock is never taken over.     *)
ClaimableWhenPending(j) ==
  /\ status[j] = "PENDING"
  /\ dependsOn[j] # None => status[dependsOn[j]] = "COMPLETED"

Claimable(j) ==
  /\ \/ status[j] = "PENDING"
     \/ status[j] = "RUNNING" /\ expired[j]
  /\ dependsOn[j] # None => status[dependsOn[j]] = "COMPLETED"

(* The head of the queue selects the lane: a data-source.sync job is       *)
(* claimed alone, and never together with the others.                      *)
OneLane(batch) ==
  \/ Cardinality(batch) = 1
  \/ \A j \in batch : Kind[j] # "sql"

(* What RETURNING hands to the worker: the row as updated.                 *)
(* Faulty variant: the row as it was before the update.                    *)
RememberedBefore(j) == [attempts |-> attempts[j], serial |-> serial[j] + 1]

Remembered(j) == [attempts |-> attempts[j] + 1, serial |-> serial[j] + 1]

(* claimPendingJobs: one UPDATE ... RETURNING over rows locked with SKIP   *)
(* LOCKED.  runPendingJobs admits the next batch of a process only when    *)
(* the previous one has drained.                                           *)
Claim(w, batch) ==
  /\ w \in alive
  /\ queued[w] = {} /\ handling[w] = {}
  /\ batch # {} /\ Cardinality(batch) <= BatchSize
  /\ \A j \in batch : Claimable(j)
  /\ OneLane(batch)
  /\ status' = [j \in Jobs |-> IF j \in batch THEN "RUNNING" ELSE status[j]]
  /\ lockedBy' = [j \in Jobs |-> IF j \in batch THEN w ELSE lockedBy[j]]
  /\ attempts' = [j \in Jobs |-> IF j \in batch THEN attempts[j] + 1 ELSE attempts[j]]
  /\ expired' = [j \in Jobs |-> IF j \in batch THEN FALSE ELSE expired[j]]
  /\ serial' = [j \in Jobs |-> IF j \in batch THEN serial[j] + 1 ELSE serial[j]]
  /\ seen' = [seen EXCEPT ![w] = [j \in Jobs |->
               IF j \in batch THEN Remembered(j) ELSE Unclaimed]]
  /\ queued' = [queued EXCEPT ![w] = batch]
  /\ lanes' = [lanes EXCEPT ![w] = Lanes]
  /\ UNCHANGED <<dependsOn, handling, alive, faults>>

(* A lane of runWithBoundedConcurrency takes the next job of the batch.    *)
StartHandler(w, j) ==
  /\ j \in queued[w]
  /\ Cardinality(handling[w]) < lanes[w]
  /\ queued' = [queued EXCEPT ![w] = @ \ {j}]
  /\ handling' = [handling EXCEPT ![w] = @ \cup {j}]
  /\ UNCHANGED <<row, serial, seen, lanes, alive, faults>>

-----------------------------------------------------------------------------
(* Settling a claim: the WHERE clause of the write, by kind of job.        *)
HoldsLock(w, j) == status[j] = "RUNNING" /\ lockedBy[j] = w
HoldsAttempt(w, j) == HoldsLock(w, j) /\ attempts[j] = seen[w][j].attempts

(* Faulty variant: every kind updates by id.                               *)
MaySettleById(w, j) == TRUE

MaySettle(w, j) ==
  \/ Kind[j] = "plain"
  \/ Kind[j] = "diagnostic" /\ HoldsLock(w, j)
  \/ Kind[j] \in {"attempt", "variant", "sql"} /\ HoldsAttempt(w, j)
  \/ Kind[j] \in {"fresh", "maintenance"} /\ HoldsAttempt(w, j) /\ ~expired[j]

(* The data of every write that gives a row back: a status, and no lock.   *)
Release(j, outcome) ==
  /\ status' = [status EXCEPT ![j] = outcome]
  /\ lockedBy' = [lockedBy EXCEPT ![j] = None]
  /\ expired' = [expired EXCEPT ![j] = FALSE]
  /\ UNCHANGED dependsOn

(* An update that matches no row leaves the row to its current owner; its  *)
(* count is ignored, or reported as one more failure that changes nothing. *)
Settle(w, j, outcome) ==
  \/ MaySettle(w, j) /\ Release(j, outcome)
  \/ ~MaySettle(w, j) /\ UNCHANGED <<status, lockedBy, expired, dependsOn>>

LeaveHandler(w, j) ==
  /\ handling' = [handling EXCEPT ![w] = @ \ {j}]
  /\ seen' = [seen EXCEPT ![w][j] = Unclaimed]
  /\ UNCHANGED <<queued, lanes, alive>>

(* The handler returned.                                                   *)
HandlerSucceeds(w, j) ==
  /\ j \in handling[w]
  /\ Settle(w, j, "COMPLETED")
  /\ LeaveHandler(w, j)
  /\ UNCHANGED <<attempts, serial, faults>>

(* The handler threw.  The attempts compared with MAX_ATTEMPTS are those   *)
(* of the claim, not of the row; a revoked support or MCP authorization    *)
(* fails the job at once, and so does a release diagnostic.                *)
(* Faulty variant: the last attempt is off by one.                         *)
FailureStatusLate(w, j, revoked) ==
  IF Kind[j] = "diagnostic" \/ revoked \/ seen[w][j].attempts > MaxAttempts
    THEN "FAILED"
    ELSE "PENDING"

FailureStatus(w, j, revoked) ==
  IF Kind[j] = "diagnostic" \/ revoked \/ seen[w][j].attempts >= MaxAttempts
    THEN "FAILED"
    ELSE "PENDING"

HandlerFails(w, j, revoked) ==
  /\ j \in handling[w]
  /\ Settle(w, j, FailureStatus(w, j, revoked))
  /\ LeaveHandler(w, j)
  /\ UNCHANGED <<attempts, serial, faults>>

(* MaintenanceDeferred: back to PENDING with the attempt refunded.         *)
HandlerDefers(w, j) ==
  /\ Kind[j] = "maintenance"
  /\ j \in handling[w]
  /\ Fault
  /\ Settle(w, j, "PENDING")
  /\ attempts' = [attempts EXCEPT ![j] = IF MaySettle(w, j) THEN @ - 1 ELSE @]
  /\ LeaveHandler(w, j)
  /\ UNCHANGED serial

(* The write that settles the claim fails: the error leaves                *)
(* processClaimedJob, its lane stops, and the row stays RUNNING.  When the *)
(* last lane has stopped the jobs still queued are dropped.                *)
SettlementThrows(w, j) ==
  /\ j \in handling[w]
  /\ Fault
  /\ lanes' = [lanes EXCEPT ![w] = @ - 1]
  /\ queued' = [queued EXCEPT ![w] = IF lanes[w] = 1 THEN {} ELSE @]
  /\ handling' = [handling EXCEPT ![w] = @ \ {j}]
  /\ seen' = [seen EXCEPT ![w] = [k \in Jobs |->
                IF k = j \/ (lanes[w] = 1 /\ k \in queued[w])
                  THEN Unclaimed ELSE seen[w][k]]]
  /\ UNCHANGED <<row, serial, alive>>

-----------------------------------------------------------------------------
(* Five minutes pass since lockedAt.  For a row whose claim is still in    *)
(* the memory of its worker (waiting for a lane, or with a slow handler)   *)
(* this is a fault; an abandoned row always gets there.                    *)
LockExpires(j) ==
  /\ status[j] = "RUNNING" /\ ~expired[j]
  /\ \/ Abandoned(j) /\ UNCHANGED faults
     \/ ~Abandoned(j) /\ Fault
  /\ expired' = [expired EXCEPT ![j] = TRUE]
  /\ UNCHANGED <<status, attempts, lockedBy, dependsOn, serial, memory>>

(* The process exits with a batch in flight: a crash, or the shutdown      *)
(* timeout.  Another process keeps serving the queue.                      *)
Crash(w) ==
  /\ w \in alive /\ alive # {w}
  /\ Fault
  /\ alive' = alive \ {w}
  /\ queued' = [queued EXCEPT ![w] = {}]
  /\ handling' = [handling EXCEPT ![w] = {}]
  /\ seen' = [seen EXCEPT ![w] = [j \in Jobs |-> Unclaimed]]
  /\ lanes' = [lanes EXCEPT ![w] = 0]
  /\ UNCHANGED <<row, serial>>

(* A member asks again for a variant whose generation job ended, or whose  *)
(* payload a handler has marked STALE, even while the job is RUNNING or    *)
(* after it was cancelled: the row is re-armed with its attempts kept.     *)
RequestVariantAgain(j) ==
  /\ Kind[j] = "variant"
  /\ status[j] \in Terminal \cup {"RUNNING"}
  /\ Fault
  /\ Release(j, "PENDING")
  /\ UNCHANGED <<attempts, serial, memory>>

(* The release runner re-arms a diagnostic that failed on its first        *)
(* attempt.                                                                *)
RetryDiagnostic(j) ==
  /\ Kind[j] = "diagnostic"
  /\ status[j] = "FAILED" /\ attempts[j] = 1
  /\ Fault
  /\ Release(j, "PENDING")
  /\ UNCHANGED <<attempts, serial, memory>>

(* discardFailedJob                                                        *)
Discard(j) ==
  /\ status[j] = "FAILED"
  /\ status' = [status EXCEPT ![j] = "CANCELLED"]
  /\ UNCHANGED <<attempts, lockedBy, expired, dependsOn, serial, memory, faults>>

-----------------------------------------------------------------------------
Finish(w, j) ==
  \/ HandlerSucceeds(w, j)
  \/ \E revoked \in BOOLEAN : HandlerFails(w, j, revoked)

Next ==
  \/ \E batch \in SUBSET Jobs : Enqueue(batch)
  \/ \E w \in Workers, batch \in SUBSET Jobs : Claim(w, batch)
  \/ \E w \in Workers, j \in Jobs : StartHandler(w, j)
  \/ \E w \in Workers, j \in Jobs : HandlerSucceeds(w, j)
  \/ \E w \in Workers, j \in Jobs, revoked \in BOOLEAN : HandlerFails(w, j, revoked)
  \/ \E w \in Workers, j \in Jobs : HandlerDefers(w, j)
  \/ \E w \in Workers, j \in Jobs : SettlementThrows(w, j)
  \/ \E j \in Jobs : LockExpires(j)
  \/ \E w \in Workers : Crash(w)
  \/ \E j \in Jobs : RequestVariantAgain(j)
  \/ \E j \in Jobs : RetryDiagnostic(j)
  \/ \E j \in Jobs : Discard(j)

Spec == Init /\ [][Next]_vars

(* A live worker polls for ever, a lane starts the next job of its batch,  *)
(* a handler returns or throws, and five minutes pass for a row nobody is  *)
(* working on.  Faults, enqueueing and operators are not fair.             *)
Fairness ==
  /\ \A w \in Workers : WF_vars(\E batch \in SUBSET Jobs : Claim(w, batch))
  /\ \A w \in Workers, j \in Jobs : WF_vars(StartHandler(w, j))
  /\ \A w \in Workers, j \in Jobs : WF_vars(Finish(w, j))
  /\ \A j \in Jobs : WF_vars(Abandoned(j) /\ LockExpires(j))

FairSpec == Spec /\ Fairness
-----------------------------------------------------------------------------
TypeOK ==
  /\ status \in [Jobs -> Status]
  /\ attempts \in [Jobs -> Nat]
  /\ lockedBy \in [Jobs -> Workers \cup {None}]
  /\ expired \in [Jobs -> BOOLEAN]
  /\ dependsOn \in [Jobs -> Jobs \cup {None}]
  /\ serial \in [Jobs -> Nat]
  /\ queued \in [Workers -> SUBSET Jobs]
  /\ handling \in [Workers -> SUBSET Jobs]
  /\ seen \in [Workers -> [Jobs -> [attempts : Nat, serial : Nat]]]
  /\ lanes \in [Workers -> 0 .. Lanes]
  /\ alive \subseteq Workers
  /\ faults \in 0 .. MaxFaults

Fenced(j) == Kind[j] # "plain"
(* The kinds whose outcome nobody may ask to have again.                   *)
Once(j) == Kind[j] \in {"attempt", "fresh", "maintenance", "sql"}

IsNewest(w, j) == InMemory(w, j) /\ seen[w][j].serial = serial[j]

(* A fenced job gets its outcome from its newest claim only: a worker that *)
(* lost its lock and was overtaken cannot complete or fail the job,        *)
(* whatever the order in which the two handlers return.                    *)
OutcomeIsOfNewestClaim ==
  [][\A j \in Jobs :
       /\ Fenced(j)
       /\ status'[j] \in {"COMPLETED", "FAILED"}
       /\ status'[j] # status[j]
       => \E w \in Workers : /\ j \in handling[w] \ handling'[w]
                              /\ IsNewest(w, j)]_vars

(* A fenced job that has its outcome keeps it: a late handler does not put *)
(* a completed job back in the queue, nor a failed one.                    *)
OutcomeIsFinal ==
  [][\A j \in Jobs : Once(j) =>
       /\ status[j] = "COMPLETED" => status'[j] = "COMPLETED"
       /\ status[j] = "FAILED" => status'[j] \in {"FAILED", "CANCELLED"}
       /\ status[j] = "CANCELLED" => status'[j] = "CANCELLED"]_vars

(* What the comment on the diagnostic handler says of its write: a worker  *)
(* whose lock has expired does not complete a release diagnostic.          *)
CompletionNeedsFreshLock ==
  [][\A j \in Jobs :
       /\ Kind[j] = "diagnostic"
       /\ status[j] # "COMPLETED" /\ status'[j] = "COMPLETED"
       => ~expired[j]]_vars

(* Nothing but the loss of its lock keeps the newest claim from settling   *)
(* its job: the row carries the identity that the claim remembers.         *)
NewestClaimCanSettle ==
  \A w \in Workers, j \in Jobs :
    IsNewest(w, j) /\ status[j] = "RUNNING" /\ ~expired[j] => MaySettle(w, j)

(* A job with a prerequisite has run only if the prerequisite is and stays *)
(* completed (the meeting chain: insights are not extracted from a summary *)
(* that is later retried).                                                 *)
RanAfterItsPrerequisite ==
  \A j \in Jobs :
    LET d == dependsOn[j] IN
    d # None /\ Once(d) /\ serial[j] > 0 => status[d] = "COMPLETED"

(* The retry limit: no job, of whatever kind, is claimed more than         *)
(* MAX_ATTEMPTS times unless that many faults befell the queue.            *)
ExtraAttemptsHaveAFault ==
  \A j \in Jobs : attempts[j] <= MaxAttempts + faults

(* Whatever crashes, every job in the table comes to rest: it ends, or it  *)
(* waits for a prerequisite that is not completed.                         *)
Waiting(j) ==
  /\ status[j] = "PENDING"
  /\ dependsOn[j] # None
  /\ status[dependsOn[j]] # "COMPLETED"

EveryJobSettles ==
  \A j \in Jobs : <>[](status[j] \in Terminal \cup {"ABSENT"} \/ Waiting(j))
=============================================================================
