# A verification of Corgtex in TLA+

Corgtex is a workspace server: members keep proposals, meetings, a knowledge
base ("Brain"), finances and integrations in one PostgreSQL database, and agents
work on them in the background.  Requests arrive at `apps/web` and
`packages/mcp`, state changes are made by `packages/domain`, and everything that
takes long or calls a provider is done later by `apps/worker`.

This directory specifies and checks the part of the program on which the rest
depends and which is hardest to test: the durable machinery between a committed
request and its background work (event outbox, job queue, the worker cycle that
drives both, and webhooks and notifications as the queue's most exposed
clients); the release of a customer deployment, from the lease that keeps two
releases from overlapping to the runs that write to the provider; and proposals
with the approval flow that their reviews write to.

* [The system](#the-system): its parts, their state and what is hard about them
* [The modules](#the-modules): what each models and how it corresponds to the code
* [The runs](#the-runs): what TLC checks, with which bounds, and what it shows
* [The proofs](#the-proofs): what TLAPS proves, from what, and by which argument
* [Three disagreements between code and text](#three-disagreements-between-code-and-text)
* [What is not modelled](#what-is-not-modelled)
* [The plan](#the-plan)

To repeat the work, in this directory:

    tlc -workers 2 -config JobsChain.cfg MCWorkflowJobs.tla
    tlapm WorkflowJobsProofs.tla

## The system

### How the parts interact

    request --> packages/domain --+-- domain rows --+
                                  +-- "Event" row --+  one transaction
                                                    |
    apps/worker, every cycle:                       v
      dispatch   claim "Event" rows; for each, in one transaction: enqueue its
                 jobs, create notifications and webhook deliveries, mark it
                 DISPATCHED
      process    claim "WorkflowJob" rows; run their handlers in lanes; settle
                 each claim with one write
      schedule   under an advisory lock: daily and periodic work, which again
                 appends events and enqueues jobs

    release and recovery runs --> control plane --> lease columns of
                            \     "CustomerDeployment"
                             \--> Azure (the provider writes the lease protects)

    members --> proposal operations (one advisory lock) and reviews (no lock of
                the proposal) --> "Proposal", "ApprovalFlow", review rows

Processes share nothing but the database.  A claim is a column (`lockedBy`,
`lockedAt`) that lapses after five minutes; no process is ever asked whether it
is still alive, so a slow worker and a dead one look the same, and two workers
may run the handler of one row at once.

### Inventory

For each part: the state it keeps, its operations, what is hard, and what makes
it correct.  Parts marked * are modelled here, in part or as a whole; the exact
status of each is in `PROJECT.json`.

| part | state | operations | hard behaviour | correct when |
|---|---|---|---|---|
| *Job queue (`workflows/src/outbox.ts`) | `WorkflowJob`: status, attempts, lockedBy, lockedAt, dependsOnJobId | enqueue, claim, start in a lane, complete, fail, defer, renew, expire, discard | overlapping handlers of a row, a dying lane, crashes, fencing that differs by job type | one outcome, of the newest claim; order of prerequisites; a retry limit; nothing stuck |
| *Event outbox (`outbox.ts`, `domain/src/events.ts`) | `Event`: status, attempts, lockedAt | append, claim, dispatch, fail, replay | a commit that is reported as a failure, a dispatcher slower than its lock | an event is published once and as a whole, or a fault is to blame |
| *Worker cycle (`apps/worker`) | the batch of a process | dispatch, process, schedule, shut down | both tables in one process; exit in mid-batch | neither table starves the other |
| *Job derivation (`derive-jobs.ts`) | none | event to jobs with keys and prerequisites | prerequisites must be in the table before their dependents | the chain of an event runs in order |
| *Release lease (`control-plane-release-lease.ts`) | the `releaseLease...` columns of `CustomerDeployment`, `rollback_recorded` events | acquire, record, begin, heartbeat, abort, mark, announce, claim, three ends | runs that die between provider writes, takeover, a chain of lease identities | one release at a time, always recoverable, ends on a planned image |
| *Release record (`domain/src/admin.ts`) | `releaseImageTag` | upgrade | may run during a release | refused while there is a lease |
| *Release diagnostic | a job row and its payload | handle, complete, fail, retry once | completing with a lapsed lock | at most one retry, an owner's outcome |
| *Webhook deliveries (`domain/src/webhooks.ts`) | `WebhookDelivery`: status, attempts, nextRetryAt | fan out, load, post, record, configure | read, request and write are apart; the answer may be lost | statuses are earned; repeats have a cause |
| *Failed job and event operations (`runtime.ts`) | rows of both tables | discard, replay | acting on a row a worker holds | only FAILED rows; a replay is a new row |
| *Release and recovery runners (`scripts/release`) | the runner's own progress, the revisions of two apps | acquire, record, begin, provider writes, readback, compensate, announce, finalize; look, claim, choose | answers lost before and after a commit, a run that dies between two writes, a status that is old when used | the row names what the apps run; a recovery is requested once; no outcome is reported that did not happen |
| Knowledge sync leases | a job's lock and a generation | renew, work, release | waiting for the row while the lease lapses | one writer of the synced knowledge |
| *Approval flows and proposals (`domain/src/proposals.ts`, `approvals.ts`, `archive.ts`) | flow, decisions, objections, proposal status, policy corpus | submit, decide, object, resolve, return, reopen, archive, publish | two requests that read the same flow | status of proposal and flow agree; no vote of an earlier round |
| *Notifications (`domain/src/notifications.ts`) | `NotificationDelivery`: channel, status, attempts | request, send, record, fall back | sent but not recorded; a fallback in three writes | told once unless something failed; none forgotten |
| *Brain maintenance chain | pages handed from job to job | start, page, finish | deferral refunds an attempt | every page once |
| *Article and graph variants | variant rows, job payload phases | request, generate, publish | a request during generation | a variant of current inputs |
| Scheduler lock | a PostgreSQL advisory lock | lock, run, unlock | the locking session is lost | one scheduler, or idempotent work |
| Finance imports | batches, revisions, extraction jobs | upload, extract, review, apply | new upload during extraction | reviewed equals applied |
| Source lineage, permission epochs | provenance of every artifact | prove, revalidate, invalidate | permissions change while an agent writes | nothing shown beyond its sources |
| Meetings, recorders, transcripts | sessions, transcripts | start, callback, intake | provider callbacks out of order | one transcript of a meeting |
| Brain source removal | sources, artifacts, jobs | remove, cancel | work in flight on a removed source | nothing survives its source |
| Newspaper delivery | editions, e-mails | compose, deliver | as notifications | one edition per period |
| SQL connectors | checkpoints | pull | overlap of two pulls | monotone checkpoint |
| Agent runtime, budgets | runs, costs | step, account | cost after a crash | budget bounds spending |
| Conversations | turns | stream, finish | aborted stream | one answer per turn |
| MCP server, OAuth | tokens, grants | authorize, refresh, revoke | concurrent refresh | revoked means refused |
| Control plane, provider cutover | deployments | commands | | release commands go through the lease |
| Billing and trials | external provider records | webhooks | repeated callbacks | idempotent |
| Governance records other than proposals | documents | create, update, archive | | permissions |
| Tenant purge | manifest | evaluate | | complete |
| Retrieval, model gateway, storage, web, site, deployment scripts | little or none | | data, I/O and interface | |

### What is hard to test

`PROJECT.json` lists each hazard with its line.  They fall into six groups:

1. **Overlap.** A lock lapses while its holder works.  Some job types settle by
   row id and some by a fence on owner, attempts and freshness
   (`outbox.ts` 1326-1400); a late handler meets a row others have used since.
2. **A commit that looks like a failure.** An error after COMMIT makes the
   dispatcher revert an event that was published.
3. **Crashes and dying lanes.** A process exits with a batch; a settling write
   throws and takes its lane, or the whole batch, with it.
4. **Identities that change under a protocol.** A release is taken over by lease
   after lease, while its records keep naming the lease it began with.
5. **Read, call, write.** A webhook or notification handler writes back what it
   read before a request; a review calculates an outcome from the rows it saw; a
   recovery run claims the lease it read about earlier.
6. **Writes outside the transaction.** A provider request whose answer is lost may
   or may not have happened, and an e-mail that replaces a Slack message is a
   status, a row and a job in three writes.

## The modules

    EventOutbox --------+
                        +--> OutboxSystem           ReleaseLease
    WorkflowJobs -------+                                |
          |                                              v
          +--> WebhookDelivery                    ReleaseTransaction
          +--> NotificationDelivery
                                                  ProposalDecisions

An arrow is an INSTANCE: the lower module takes the steps of the upper one as
parts of its own.  Proofs are in modules of their own (`...Proofs`), and all
components but `EventOutbox`, which needs no definitions for its instance, have
an `MC...` module.

Three conventions hold throughout.

* **Time** is reduced to what the code asks about it: a lock or lease is fresh or
  not.  `LockExpires` and `Expire` are the passage of time.  `runAfter` only
  delays a claim, so a PENDING row is claimable at any moment.
* **Faults** of the worker modules (a lock lost in use, a failed write, a lost
  answer, a crash; in the queue also deferrals and operator requests) are counted
  up to a bound (`MaxFaults`, `MaxEventFaults`, `MaxJobFaults`, `MaxCallFaults`),
  so that properties can say what a fault excuses.  A lock that lapses on a row
  nobody holds is no fault; it is how the system recovers.  `ReleaseLease`,
  `ReleaseTransaction` and `ProposalDecisions` count none: there a lease may
  lapse, a step fail, a run be late or gone and a review abort at any time.
* **History variables** are in no guard: `serial` (claims of a row), `published`
  and `doubts` (publications of an event and reasons to repeat one), `posts` and
  `accepted` (requests and acceptances of a delivery), `plan` and `outcome` (what
  a release was for and how it ended), `sent` and `twice` (recovery requests),
  `asked` (channels a recipient wanted), `overlapped` (a review ran beside another
  transaction).  A definition introduced as a *faulty
  variant* is not part of `Next`; it is a plausible bug, kept beside the
  definition it would replace, that shows what a property would catch.

### WorkflowJobs: the durable job queue

| model | code |
|---|---|
| `status`, `attempts`, `lockedBy`, `expired`, `dependsOn` | columns of `WorkflowJob`; `expired` is `lockedAt` older than `LOCK_TIMEOUT_MS` |
| `queued`, `handling`, `seen`, `lanes`, `alive` | a process's memory: the claimed batch, running handlers, the row as RETURNING gave it, lanes that have not thrown |
| `Enqueue` | `enqueueJob` calls of one transaction, with the upsert that leaves an existing row alone and the lookup of the prerequisite |
| `Claim` | `claimPendingJobs`: one UPDATE over rows locked with SKIP LOCKED |
| `StartHandler` | a lane of `runWithBoundedConcurrency` takes the next job |
| `HandlerSucceeds`, `HandlerFails`, `HandlerDefers` | `processClaimedJob`: the handler and the one write that settles its claim |
| `SettlementThrows` | that write fails: the lane ends, with the last one the batch |
| `RequestVariantAgain`, `RetryDiagnostic`, `Discard` | the requests that put an ended row back, and `discardFailedJob` |

Job types are reduced to seven *kinds*, by the condition under which a claim may
be settled (`MaySettle`); the table of kinds is in the module.  An update that
matches no row has no effect, whether the code ignores its count or reports it.

Points worth knowing when comparing with the code:

* A completion that commits but is reported as failed needs no action of its
  own.  For a plain job the failure write that follows is the net effect
  (`HandlerFails`); for a fenced job that write matches nothing and the net
  effect is `HandlerSucceeds`.
* The claim's dependency test is evaluated on the statement's snapshot and not
  repeated once a row is locked.  This is harmless where a prerequisite's
  COMPLETED is final, which `OutcomeIsFinal` states and a proof establishes.
* The lanes of a batch are the smaller of concurrency and batch; the model's
  `Lanes` is that minimum or more, and a lane without a job does nothing.
* `lockedAt` is mostly written with `NOW()::timestamp`, in the session's time
  zone, and compared with a JavaScript `Date`.  Time zones are not modelled; a
  wrong one would show as locks that expire in use, which is an action here.
* `replayWorkflowJob` and `replayEvent` insert new rows: one more job or event.

### EventOutbox: the dispatcher

`Claim` locks a row and leaves it PENDING (`claimPendingEvents`); `Dispatch` is
the commit of the transaction that publishes an event; `DispatchFails` its
rollback with the write of `failEvent`; `DispatchUnacknowledged` a commit whose
success never reaches the dispatcher, so that `failEvent` reverts what was
published; `FailEventThrows` a failing `failEvent`, which ends the loop, drops
the batch and keeps that tick from reaching the job queue.  Both writes go by id
and so do not notice a lock that has been lost.

### OutboxSystem: both tables in one worker

Instantiates both modules.  Dispatching an event and enqueueing the jobs derived
from it are one step, as they are one transaction; a crash takes the process's
events and jobs together; a process claims events only with no job in its batch
and jobs only with no event (`runWorkerCycle`).  `Derived` is a constant: which
jobs an event has, with prerequisites inside that set, which the assumption
`KeyAssumption` states and `derive-jobs.ts` provides by putting the event's id
into each key.  The runs instantiate it with the meeting chain.

### WebhookDelivery: the queue's plain jobs at their most exposed

One delivery is one job, of the plain kind.  Reading the delivery (`Load`), the
request (`Post`, `PostThrows`) and the write (`RecordSuccess`, `RecordFailure`)
are steps of their own, between which locks lapse and other workers run the same
delivery.  `call[w][d]` is a handler's place and the `attempts` it has read.  A
write that fails inside the `try` block, even that of a success, leads to the
`catch` block, which records a failure: `RecordThrows`.  Payload, signature,
secret and response body are left out; no transition depends on them.  A second
publication of an event makes deliveries with new ids, and so is one more
delivery here.

### ReleaseLease: who may change a deployment

One action per operation of `control-plane-release-lease.ts`, each one
transaction over a locked row.  A run can be arbitrarily slow, so every
operation may be called with any lease ever issued (`f \in Fences`), which is how
late and repeated calls enter the model.  Lease id, capability token and fence
are issued and compared together, and are one number here.  Every column that a
later check depends on is kept, including the rollback record's originating
lease and how it is found again (`Origin`: the newest matching
`rollback_recorded` event; the code orders by creation time and takes ten, which
for one row under a lock is the order of fences).  Heartbeats, idempotent
repeats and refusals change nothing and are stuttering steps.  Receipts of
completed recoveries and the readback of status are not modelled here.

### NotificationDelivery: retries and a fallback over plain jobs

| model | code (`domain/src/notifications.ts`) |
|---|---|
| `status`, `recorded` | columns `status`, `attempts` of `NotificationDelivery` |
| `call[w][d]` | the handler's place and the `attempts` it has read |
| `Publish` | `createNotificationIntent`, in its caller's transaction: upsert of row and job for each channel; an existing row or job is left alone |
| `Load`, `Withhold`, `SkipUnsent` | `deliverNotificationDelivery`: ended rows are left; access denied or no address; no mail key or no Slack identity |
| `Send`, `SendThrows` | `sendEmail`, `sendSlackMessage`; the Slack client repeats a lost request by itself |
| `RecordSent`, `RecordFailure` | the writes by id: an e-mail throws until its fifth attempt, Slack fails at once |
| `FallBack`, `EnqueueFallback` | `createEmailFallbackDelivery`: the row, then its job, without a transaction |
| `CheckThrows`, `WriteThrows` | failing checks, and writes that fail inside `try` or `catch` |

Each call to the database or a provider is a step, so that an exit or another
worker can come between.  The checks of access read permissions and lineage that
this model does not have: each of them may grant, deny or fail.  A check that
fails (rather than denies) counts as a fault.

### ReleaseTransaction: the runs over the lease

A run is named by the lease it got.  Every call to the control plane is a step
of `ReleaseLease` taken together with the run's own step; a lost answer is the
same step with the run going where its error handler goes.  The provider is two
apps and at most one request of unknown fate for each: `Send` is answered
`succeeded`, `failed` (with or without an effect) or not at all, and `Settle`
then applies the request or drops it.

| model | code (`scripts/release`) |
|---|---|
| `Acquire`, `Confirm`, `Record`, `Begin` | `managed-azure-release-transaction.mjs` 516-574 |
| `Send`, `ReadBack` | heartbeat and `patchTemplate`, `waitForState` of the transport |
| `Compensate` | `compensate`: rolls back, or recovers if the target is protected |
| `Announce` | `managed-azure-recovery-intent.mjs`: the intent, and who may send the request |
| `Verify`, `Finalize`, `Reconcile` | acceptance, the three finalizing calls, and the look at the outcome after a lost answer |
| `Look`, `Claim`, `Choose` | `managed-azure-release-recovery.mjs`: status, claim, and what to do from the state found |
| `Fail`, `Exit`, `Leave`, `Mark` | error paths: abort before the release has begun, `mark_recovery_required` after |

*One assumption on time.* A request is sent right after a heartbeat and lasts at
most 20 s of a lease of five minutes, and the model assumes that what the
provider accepted has taken effect, if ever, before that lease runs out
(`Expire`).  Nothing in the code enforces it; provider writes carry no fence.
The hazard list has it, and every property of this module rests on it.

Left out: the exclusive activation policy, revisions made by older runners,
preflight and dry runs, the import of images, and writes of the image tag by
other code (which `ReleaseLease` has).

### ProposalDecisions: one proposal, its flow and its reviews

Submitting, publishing, resolving, returning to draft, reopening, archiving and
restoring take one advisory lock and take effect at their commit.  A review (a
decision, an objection, or the settlement of one) does not take that lock.  It is
a READ COMMITTED transaction in three steps: `Admit` (the flow is active and proved,
the permission epoch share-locked), `Count` (the rows it can see) and `Commit` (its
row and the outcome calculated from what it counted); it may `Abort` at any of
them.  A reset is two steps, `BeginReset` (the deletes) and `FinishReset` (the
update of flow and proposal), since a review may commit between them.  Archiving
and making private wait for reviews in flight through the permission epoch
(`MayWrite`).  How an outcome follows from counted reviews is not modelled:
`counted` is the set of rows it was calculated from.  `known` is whether the
latest receipt of the flow proves its content, which a reset loses.

## The runs

Each run has a `.cfg` of its name with its constants.  Symmetry is used only
where there is no liveness: among images, and among reviewers.

| run | instance | distinct states | question |
|---|---|---|---|
| `jobs_chain` | a fenced job, a plain job waiting for it, a SQL-lane job; 2 workers, 2 attempts, batches of 2, 1 lane, 2 faults | 558,536 | who may settle, in which order, how often, and does it end |
| `jobs_rearmed` | maintenance, variant and diagnostic; 2 lanes, 2 faults | 279,591 | the same where a row may be put back |
| `jobs_diagnostic` | one diagnostic, 2 workers | violation | the comment on its completing write |
| `events` | 2 events, 3 workers, 2 attempts, 3 faults | 206,939 | how often an event is published, and does it end |
| `system` | one event with the chain summary, insights, post; 2 workers, 2 event faults and 1 job fault | 140,249 | whole publications, and does everything come to rest |
| `lease` | 2 images, 2 roles, 2 writes, 3 fences | 105,037 | one release, readable, ended as planned |
| `webhooks` | one delivery, 2 workers, 2 delivery attempts, 3 job attempts, 2 + 2 faults | 258,702 | what a delivery shows, how often it is sent, and that it is |
| `webhooks_recorded` | one delivery, 2 workers, no fault | violation | what the documentation says of failures |
| `notifications` | a Slack delivery and the e-mail it falls back to; 2 workers, 2 attempts, 1 + 1 faults | 657,434 | told once, nothing forgotten, and does it end |
| `transaction` | 3 images, 3 fences; a third lease takes over the first release | 1,262,418 | row, runs and apps agree |
| `proposals` | one proposal, 2 reviewers | 68,266 | status, flow, policy and reviews agree |
| `proposals_cleared` | the same | violation | what a test says of a return to draft |

### What they show

**jobs_chain, jobs_rearmed.**
`OutcomeIsOfNewestClaim` (in both): an overtaken worker cannot complete or fail a fenced
job, whatever the order in which handlers return; `OutcomeIsFinal`: its outcome
does not change.  `NewestClaimCanSettle` is the other side: nothing but losing
its lock keeps the newest claim from settling, so fencing never locks everyone
out.  `RanAfterItsPrerequisite`: a job has run only if its prerequisite is done
for good.  `ExtraAttemptsHaveAFault`: the retry limit holds although it
is compared with the attempts of the claim, not of the row, and each claim beyond
it has a fault of its own.  `EveryJobSettles`: despite
crashes, dead lanes and lost locks, each job ends or waits for a prerequisite
that did not complete.  Plain jobs are *not* promised what fenced ones are: a
late worker does reopen a completed plain job.  That is the code's design, and
`webhooks` measures what it costs.

**events.** `PublishedOnce`: each publication after the first has a lost lock or
an unacknowledged commit *on that event* to blame; crashes, rollbacks and failed
writes alone never publish twice.  Without such a doubt, `UnsettledIsUnpublished`:
nobody repeats or gives up what was committed.
`EveryEventSettles`: no event stays locked in the table.

**system.** `PublicationIsWhole`: all jobs of an event are in the table, or none.
`RepublicationRepeatsNothing`: an event published twice wakes no finished fenced
job, since its keys are in the table.  `EveryChainSettles`: from the append to
the last job.

**lease.** `OneOpenRelease`: a release that has begun is the only one until
decided, across expiries, takeovers and attempts to reserve anew.
`OneLiveLease`: no two unexpired leases.  `RecoveryIsReadable`: no sequence of
failures and takeovers leaves a row its own later checks refuse.
`ConstraintsHold`: no operation makes a write that a CHECK constraint would
reject after the provider has been changed.  `IntentsStayUntilDecided`,
`ReleaseEndsAsPlanned`, `EndedStaysEnded`: nothing announced is forgotten, a
decided release leaves one of its three planned images, and what ended is not
taken up again by a run that still has its lease.

**webhooks.** `StatusIsEarned`, `AttemptsWereMade`: overlapping handlers lose
counts but invent none, and no status is shown that the requests do not justify.
`RepeatsHaveAFault`: every repeated request has a fault to blame.
`EveryDeliveryIsPosted`.

**notifications.** `StatusIsEarned`: SENT means accepted, and an e-mail is FAILED
only after its attempts.  `MessagesHaveAFault`: a recipient is told twice only
because something failed, also when the second message is the e-mail in place of
a Slack message.  `NothingIsForgotten`: as long as only providers fail, a
delivery that waits has a job that tries again, and a failed Slack message has
left an e-mail with a job.  This is where the two attempt limits, one of the queue
and one of the delivery, have to agree.  With faults it does not hold, and is not
claimed: a job that the queue gives up leaves its delivery PENDING, and an exit
between a Slack failure and the row of its e-mail leaves no e-mail.
`EveryDeliveryEnds`: there always comes a moment at which no PENDING delivery
waits for a job that goes on.

**transaction.** `RowTellsTheTruth`: while no release is under way both apps run
what the row names, and no request is open.  `WorkerFollowsWeb`: the state that
the recovery run cannot complete does not arise.  `RecoveryIsSentOnce`: whoever
takes over a recovery, each app is asked at most once.  `ReportIsTrue`: what a run
reports after a lost answer is what happened.

**proposals.** `PolicyIsAdopted`, `DecisionStands`, `ActiveFlowIsOpen`,
`OpenIsReviewed`, `ReviewsAreVisible`: whatever reviews commit late, the status of
a proposal, its flow and the policy corpus agree.  `OpenIsReviewed` states the
exception: a proposal that was archived and restored is open, and its flow stays
withdrawn.  `SerialReviewsCount`: an outcome counts every unresolved row as long
as reviews run one at a time.  Two reviews at once may each miss the other's
row; that is what READ COMMITTED gives, and the property says no more.

Every property has a mutant in `PROJECT.json`: a bug of the kind the hazard
describes (a dropped fence, an off-by-one, a second transaction, a phase not
set), with which TLC finds that property violated under the same bounds.

### Why the bounds are enough

*Two workers* are the least that overlap; a third adds a second overtaking of
the same row, which `events` has, and nothing that properties about a pair
(holder and newest claimer) can tell apart.  *Two attempts* give a first, a retry
and a limit.  *Two faults* give the longest stories these properties are about:
a lock lost in use followed by a crash or a failed write of the overtaker;
`events` has three, so that two doubts and a crash meet.  *One lane with a
batch of two* makes a job wait in memory while its lock lapses and makes a dying
lane drop it; *two lanes* (`jobs_rearmed`) run handlers of a process side by
side.  *Three fences* are an acquisition and two takeovers, or a finished release
and a second one of the same images with a takeover, which is what it takes to
confuse originating leases.  In `transaction` a constraint (`ThirdTakesOver`) spends
the third fence on the first release, since two takeovers in a row are what its
recoveries have to survive; a second release comes with the second fence.
`notifications` gives the delivery and its job two attempts each, equal as in the
code (five and five); one fault of the queue and one of a call are enough for a
handler that is overtaken and then loses a write.  `proposals` has two reviewers,
so that a reset, an archive and two reviews overlap; a proposal may go through any
number of rounds.  `MaxDeliveryAttempts` is 2 in place of 5 so that
FAILED is reachable with the faults at hand.  The kind `attempt` is in no run:
its condition is that of `variant` and `sql`, and the proofs cover every kind.
Deadlock checking is off where the system rests by design: all jobs ended, or the
last fence issued.

The proofs below make the bounds irrelevant for the safety properties; for
liveness they are what there is.

### Fairness

Fair are: a live worker's polling (the loop of `apps/worker/src/index.ts` never
ends), a lane taking its next job, a handler returning *or* throwing (which of
the two is open; a handler that hung would hold its lane for ever, and nothing
is claimed of that), and five minutes passing for a row that is in nobody's
memory.  Not fair are producers, operators, faults, and success: every attempt
may fail.

Weak fairness is enough in the components.  In `OutboxSystem` the claims of
events and of jobs disable each other for a while, as a process is busy with one
table at a time; there they are strongly fair, which `runWorkerCycle`
(`apps/worker/src/execution.ts` 27-36) justifies: a cycle comes round to dispatch
and then to process, however much there is of either.

`NotificationDelivery` asks for less than one condition for each step: a worker
goes on with what it has claimed (`Progress`), whichever of its handlers is next
and whatever the provider answers.

## The proofs

TLAPS checks 9,501 obligations in eight modules.  Each theorem holds for every
value of the constants that satisfies the named assumptions: any number of
jobs, events, deliveries, workers, images, reviewers, attempts, faults and
fences.  Every invariant and action property that a run checks is a theorem; only
liveness is left to TLC.

| module | theorems |
|---|---|
| `WorkflowJobsProofs` (1,277) | `TypeCorrect`, `NewestClaimSettles`, `OutcomeByNewestClaim`, `OutcomeStays`, `ChainOrder`, `RetryLimit` |
| `EventOutboxProofs` (419) | `TypeCorrect`, `PublicationBound`, `NothingHalfDispatched`, `DispatchIsFinal` |
| `OutboxSystemProofs` (328) | `ImplementsOutbox`, `ImplementsQueue`, `WholePublication`, `ChainOrder`, `NothingRepeated` |
| `ReleaseLeaseProofs` (559) | `TypeCorrect`, `NoConstraintViolation`, `MutualExclusion`, `OneReleaseAtATime`, `NeverUnreadable`, `EndsAsPlanned`, `EndedForGood`, `IntentsAreKept` |
| `WebhookDeliveryProofs` (983) | `ImplementsQueue`, `TypeCorrect`, `StatusEarned`, `AttemptsMade`, `RepeatsBounded` |
| `NotificationDeliveryProofs` (2,914) | `ImplementsQueue`, `TypeCorrect`, `StatusEarned`, `MessagesBounded`, `NoneForgotten` |
| `ReleaseTransactionProofs` (2,716) | `RunsUseTheLease`, `TypeCorrect`, `RowIsTrue`, `NeverMixed`, `RecoveryOnce`, `ReportsAreTrue` |
| `ProposalDecisionsProofs` (305) | `TypeCorrect`, `PolicyFollowsDecision`, `DecisionsStand`, `ActiveFlowsAreOpen`, `OpenProposalsAreReviewed`, `ReviewsStayVisible`, `SerialReviewsAreCounted` |

Five properties are proved and in no run, since a theorem settles them for every
instance and a run would repeat it: the type invariants of `EventOutbox`,
`WorkflowJobs`, `ReleaseLease`, `WebhookDelivery` and `ProposalDecisions`.  So are
`DispatchedStays` (what is dispatched without a doubt stays so) and
`ChainRunsInOrder` (the jobs of an event run in order under any number of
dispatchers).

**Assumptions.** `JobAssumption` (finitely many jobs, `None` is none of them,
kinds and prerequisites are functions), `BoundAssumption`, `OutboxAssumption` and
`WebhookAssumption` (limits are naturals, positive where a zero would mean
nothing is ever tried), `DerivedAssumption`, `KeyAssumption` (above),
`LeaseAssumption`, `TransactionAssumption`, `MembersAssumption` (finitely many
reviewers), and, for modules that instantiate others, the instances' assumptions.
`NotificationAssumption` says that only a Slack delivery has a fallback, that it is
an e-mail, and that no two deliveries share one: the table has a unique index over
notification and channel (`prisma/schema.prisma` 4162).  TLC evaluates all of them
in the runs.  `NoneForgotten` has a hypothesis of its own,
`MaxDeliveryAttempts <= MaxAttempts`; the code has 5 and 5
(`domain/src/notifications.ts` 19, `workflows/src/outbox.ts` 70).

**Queue.** The invariant adds to the types what makes a claim's identity
unforgeable: a running row has spent an attempt (`RunningWasClaimed`); no claim
in memory is newer than its row (`SeenIsPast`); and, while a row runs, the claim
in memory of the worker it names is its newest claim and agrees with it on
attempts (`ClaimIdentity`).  `LaneBound` and `QueuedOrHandled` say the same of
memory: handlers fit their lanes, and a job of a batch waits or runs.  Attempts
alone would not identify a claim, since a deferral refunds one and two claims may
carry the same number; the owner does it, because a process claims again only
when its batch has drained and so never holds two claims of one row.  Chain order
adds that the prerequisite of a claimed job is completed, and uses the outcome
theorem to keep it so.

*The retry limit* counts workers.  The worker that a running row names holds the
last attempt that was spent, so if it puts the row back there is one left.  Anyone
else with the job in memory is late (`Late`), became so by a fault, and of a plain
job may put the row back as well.  The invariant bounds attempts, plus late workers
with attempts left, plus one if the row is or will be claimable (`Owed`), by the
limit plus the faults (`RetryBudget`).

**Outbox.** `PublishedOnce` is not inductive.  The strengthening counts, for each
event, publications, plus claims in memory, plus one if the row is claimable or
will be, and bounds the sum by one plus the doubts: a dispatcher consumes its
claim to publish, a lapse of a lock in use adds a claimable row and a doubt.

**Both together.** Refinement first: every step of `OutboxSystem` is a step of
`EventOutbox` or leaves its variables alone, and likewise `WorkflowJobs`.  So
every component theorem holds of the system, and the composed properties need
only the joint facts: published if and only if all derived jobs are in the
table, each with the prerequisite it was derived with.

**Webhooks.** Again a refinement of the queue, then an invariant about calls in
progress and a budget: requests sent, plus workers that may still send, plus one
if the job is claimable or will be, are at most one plus the faults.

**Notifications.** The refinement of the queue first (a fallback is enqueued as any
job is); then where a handler stands must fit what was sent and recorded
(`Fits`, `RecordedFits`).  Messages are counted by tokens: one for each worker whose
handler has neither sent nor given up, one for a job that is or will be claimable.
An accepted message uses one up, a fault makes one, and a Slack delivery that fails
hands its token to its e-mail (`Chained`); the late workers that may still send a
delivery which has ended are counted apart.  `NoneForgotten` needs another
argument, since it speaks of behaviours without faults only: until the first fault
a running job is in exactly one hand, a row and its job have the same number of
attempts whenever the job waits, and a row without a job has a Slack handler on
its way to enqueue one (`Orderly`).  So the delivery gives up no later than its job,
which is where the hypothesis on the two limits is needed.

**Lease.** The inductive invariant has seven parts: the types, the constraints,
one live lease, the record is of the newest event that matches, intents name the
record's origin, history agrees with the row, and the plan agrees with the
columns.  The key lemma, `OriginIsRecorded`, says that looking up the
originating lease always gives the fence in the record; without it no later
operation could be shown to pass its own checks after the second takeover.

**Release runs.** The refinement comes first here as well, together with what does
not depend on the apps (`Base`): what a run has in hand fits its step, and what a
recovery run has read is still so unless another lease was given out since.  With
the lease's own invariant at hand, the rest (`Held`) ties the two apps to the run of
the newest lease.  What that run still has to do is exactly what the apps lack
(`AppsFit`); a request of unknown fate is its last one, and was for something new
(`PendingFits`); rollback revisions were running when their release was recorded
(`RecordFits`); a recovery request was sent only after its intent
(`SentFits`).  Every other run has no call left but those the lease refuses, which is
what the refinement gives, so the steps of a run that has lost its lease change
nothing here.  `ReportIsTrue` then follows for the step that ends a run, and stays
true since fences only grow and an ended release stays ended.  The proof uses the
assumption on time in one place, `Expire`.

**Proposals.** The properties of status, flow and policy are inductive together
(`DecisionInv`) with three more: a reset in progress began from a status it may
reset, an open proposal keeps its flow, and the flow of an open proposal is not
withdrawn while a review is in flight.  The last rests on the permission epoch,
and is what the cases of archiving and of the end of a reset need.
`SerialReviewsCount` has an invariant of its own (`SerialInv`): as long as nothing
overlapped there is at most one review in flight and none beside a reset, so what
it has seen is what is committed, and what a reset deletes is everything.

**What only TLC checks.** Liveness (`EveryJobSettles`, `EveryEventSettles`,
`EveryChainSettles`, `EveryDeliveryIsPosted`, `EveryDeliveryEnds`): fairness and
ENABLED are outside this prover's reach.  The three violations need no proof.
Induction over data and RECURSIVE operators are outside its reach as well; none of
the modules needs them.

## Three disagreements between code and text

**A lapsed lock does complete a release diagnostic** (`jobs_diagnostic`).  The
comment at `packages/workflows/src/release-diagnostic-handler.ts` 14 says "A
copied payload, expired worker lock or generic unknown-job completion cannot
pass."  The write compares status, owner and payload, not the age of the lock:
a worker whose lock has lapsed completes the job as long as nobody has claimed
it since.  The code's choice is safe in the model (`OutcomeIsOfNewestClaim`
holds for this kind); the comment claims more.

**A refused webhook delivery never becomes FAILED** (`webhooks_recorded`).  The
documentation (`docs/see/webhooks.mdx` 52) tells a user whose server answered
500 to "view the failed `WebhookDelivery` log".  A refusal is recorded as
PENDING with a `nextRetryAt` that no code reads, the handler returns, and the job
completes; five attempts are never reached without faults.  The counterexample
has no fault at all.

**A draft may hold a review** (`proposals_cleared`).  The test at
`packages/domain/src/proposals.test.ts` 2427 says that returning a proposal
"returns an open proposal to draft and clears stale approval state".
`returnProposalToDraft` (`proposals.ts` 1600) deletes the decisions and objections
it can see; a review takes no lock that it holds, and one that commits between
the delete and the update of the flow leaves its row with the draft,
under the flow that the next round uses again.

## What is not modelled

* *Within the modelled parts:* the scheduling phases of a worker cycle; clearing
  a finance extraction job for a new upload (its attempts go back to 0);
  cancelling the jobs of a removed source; the phases inside a variant's or
  maintenance job's payload; the renewal of a lock (it keeps a fresh lock
  fresh); admission checks of the lease (they may refuse anything, a stutter);
  webhook secrets, signatures and inbound webhooks.
* *Proposals:* how an outcome follows from the reviews it counts (approval
  modes, quorums, exemptions: arithmetic over a set); who may do what; the tension
  and meeting records that a proposal is linked to.
* *Notifications:* preferences and what a message says; digests; the checks of
  access, which may answer anything.
* *Release runs:* listed with `ReleaseTransaction`.
* *Parts left for the plan:* knowledge sync leases, variants, maintenance pages,
  the scheduler lock.
* *Left aside:* retrieval, ranking, prompts and the model gateway (data, not
  control); storage, web, site and deployment scripts (I/O and interface);
  finance imports, meetings, newspapers, connectors, conversations, OAuth,
  billing, tenant purge (workflows of their own whose background work runs on the
  queue modelled here); source lineage (set comparison over the whole schema,
  which needs a study of its own and comes with approval flows).

## The plan

In order; the first nine are modelled, checked and proved.

1. `WorkflowJobs`, its runs and proofs.  *Done.*
2. `EventOutbox`, its run and proofs.  *Done.*
3. `OutboxSystem`: the composition, its refinements and liveness.  *Done.*
4. `ReleaseLease`: runs and proofs.  *Done.*
5. `WebhookDelivery`: a handler over the queue, runs and proofs.  *Done.*
6. `ProposalDecisions`: proposals with their approval flow, runs and proofs.  *Done.*
7. `ReleaseTransaction` over `ReleaseLease`: its run and proofs.  *Done.*
8. `NotificationDelivery` over `WorkflowJobs`: its run and proofs.  *Done.*
9. The retry limit of the queue, proved.  *Done.*
10. `JobLifecycle`: an abstract job (waiting, in hand, done) that `WorkflowJobs`
    refines for the `Once` kinds, as a PROPERTY of a run and as a theorem.
11. `KnowledgeSyncLease` (timed renewal), `VariantGeneration` and `MaintenanceChain`
    (payload phases), `SchedulerLock`.
12. `derive-jobs.ts` as an operator from event types to jobs, checked against
    `DerivedAssumption` and `KeyAssumption` for every event type.
