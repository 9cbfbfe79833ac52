---------------------------- MODULE ReleaseLease ----------------------------
(***************************************************************************)
(* The managed release lease of one customer deployment                    *)
(* (packages/domain/src/control-plane-release-lease.ts): the columns of    *)
(* its "CustomerDeployment" row that say which release run may change the  *)
(* deployment, and the operations that runs call over the control plane.   *)
(*                                                                         *)
(* Each operation is one transaction that locks the row.  A run may be     *)
(* arbitrarily slow, so any lease ever issued may be presented by any      *)
(* operation at any time.  A lease is named by the fence it was issued     *)
(* with: every issue makes a new id, a new capability and the next fence,  *)
(* and the three are compared together.  Admission (eligibility, bindings, *)
(* account authority) may refuse any operation without an effect: a        *)
(* stuttering step.  Of time there is only whether a lease has expired.    *)
(***************************************************************************)
EXTENDS Integers, FiniteSets

CONSTANTS
  Images,    \* release image tags
  Roles,     \* the apps of a deployment: web and worker
  Writes,    \* the provider writes that a recovery intent may announce
  None,      \* no image
  MaxFence   \* MAX_INT

ASSUME LeaseAssumption ==
  /\ None \notin Images
  /\ MaxFence \in Nat

VARIABLES
  image,     \* the columns of the row: releaseImageTag,
  fence,     \*   releaseLeaseFence,
  phase,     \*   releaseLeasePhase,
  expected,  \*   releaseLeaseExpectedImageTag,
  incoming,  \*   releaseLeaseIncomingImageTag,
  record,    \*   releaseLeaseRollbackRecord,
  intents,   \*   the intents of releaseLeaseRecoveryEvidence
  events,    \* the rollback_recorded events of the deployment
  live,      \* the leases issued whose time has not run out
  plan,      \* history: the images that the release of a lease is about
  outcome    \* history: what became of the release of a lease

lease == <<phase, expected, incoming, record, intents>>
vars == <<image, fence, lease, events, live, plan, outcome>>

Fences == 1 .. MaxFence
Phases == {"NONE", "RESERVED", "MUTATING", "RECOVERY_REQUIRED"}
Outcomes == {"none", "reserved", "dropped", "open", "succeeded", "recovered", "rolled_back"}

(* A rollback record keeps the lease that made it and the image of a       *)
(* compatible recovery, or None in a record of schema version 1.           *)
NoRecord == [origin |-> 0, recovery |-> None]
Records == [origin : Fences, recovery : Images \cup {None}]

NoIntent == [origin |-> 0, write |-> None]
Intents == [origin : Fences, write : Writes]
NoIntents == [role \in Roles |-> NoIntent]

(* The incoming image and version: a version may name a rollback archive.  *)
Targets == [image : Images, archived : BOOLEAN]

NoPlan == [baseline |-> None, target |-> None, recovery |-> None]
Plans == [baseline : Images \cup {None}, target : Images \cup {None},
          recovery : Images \cup {None}]

Undecided == phase \in {"MUTATING", "RECOVERY_REQUIRED"}
-----------------------------------------------------------------------------
Init ==
  /\ image \in Images
  /\ fence = 0
  /\ phase = "NONE"
  /\ expected = None /\ incoming = None
  /\ record = NoRecord
  /\ intents = NoIntents
  /\ events = {}
  /\ live = {}
  /\ plan = [f \in Fences |-> NoPlan]
  /\ outcome = [f \in Fences |-> "none"]

(* storedRollbackEnvelope: the row's own lease made the record, or the     *)
(* release is in recovery and an earlier lease did.                        *)
Readable ==
  \/ record.origin = fence
  \/ phase = "RECOVERY_REQUIRED" /\ record.origin <= fence

(* Every operation on a lease reads the record, if there is one, and is    *)
(* refused when it is not readable.                                        *)
Admitted == record # NoRecord => Readable

OwnedOrExpired(f) == f = fence /\ phase # "NONE"
Owned(f) == OwnedOrExpired(f) /\ f \in live

(* originatingRollbackEnvelope: the lease a release began with, looked up  *)
(* in the newest event that names the images of the row.                   *)
Matching ==
  {e \in events : e.expected = expected /\ e.incoming = incoming /\ e.fence <= fence}

(* Faulty variant: the events are read in the opposite order.              *)
OldestOrigin ==
  IF phase = "RECOVERY_REQUIRED" /\ Matching # {}
    THEN (CHOOSE e \in Matching : \A other \in Matching : e.fence <= other.fence).fence
    ELSE record.origin

Origin ==
  IF phase = "RECOVERY_REQUIRED" /\ Matching # {}
    THEN (CHOOSE e \in Matching : \A other \in Matching : other.fence <= e.fence).fence
    ELSE record.origin

(* validateStoredRecoveryEvidence: each intent names the originating lease.*)
IntentsReadable ==
  \A role \in Roles : intents[role] # NoIntent => intents[role].origin = Origin

(* clearLeaseData; releaseLeaseFence is kept.                              *)
(* Faulty variant: the recovery evidence is left in the row.               *)
ClearKeepingEvidence ==
  /\ phase' = "NONE"
  /\ expected' = None /\ incoming' = None
  /\ record' = NoRecord
  /\ UNCHANGED intents

Clear ==
  /\ phase' = "NONE"
  /\ expected' = None /\ incoming' = None
  /\ record' = NoRecord
  /\ intents' = NoIntents

-----------------------------------------------------------------------------
(* A write of the image tag by other code (upgradeCustomerDeployment): the *)
(* update guard of the table refuses it while the row has a lease.         *)
(* Faulty variant: there is no guard.                                      *)
RecordReleaseUnguarded(i) ==
  /\ image' = i
  /\ UNCHANGED <<fence, lease, events, live, plan, outcome>>

RecordRelease(i) ==
  /\ phase = "NONE"
  /\ image' = i
  /\ UNCHANGED <<fence, lease, events, live, plan, outcome>>

(* Faulty variant: an expired lease of any phase is replaced.              *)
FreeOnceExpired == phase = "NONE" \/ fence \notin live

FreeToAcquire ==
  \/ phase = "NONE"
  \/ phase = "RESERVED" /\ fence \notin live

(* Faulty variant of Acquire: the fence is not bounded.                    *)
AcquireUnbounded(target) ==
  /\ FreeToAcquire
  /\ target.image # image
  /\ fence' = fence + 1
  /\ phase' = "RESERVED"
  /\ expected' = image
  /\ incoming' = target
  /\ record' = NoRecord
  /\ intents' = NoIntents
  /\ live' = live \cup {fence'}
  /\ plan' = [plan EXCEPT ![fence'] =
               [baseline |-> image, target |-> target.image, recovery |-> None]]
  /\ outcome' = [f \in Fences |->
       IF f = fence' THEN "reserved"
       ELSE IF outcome[f] = "reserved" THEN "dropped" ELSE outcome[f]]
  /\ UNCHANGED <<image, events>>

(* acquireManagedReleaseLease: a new reservation, in place of an expired   *)
(* one if there is one.                                                    *)
Acquire(target) ==
  /\ FreeToAcquire
  /\ fence < MaxFence
  /\ target.image # image
  /\ fence' = fence + 1
  /\ phase' = "RESERVED"
  /\ expected' = image
  /\ incoming' = target
  /\ record' = NoRecord
  /\ intents' = NoIntents
  /\ live' = live \cup {fence'}
  /\ plan' = [plan EXCEPT ![fence'] =
               [baseline |-> image, target |-> target.image, recovery |-> None]]
  /\ outcome' = [f \in Fences |->
       IF f = fence' THEN "reserved"
       ELSE IF outcome[f] = "reserved" THEN "dropped" ELSE outcome[f]]
  /\ UNCHANGED <<image, events>>

(* recordManagedReleaseRollbackRecord                                      *)
RecordRollback(f, recovery) ==
  /\ Owned(f) /\ Admitted
  /\ phase = "RESERVED"
  /\ record = NoRecord
  /\ record' = [origin |-> fence, recovery |-> recovery]
  /\ events' = events \cup {[fence |-> fence, expected |-> expected, incoming |-> incoming]}
  /\ plan' = [plan EXCEPT ![f] =
               [baseline |-> plan[f].baseline, target |-> plan[f].target, recovery |-> recovery]]
  /\ UNCHANGED <<image, fence, phase, expected, incoming, intents, live, outcome>>

(* beginManagedReleaseMutation                                             *)
Begin(f) ==
  /\ Owned(f) /\ Admitted
  /\ phase = "RESERVED"
  /\ image = expected
  /\ record # NoRecord
  /\ phase' = "MUTATING"
  /\ outcome' = [outcome EXCEPT ![f] = "open"]
  /\ UNCHANGED <<image, fence, expected, incoming, record, intents, events, live, plan>>

(* abortManagedReleaseLease: of a reservation only, expired or not.        *)
Abort(f) ==
  /\ OwnedOrExpired(f) /\ Admitted
  /\ phase = "RESERVED"
  /\ Clear
  /\ live' = live \ {f}
  /\ outcome' = [outcome EXCEPT ![f] = "dropped"]
  /\ UNCHANGED <<image, fence, events, plan>>

(* markManagedReleaseRecoveryRequired: the run does not know what became   *)
(* of a write.  It renews a lease that has expired, and keeps the intents. *)
(* Faulty variant: the stage and code replace the evidence.                *)
MarkReplacingEvidence(f) ==
  /\ OwnedOrExpired(f) /\ Admitted
  /\ record # NoRecord
  /\ IntentsReadable
  /\ phase' = "RECOVERY_REQUIRED"
  /\ intents' = NoIntents
  /\ live' = live \cup {fence}
  /\ outcome' = [outcome EXCEPT ![Origin] = "open"]
  /\ UNCHANGED <<image, fence, expected, incoming, record, events, plan>>

MarkRecoveryRequired(f) ==
  /\ OwnedOrExpired(f) /\ Admitted
  /\ record # NoRecord
  /\ IntentsReadable
  /\ phase' = "RECOVERY_REQUIRED"
  /\ live' = live \cup {fence}
  /\ outcome' = [outcome EXCEPT ![Origin] = "open"]
  /\ UNCHANGED <<image, fence, expected, incoming, record, intents, events, plan>>

(* recordManagedReleaseRecoveryIntent: before its first provider write of  *)
(* a recovery, a run announces it; a second one for the role is refused    *)
(* unless it is the same.                                                  *)
RecordIntent(f, role, write) ==
  /\ Owned(f) /\ Admitted
  /\ Undecided /\ record # NoRecord
  /\ record.recovery # None
  /\ IntentsReadable
  /\ intents[role] \in {NoIntent, [origin |-> Origin, write |-> write]}
  /\ intents' = [intents EXCEPT ![role] = [origin |-> Origin, write |-> write]]
  /\ phase' = "RECOVERY_REQUIRED"
  /\ UNCHANGED <<image, fence, expected, incoming, record, events, live, plan, outcome>>

(* claimManagedReleaseRecovery: another run takes over a release whose     *)
(* lease has expired.                                                      *)
(* Faulty variants: the phase is kept; the lease need not have expired.    *)
ClaimKeepingPhase(f) ==
  /\ f = fence /\ Admitted
  /\ Undecided /\ fence \notin live
  /\ record # NoRecord
  /\ fence < MaxFence
  /\ fence' = fence + 1
  /\ record' = [origin |-> Origin, recovery |-> record.recovery]
  /\ live' = live \cup {fence'}
  /\ UNCHANGED <<image, phase, expected, incoming, intents, events, plan, outcome>>

ClaimAtOnce(f) ==
  /\ f = fence /\ Admitted
  /\ Undecided
  /\ record # NoRecord
  /\ fence < MaxFence
  /\ fence' = fence + 1
  /\ phase' = "RECOVERY_REQUIRED"
  /\ record' = [origin |-> Origin, recovery |-> record.recovery]
  /\ live' = live \cup {fence'}
  /\ UNCHANGED <<image, expected, incoming, intents, events, plan, outcome>>

ClaimRecovery(f) ==
  /\ f = fence /\ Admitted
  /\ Undecided /\ fence \notin live
  /\ record # NoRecord
  /\ fence < MaxFence
  /\ fence' = fence + 1
  /\ phase' = "RECOVERY_REQUIRED"
  /\ record' = [origin |-> Origin, recovery |-> record.recovery]
  /\ live' = live \cup {fence'}
  /\ UNCHANGED <<image, expected, incoming, intents, events, plan, outcome>>

-----------------------------------------------------------------------------
(* The three ends of a release that has begun.                             *)
Decide(f, result) ==
  /\ Clear
  /\ live' = live \ {f}
  /\ outcome' = [outcome EXCEPT ![Origin] = result]
  /\ UNCHANGED <<fence, events, plan>>

(* finalizeManagedReleaseSuccess                                           *)
FinalizeSuccess(f) ==
  /\ Owned(f) /\ Admitted
  /\ Undecided /\ record # NoRecord
  /\ ~incoming.archived
  /\ image' = incoming.image
  /\ Decide(f, "succeeded")

(* finalizeManagedReleaseCompatibleRecovery                                *)
FinalizeRecovery(f) ==
  /\ Owned(f) /\ Admitted
  /\ Undecided /\ record # NoRecord
  /\ record.recovery # None
  /\ image' = record.recovery
  /\ Decide(f, "recovered")

(* finalizeManagedReleaseRollback                                          *)
FinalizeRollback(f) ==
  /\ Owned(f) /\ Admitted
  /\ Undecided /\ record # NoRecord
  /\ record.recovery = None
  /\ Decide(f, "rolled_back")
  /\ UNCHANGED image

(* TTL_MS passes since the last renewal.                                   *)
Expire(f) ==
  /\ f \in live
  /\ live' = live \ {f}
  /\ UNCHANGED <<image, fence, lease, events, plan, outcome>>

Next ==
  \/ \E i \in Images : RecordRelease(i)
  \/ \E target \in Targets : Acquire(target)
  \/ \E f \in Fences, recovery \in Images \cup {None} : RecordRollback(f, recovery)
  \/ \E f \in Fences : Begin(f) \/ Abort(f) \/ MarkRecoveryRequired(f)
  \/ \E f \in Fences, role \in Roles, write \in Writes : RecordIntent(f, role, write)
  \/ \E f \in Fences : ClaimRecovery(f) \/ Expire(f)
  \/ \E f \in Fences : FinalizeSuccess(f) \/ FinalizeRecovery(f) \/ FinalizeRollback(f)

Spec == Init /\ [][Next]_vars
-----------------------------------------------------------------------------
TypeOK ==
  /\ image \in Images
  /\ fence \in 0 .. MaxFence
  /\ phase \in Phases
  /\ expected \in Images \cup {None}
  /\ incoming \in Targets \cup {None}
  /\ record \in Records \cup {NoRecord}
  /\ intents \in [Roles -> Intents \cup {NoIntent}]
  /\ events \subseteq [fence : Fences, expected : Images, incoming : Targets]
  /\ live \subseteq Fences
  /\ plan \in [Fences -> Plans]
  /\ outcome \in [Fences -> Outcomes]

(* No operation makes a write that a CHECK constraint of the table refuses *)
(* (slot, rollback and baseline), which would lose the operation after its *)
(* provider writes: the columns of a lease come and go together, a release *)
(* that has begun has its rollback record, and the image tag is the        *)
(* baseline that the lease expects for as long as there is a lease.        *)
ConstraintsHold ==
  /\ phase = "NONE" =>
       expected = None /\ incoming = None /\ record = NoRecord /\ intents = NoIntents
  /\ phase # "NONE" => fence > 0 /\ incoming \in Targets /\ image = expected
  /\ Undecided => record # NoRecord

(* A release that has begun, or whose run lost track of a write, is the    *)
(* only one until it is decided: across expiries, takeovers and attempts   *)
(* to reserve the deployment anew, it is the release that the row says is  *)
(* under way and that the next end will be written for.                    *)
OneOpenRelease ==
  \A f \in Fences : outcome[f] = "open" <=> Undecided /\ f = Origin

(* Two runs never both hold a lease whose time has not run out.            *)
OneLiveLease == live # {} => phase # "NONE" /\ live = {fence}

(* Whatever runs failed and took over from each other, the record and the  *)
(* intents they left pass the checks of every later operation.  A row that *)
(* does not pass them could be neither heartbeat, claimed nor finished.    *)
RecoveryIsReadable == Admitted /\ IntentsReadable

(* A recovery intent stays in the row, as it was announced, until the      *)
(* release is decided: no takeover or failed run hides a provider write    *)
(* that may have happened.                                                 *)
IntentsStayUntilDecided ==
  [][\A role \in Roles :
       intents[role] # NoIntent /\ intents'[role] # intents[role]
         => \E f \in Fences : outcome[f] = "open" /\ outcome'[f] # "open"]_vars

(* A decided release leaves the deployment with an image of its own: the   *)
(* target it was acquired for, the recovery recorded before it began, or   *)
(* the baseline it started from, however many runs it went through.        *)
ReleaseEndsAsPlanned ==
  [][\A f \in Fences :
       outcome[f] = "open" /\ outcome'[f] # "open"
         => \/ outcome'[f] = "succeeded" /\ image' = plan[f].target
            \/ outcome'[f] = "recovered" /\ image' = plan[f].recovery
            \/ outcome'[f] = "rolled_back" /\ image' = plan[f].baseline]_vars

(* What has ended stays so: a release that was given up, replaced or       *)
(* decided is never taken up again by a run that still has its lease.      *)
EndedStaysEnded ==
  [][\A f \in Fences :
       outcome[f] \in Outcomes \ {"none", "reserved", "open"}
         => outcome'[f] = outcome[f]]_vars
=============================================================================
