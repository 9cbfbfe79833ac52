------------------------ MODULE ReleaseTransaction ------------------------
(***************************************************************************)
(* The runs that release a managed Azure deployment                        *)
(* (managed-azure-release-transaction.mjs) and those that recover one      *)
(* (managed-azure-release-recovery.mjs) over the lease of ReleaseLease:    *)
(* every call of a run to the control plane is a step of that module.      *)
(*                                                                         *)
(* A run changes the two apps of the deployment by requests to a provider  *)
(* that knows nothing of leases.  Any step of a run may fail, any answer   *)
(* may be lost, a run may exit or stall between two steps, and a request   *)
(* without an answer may still take effect, or not.  Of time the model     *)
(* has what ReleaseLease has, and one assumption: what was sent right      *)
(* after a heartbeat takes effect, if ever, before the lease runs out.  A  *)
(* request lasts REQUEST_TIMEOUT_MS (20 s) of the TTL_MS (5 min) of a      *)
(* lease; nothing in the code bounds what the provider does afterwards.    *)
(*                                                                         *)
(* Left out: the exclusive activation policy, revisions of older runners,  *)
(* dry runs, and writes of the image tag by other code.                    *)
(***************************************************************************)
EXTENDS Integers, Sequences, FiniteSets

CONSTANTS
  Images,   \* releases
  None,     \* no image
  MaxFence  \* bound: the leases issued

Roles == {"web", "worker"}
Writes == {"baseline", "forward"}  \* a recovery is named by what it replaces

VARIABLES
  image, fence, phase, expected, incoming, record, intents, events, live,
  plan, outcome,  \* see ReleaseLease
  app,       \* the revision that each app runs
  pending,   \* a request of unknown fate for each app
  previous,  \* the revisions of the rollback record of each lease
  run,       \* the run that got each lease
  glance,    \* the status read by a recovery run that has no lease yet
  sent,      \* history: the recovery requests, as originating lease and role
  twice      \* history: a recovery request was sent again

leaseVars == <<image, fence, phase, expected, incoming, record, intents, events,
               live, plan, outcome>>
providerVars == <<app, pending>>
runVars == <<previous, run, glance>>
history == <<sent, twice>>
vars == <<leaseVars, providerVars, runVars, history>>

Lease == INSTANCE ReleaseLease

ASSUME TransactionAssumption == Lease!LeaseAssumption

Fences == 1 .. MaxFence

(* A revision has the originating lease of its release in its name.        *)
Kinds == {"initial", "forward", "rollback", "recovery_over_baseline",
          "recovery_over_forward"}
Revisions == [image : Images, origin : 0 .. MaxFence, kind : Kinds]
NoRevision == [image |-> None, origin |-> 0, kind |-> "initial"]

Steps == {"none", "acquired", "confirmed", "recorded", "ready", "announced", "sent",
          "verified", "claimed", "leaving", "lost", "unsure", "done"}
Reports == {"none", "SUCCEEDED", "ROLLED_BACK", "RECOVERED"}

Todos == {<<>>, <<"web">>, <<"worker">>, <<"web", "worker">>, <<"worker", "web">>}

(* What a run has in hand: the apps it still has to write and what it      *)
(* found them to run, the roles whose intents it has read instead, and the *)
(* answer to its last request.                                             *)
Runs == [step : Steps, goal : {"none", "succeed", "roll_back", "recover"},
         origin : 0 .. MaxFence, todo : Todos,
         found : [Roles -> Writes \cup {"unknown"}], read : SUBSET Roles,
         answer : {"none", "succeeded", "failed", "unknown"}, report : Reports]

NoRun == [step |-> "none", goal |-> "none", origin |-> 0, todo |-> <<>>,
          found |-> [role \in Roles |-> "unknown"], read |-> {},
          answer |-> "none", report |-> "none"]

NoGlance == [fence |-> 0, origin |-> 0, intents |-> Lease!NoIntents]

-----------------------------------------------------------------------------
Init ==
  /\ Lease!Init
  /\ app = [role \in Roles |-> [image |-> image, origin |-> 0, kind |-> "initial"]]
  /\ pending = [role \in Roles |-> NoRevision]
  /\ previous = [f \in Fences |-> [role \in Roles |-> NoRevision]]
  /\ run = [f \in Fences |-> NoRun]
  /\ glance = NoGlance
  /\ sent = {} /\ twice = FALSE

At(f, step) == run[f].step = step
Goes(f, step) == run' = [run EXCEPT ![f].step = step]

(* The run drops its plan: it only has its last call to make, or nothing.  *)
Drops(f, step) ==
  run' = [run EXCEPT ![f] = [NoRun EXCEPT !.step = step, !.origin = run[f].origin]]
Ends(f, report) ==
  run' = [run EXCEPT ![f] =
    [NoRun EXCEPT !.step = "done", !.origin = run[f].origin, !.report = report]]

Origin(f) == run[f].origin
Role(f) == Head(run[f].todo)

(* A run knows the images of its release from its input or the record.     *)
Forward(o) == [image |-> plan[o].target, origin |-> o, kind |-> "forward"]
Rollback(o) == [image |-> plan[o].baseline, origin |-> o, kind |-> "rollback"]
Recovery(o, over) ==
  [image |-> plan[o].recovery, origin |-> o,
   kind |-> IF over = "baseline" THEN "recovery_over_baseline"
                                 ELSE "recovery_over_forward"]

Template(f, role) ==
  CASE run[f].goal = "succeed" -> Forward(Origin(f))
    [] run[f].goal = "roll_back" -> Rollback(Origin(f))
    [] run[f].goal = "recover" -> Recovery(Origin(f), run[f].found[role])

(* classifyRole, and classifyBaselineRole and classifyForwardRole of a     *)
(* recovery run, which also knows the revisions of a rollback.             *)
Classified(f, role) ==
  IF \/ app[role] = previous[Origin(f)][role]
     \/ f # Origin(f) /\ app[role] = Rollback(Origin(f))
    THEN "baseline"
  ELSE IF app[role] = Forward(Origin(f)) THEN "forward" ELSE "unknown"

Classification(f) == [role \in Roles |-> Classified(f, role)]
Known(found) == \A role \in Roles : found[role] # "unknown"

(* Faulty variant: the web app is rolled back first.                       *)
WebFirst(found) ==
  CHOOSE todo \in Todos \ {<<"worker", "web">>} :
    {todo[i] : i \in DOMAIN todo} = {role \in Roles : found[role] = "forward"}

(* The apps to roll back: the worker first, as it was written last.        *)
Written(found) ==
  CHOOSE todo \in Todos \ {<<"web", "worker">>} :
    {todo[i] : i \in DOMAIN todo} = {role \in Roles : found[role] = "forward"}

-----------------------------------------------------------------------------
(* A step fails: before the release has begun the run gives up its lease,  *)
(* afterwards it says that recovery is required, and a recovery run may    *)
(* also just end.  An unanswered end of a compatible recovery is looked up.*)
Fails(f) ==
  \/ f = Origin(f) /\ run[f].step \in {"acquired", "confirmed", "recorded"}
     /\ Drops(f, "leaving")
  \/ At(f, "verified") /\ run[f].goal = "recover" /\ Drops(f, "unsure")
  \/ /\ run[f].step \in {"recorded", "ready", "announced", "sent", "verified", "claimed"}
     /\ ~(At(f, "verified") /\ run[f].goal = "recover")
     /\ \/ Drops(f, "lost")
        \/ f # Origin(f) /\ Ends(f, "none")

Fail(f) == Fails(f) /\ UNCHANGED <<leaseVars, providerVars, previous, glance, history>>

(* A run exits, or its last call is refused; it reports no outcome.        *)
Exit(f) ==
  /\ run[f].step \notin {"none", "done"}
  /\ Ends(f, "none")
  /\ UNCHANGED <<leaseVars, providerVars, previous, glance, history>>

(* The call "abort" of a run that has not begun.                           *)
Leave(f) ==
  /\ At(f, "leaving")
  /\ Lease!Abort(f)
  /\ Ends(f, "none")
  /\ UNCHANGED <<providerVars, previous, glance, history>>

(* markRecovery and recordRecoveryOrFail                                   *)
Mark(f) ==
  /\ At(f, "lost")
  /\ Lease!MarkRecoveryRequired(f)
  /\ Ends(f, "none")
  /\ UNCHANGED <<providerVars, previous, glance, history>>

(* The call "acquire"; when its answer is lost nobody holds the lease.     *)
Acquire(i) ==
  /\ Lease!Acquire([image |-> i, archived |-> FALSE])
  /\ \E begun \in {[NoRun EXCEPT !.step = "acquired", !.goal = "succeed",
                                  !.todo = <<"web", "worker">>],
                    [NoRun EXCEPT !.step = "done"]} :
       run' = [run EXCEPT ![fence'] = [begun EXCEPT !.origin = fence']]
  /\ UNCHANGED <<providerVars, previous, glance, history>>

(* The apps are read again under the lease, and are the baseline.          *)
Confirm(f) ==
  /\ At(f, "acquired")
  /\ \A role \in Roles : app[role].image = plan[f].baseline
  /\ previous' = [previous EXCEPT ![f] = app]
  /\ Goes(f, "confirmed")
  /\ UNCHANGED <<leaseVars, providerVars, glance, history>>

(* The call "record_rollback": protected targets have a recovery release.  *)
Record(f, recovery) ==
  /\ At(f, "confirmed")
  /\ Lease!RecordRollback(f, recovery)
  /\ Goes(f, "recorded")
  /\ UNCHANGED <<providerVars, previous, glance, history>>

(* The call "begin", after the images have been imported.                  *)
Begin(f) ==
  /\ At(f, "recorded")
  /\ Lease!Begin(f)
  /\ Goes(f, "ready")
  /\ UNCHANGED <<providerVars, previous, glance, history>>

-----------------------------------------------------------------------------
(* A heartbeat and patchTemplate.  Before the worker is written, the run   *)
(* that began the release looks for drift of both apps.                    *)
Send(f) ==
  LET role == Role(f) IN
  /\ At(f, IF run[f].goal = "recover" THEN "announced" ELSE "ready")
  /\ run[f].todo # <<>>
  /\ Lease!Owned(f)
  /\ run[f].goal = "succeed" /\ f = Origin(f) /\ role = "worker" =>
       Classified(f, "worker") = "baseline" /\ Classified(f, "web") = "forward"
  /\ \E answer \in {"succeeded", "failed", "unknown"} :
       /\ run' = [run EXCEPT ![f].step = "sent", ![f].answer = answer]
       /\ \/ answer # "unknown" /\ UNCHANGED pending
             /\ app' = [app EXCEPT ![role] = Template(f, role)]
          \/ answer = "failed" /\ UNCHANGED providerVars
          \/ answer = "unknown" /\ UNCHANGED app
             /\ pending' = [pending EXCEPT ![role] = Template(f, role)]
  /\ IF run[f].goal = "recover"
       THEN /\ sent' = sent \cup {<<Origin(f), role>>}
            /\ twice' = (twice \/ <<Origin(f), role>> \in sent)
       ELSE UNCHANGED history
  /\ UNCHANGED <<leaseVars, previous, glance>>

(* The provider does what it was asked to, or does not.                    *)
Settle(role) ==
  /\ pending[role] # NoRevision
  /\ \E revision \in {pending[role], app[role]} : app' = [app EXCEPT ![role] = revision]
  /\ pending' = [pending EXCEPT ![role] = NoRevision]
  /\ UNCHANGED <<leaseVars, runVars, history>>

(* waitForState, and the poll of a recovery revision: an app runs what was *)
(* asked for.  An answer that does not say so is only made good by this    *)
(* for the first run of a release and for recoveries.                      *)
ReadBack(f) ==
  /\ At(f, "sent")
  /\ \/ run[f].answer = "succeeded"
     \/ run[f].answer = "unknown" /\ run[f].goal = "succeed" /\ f = Origin(f)
     \/ run[f].answer # "failed" /\ run[f].goal = "recover"
  /\ app[Role(f)] = Template(f, Role(f))
  /\ run' = [run EXCEPT ![f].step = "ready", ![f].answer = "none",
                        ![f].todo = Tail(run[f].todo)]
  /\ UNCHANGED <<leaseVars, providerVars, previous, glance, history>>

(* Faulty variant: an app whose state is unknown is taken for the baseline.*)
CompensateUnknown(f) ==
  LET found == Classification(f) IN
  /\ f = Origin(f) /\ run[f].goal = "succeed"
  /\ \/ At(f, "sent")
     \/ At(f, "ready") /\ run[f].todo # <<"web", "worker">>
  /\ Lease!Owned(f)
  /\ LET protected == plan[f].recovery # None IN
     run' = [run EXCEPT ![f].step = "ready", ![f].answer = "none",
               ![f].found = found,
               ![f].goal = IF protected THEN "recover" ELSE "roll_back",
               ![f].todo = IF protected THEN <<"web", "worker">> ELSE Written(found)]
  /\ UNCHANGED <<leaseVars, providerVars, previous, glance, history>>

(* compensate: a request was refused, a readback, an observation or the    *)
(* acceptance failed, or an app has drifted, and the state of both apps is *)
(* known.                                                                  *)
Compensate(f) ==
  LET found == Classification(f) IN
  /\ f = Origin(f) /\ run[f].goal = "succeed"
  /\ \/ At(f, "sent") /\ run[f].answer # "unknown"
     \/ At(f, "ready") /\ run[f].todo # <<"web", "worker">>
  /\ Known(found)
  /\ Lease!Owned(f)
  /\ LET protected == plan[f].recovery # None IN
     run' = [run EXCEPT ![f].step = "ready", ![f].answer = "none",
               ![f].found = found,
               ![f].goal = IF protected THEN "recover" ELSE "roll_back",
               ![f].todo = IF protected THEN <<"web", "worker">> ELSE Written(found)]
  /\ UNCHANGED <<leaseVars, providerVars, previous, glance, history>>

(* Faulty variant: whoever announces a recovery also asks for it.          *)
AnnounceAndSend(f) ==
  LET role == Role(f) IN
  /\ At(f, "ready") /\ run[f].goal = "recover" /\ run[f].todo # <<>>
  /\ \/ role \in run[f].read /\ Goes(f, "sent") /\ UNCHANGED leaseVars
     \/ /\ role \notin run[f].read /\ run[f].found[role] # "unknown"
        /\ Lease!RecordIntent(f, role, run[f].found[role])
        /\ Goes(f, "announced")
  /\ UNCHANGED <<providerVars, previous, glance, history>>

(* runManagedAzureRecoveryIntent: only the run whose intent is new goes on *)
(* to the request; a run that has read the intent waits for the revision.  *)
Announce(f) ==
  LET role == Role(f) IN
  /\ At(f, "ready") /\ run[f].goal = "recover" /\ run[f].todo # <<>>
  /\ \/ role \in run[f].read /\ Goes(f, "sent") /\ UNCHANGED leaseVars
     \/ /\ role \notin run[f].read /\ run[f].found[role] # "unknown"
        /\ Lease!RecordIntent(f, role, run[f].found[role])
        /\ Goes(f, IF intents[role] = Lease!NoIntent THEN "announced" ELSE "sent")
  /\ UNCHANGED <<providerVars, previous, glance, history>>

(* Both apps are read once more, and the release is accepted; the rollback *)
(* of the first run has no such check.                                     *)
Verify(f) ==
  LET goal == run[f].goal IN
  /\ At(f, "ready") /\ run[f].todo = <<>>
  /\ goal # "roll_back" => \A role \in Roles : app[role] = Template(f, role)
  /\ goal = "roll_back" /\ f # Origin(f) =>
       \A role \in Roles : Classified(f, role) = "baseline"
  /\ Goes(f, "verified")
  /\ UNCHANGED <<leaseVars, providerVars, previous, glance, history>>

(* The three finalizing calls, each with and without an answer.            *)
Finalize(f) ==
  /\ At(f, "verified")
  /\ \/ /\ run[f].goal = "succeed" /\ Lease!FinalizeSuccess(f)
        /\ Ends(f, "SUCCEEDED") \/ Fails(f)
     \/ /\ run[f].goal = "roll_back" /\ Lease!FinalizeRollback(f)
        /\ Ends(f, "ROLLED_BACK") \/ Fails(f)
     \/ /\ run[f].goal = "recover" /\ Lease!FinalizeRecovery(f)
        /\ Ends(f, "RECOVERED") \/ Fails(f)
  /\ UNCHANGED <<providerVars, previous, glance, history>>

(* Faulty variant: the missing answer is taken for success.                *)
ReconcileAtOnce(f) ==
  /\ At(f, "unsure")
  /\ Ends(f, "RECOVERED")
  /\ UNCHANGED <<leaseVars, providerVars, previous, glance, history>>

(* get_recovery after an unanswered end, and compatibleRecoveryTerminal:   *)
(* the receipt of the recovery names the newest lease, which is the run's. *)
Reconcile(f) ==
  /\ At(f, "unsure")
  /\ Ends(f, IF phase = "NONE" /\ fence = f /\ outcome[Origin(f)] = "recovered"
               THEN "RECOVERED" ELSE "none")
  /\ UNCHANGED <<leaseVars, providerVars, previous, glance, history>>

-----------------------------------------------------------------------------
(* The call "get_recovery" of a recovery run.                              *)
Look ==
  /\ Lease!Undecided /\ record # Lease!NoRecord
  /\ glance' = [fence |-> fence, origin |-> Lease!Origin, intents |-> intents]
  /\ UNCHANGED <<leaseVars, providerVars, previous, run, history>>

(* The call "claim_recovery", for the lease that was read.                 *)
Claim ==
  /\ Lease!ClaimRecovery(glance.fence)
  /\ LET read == {role \in Roles : glance.intents[role] # Lease!NoIntent}
         found == [role \in Roles |->
                    IF role \in read THEN glance.intents[role].write ELSE "unknown"]
     IN \E begun \in {[NoRun EXCEPT !.step = "claimed", !.read = read, !.found = found],
                      [NoRun EXCEPT !.step = "done"]} :
          run' = [run EXCEPT ![fence'] = [begun EXCEPT !.origin = glance.origin]]
  /\ glance' = NoGlance
  /\ UNCHANGED <<providerVars, previous, history>>

(* What a recovery run takes the apps for: an intent says what an app was, *)
(* and an app that cannot be read is unknown.                              *)
Finds(f, found) ==
  \A role \in Roles :
    IF role \in run[f].read THEN found[role] = run[f].found[role]
    ELSE found[role] \in {Classified(f, role), "unknown"}

(* What it has to write for the goal that it chooses.                      *)
Todo(goal, found) ==
  CASE goal = "recover" -> <<"web", "worker">>
    [] goal = "roll_back" -> Written(found)
    [] goal = "succeed" -> IF found["worker"] = "forward" THEN <<>> ELSE <<"worker">>

(* runManagedAzureReleaseRecovery, from get_rollback to its first request. *)
(* Without a recovery release: what is undone is recorded as such, what    *)
(* has begun is completed if the release is still allowed (a heartbeat     *)
(* says so) and the web app has it, and rolled back if it is not allowed;  *)
(* everything else is MIXED_STATE_UNSUPPORTED.                             *)
ChooseGoal(f, found, goal) ==
  /\ At(f, "claimed") /\ Lease!Owned(f)
  /\ Finds(f, found)
  /\ goal = "recover" <=> record.recovery # None
  /\ goal # "recover" => Known(found)
  /\ goal = "succeed" => found["web"] = "forward"
  /\ run' = [run EXCEPT ![f] = [@ EXCEPT !.goal = goal, !.found = found,
       !.step = IF goal = "roll_back" /\ Todo(goal, found) = <<>> THEN "verified" ELSE "ready",
       !.todo = Todo(goal, found)]]
  /\ UNCHANGED <<leaseVars, providerVars, previous, glance, history>>

Choose(f) ==
  \E found \in [Roles -> Writes \cup {"unknown"}], goal \in {"succeed", "roll_back", "recover"} :
    ChooseGoal(f, found, goal)

(* A lease runs out.  No request that was sent under it is still open.     *)
Expire(f) ==
  /\ \A role \in Roles : pending[role] = NoRevision
  /\ Lease!Expire(f)
  /\ UNCHANGED <<providerVars, runVars, history>>

Next ==
  \/ \E i \in Images : Acquire(i)
  \/ \E f \in Fences : Fail(f) \/ Exit(f) \/ Leave(f) \/ Mark(f) \/ Confirm(f)
  \/ \E f \in Fences, recovery \in Images \cup {None} : Record(f, recovery)
  \/ \E f \in Fences : Begin(f) \/ Send(f) \/ ReadBack(f) \/ Compensate(f)
  \/ \E f \in Fences : Announce(f) \/ Verify(f) \/ Finalize(f) \/ Reconcile(f)
  \/ \E role \in Roles : Settle(role)
  \/ Look \/ Claim
  \/ \E f \in Fences : Choose(f) \/ Expire(f)

Spec == Init /\ [][Next]_vars

-----------------------------------------------------------------------------
TypeOK ==
  /\ Lease!TypeOK
  /\ app \in [Roles -> Revisions]
  /\ pending \in [Roles -> Revisions \cup {NoRevision}]
  /\ previous \in [Fences -> [Roles -> Revisions \cup {NoRevision}]]
  /\ run \in [Fences -> Runs]
  /\ glance \in [fence : 0 .. MaxFence, origin : 0 .. MaxFence,
                 intents : [Roles -> Lease!Intents \cup {Lease!NoIntent}]]
  /\ sent \subseteq Fences \X Roles /\ twice \in BOOLEAN

(* While no release is under way both apps run the release that the row    *)
(* names, and no request is open that could change that: whatever was      *)
(* refused, lost, taken over or undone before.                             *)
RowTellsTheTruth ==
  ~Lease!Undecided =>
    \A role \in Roles : app[role].image = image /\ pending[role] = NoRevision

(* Without a recovery release, no failure leaves the worker on the new     *)
(* release without the web app: the state that the recovery run calls      *)
(* MIXED_STATE_UNSUPPORTED, and cannot complete.                           *)
WorkerFollowsWeb ==
  Lease!Undecided /\ record.recovery = None =>
    (app["worker"] = Forward(Lease!Origin) => app["web"] = Forward(Lease!Origin))

(* However runs fail and take over, a recovery of an app is requested at   *)
(* most once in a release.                                                 *)
RecoveryIsSentOnce == ~twice

(* A run that reports an outcome reports that of its release, also when    *)
(* the answer to its last call was lost.                                   *)
ReportIsTrue ==
  \A f \in Fences :
    /\ run[f].report = "SUCCEEDED" => outcome[Origin(f)] = "succeeded"
    /\ run[f].report = "ROLLED_BACK" => outcome[Origin(f)] = "rolled_back"
    /\ run[f].report = "RECOVERED" => outcome[Origin(f)] = "recovered"
=============================================================================
