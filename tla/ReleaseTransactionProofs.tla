----------------------- MODULE ReleaseTransactionProofs -----------------------
(***************************************************************************)
(* Proofs about ReleaseTransaction, for any images and any bound on the    *)
(* fence.                                                                  *)
(*                                                                         *)
(* The apps change behind the back of the lease, so the invariant ties     *)
(* them to the run of the newest lease: what it still has to do is what    *)
(* they lack, and a request of unknown fate is its last one.  Every other  *)
(* run has at most calls to make that are refused.                         *)
(***************************************************************************)
EXTENDS ReleaseTransaction, TLAPS

LeaseFacts == INSTANCE ReleaseLeaseProofs

Initial == <<"web", "worker">>
Listed(todo) == {todo[i] : i \in DOMAIN todo}
Opening == {"acquired", "confirmed", "recorded"}
Active == {"claimed", "ready", "announced", "sent", "verified"}
Recoveries == {"recovery_over_baseline", "recovery_over_forward"}
Undecided == Lease!Undecided
NoRecord == Lease!NoRecord

(* What a run has in hand fits its step, whether or not it still has its   *)
(* lease.                                                                  *)
RunFits(f) ==
  /\ f > fence => run[f].step = "none"
  /\ f <= fence => run[f].origin \in 1 .. f
  /\ run[f].step \in Opening => run[f].goal = "succeed" /\ run[f].todo = Initial
  /\ run[f].step \in Active \ {"claimed"} => run[f].goal # "none"
  /\ run[f].step \in {"announced", "sent"} => run[f].todo # <<>>
  /\ run[f].step = "announced" => run[f].goal = "recover"
  /\ run[f].step = "verified" => run[f].todo = <<>>
  /\ run[f].goal \in {"succeed", "recover"} => run[f].todo \in {Initial, <<"worker">>, <<>>}
  /\ run[f].goal = "roll_back" => run[f].todo # Initial

(* What get_recovery read is still so until the release has an end or      *)
(* another run.                                                            *)
GlanceFits ==
  /\ glance.fence <= fence
  /\ glance.fence = fence => phase # "RESERVED"
  /\ glance.fence = fence /\ Undecided =>
       /\ glance.origin = record.origin
       /\ \A role \in Roles :
            glance.intents[role] # Lease!NoIntent => intents[role] = glance.intents[role]

(* The run of the newest lease is one of the release in the row.           *)
OwnerFits ==
  /\ phase # "NONE" =>
       run[fence].origin = IF record = NoRecord THEN fence ELSE record.origin
  /\ phase = "RESERVED" => run[fence].step \notin Active /\ run[fence].read = {}
  /\ Undecided => run[fence].step \notin Opening
  /\ Undecided /\ run[fence].step \in Active =>
       /\ run[fence].goal = "recover" => record.recovery # None
       /\ run[fence].read # {} => record.recovery # None

(* The rollback revisions were running when the release was recorded.      *)
IsBaseline(o) ==
  \A role \in Roles : previous[o][role].image = expected /\ previous[o][role].origin < o
RecordFits ==
  /\ record # NoRecord => run[record.origin].step # "acquired" /\ IsBaseline(record.origin)
  /\ phase = "RESERVED" /\ run[fence].step = "confirmed" => IsBaseline(fence)
  /\ \A role \in Roles : intents[role] # Lease!NoIntent => record.recovery # None

(* Where revisions come from.                                              *)
Recovers(revision, o) == revision.origin = o /\ revision.kind \in Recoveries
RevisionsFit ==
  \A role \in Roles :
    /\ app[role].origin <= fence /\ pending[role].origin <= fence
    /\ phase = "RESERVED" => app[role].origin < fence
    /\ \A o \in Fences : <<o, role>> \notin sent =>
         ~ Recovers(app[role], o) /\ ~ Recovers(pending[role], o)

(* The recovery requests that were sent.                                   *)
SentFits ==
  /\ ~ twice
  /\ Undecided /\ run[fence].step = "announced" => intents[Role(fence)] # Lease!NoIntent
  /\ \A o \in Fences, role \in Roles : <<o, role>> \in sent =>
       /\ o <= fence
       /\ phase = "RESERVED" => o < fence
       /\ Undecided /\ o = record.origin =>
            /\ intents[role] # Lease!NoIntent
            /\ run[fence].step = "announced" => role # Role(fence)

(* An open request is the owner's last, and was for something new.         *)
PendingFits ==
  \A role \in Roles : pending[role] # NoRevision =>
    /\ Undecided /\ fence \in live
    /\ run[fence].step \notin Active \ {"sent"}
    /\ run[fence].step = "sent" =>
         /\ role = Role(fence) /\ run[fence].answer = "unknown"
         /\ run[fence].goal = "recover" \/ (run[fence].goal = "succeed" /\ fence = record.origin) =>
              pending[role] = Template(fence, role) /\ app[role] # Template(fence, role)

(* What the run of the newest lease has left to do is what the apps lack.  *)
AppsFit ==
  Undecided /\ run[fence].step \in {"ready", "announced", "sent", "verified"} =>
    LET o == record.origin
        r == run[fence]
    IN
    /\ r.goal = "succeed" /\ fence = o /\ r.todo = Initial =>
         /\ app["worker"].origin < o
         /\ r.step = "ready" => app["web"].origin < o
    /\ r.goal = "succeed" /\ fence # o => app["web"] = Forward(o) /\ r.todo # Initial
    /\ r.goal = "roll_back" =>
         \A role \in Roles : role \notin Listed(r.todo) =>
           app[role] \in {previous[o][role], Rollback(o)}
    /\ r.step = "verified" /\ r.goal # "roll_back" =>
         \A role \in Roles : app[role] = Template(fence, role)

WorkerIsLast ==
  Undecided /\ record.recovery = None =>
    (Forward(record.origin) \in {app["worker"], pending["worker"]} =>
       app["web"] = Forward(record.origin) /\ pending["web"] = NoRevision)

(* What ties the apps to the row, which every step of the owner keeps.     *)
Held ==
  /\ OwnerFits /\ RecordFits /\ RevisionsFit /\ SentFits /\ PendingFits
  /\ AppsFit /\ WorkerIsLast /\ RowTellsTheTruth

(* A run that has reported is done with.                                   *)
ReportsFit ==
  /\ \A f \in Fences : run[f].report # "none" => run[f].step = "done"
  /\ ReportIsTrue

(* The types of what the lease does not have.                              *)
RunTypes == run \in [Fences -> Runs]
GlanceTypes ==
  /\ glance.fence \in 0 .. MaxFence /\ glance.origin \in 0 .. MaxFence
  /\ glance.intents \in [Roles -> Lease!Intents \cup {Lease!NoIntent}]
  /\ glance \in [fence : 0 .. MaxFence, origin : 0 .. MaxFence,
                 intents : [Roles -> Lease!Intents \cup {Lease!NoIntent}]]
OtherTypes ==
  /\ app \in [Roles -> Revisions]
  /\ pending \in [Roles -> Revisions \cup {NoRevision}]
  /\ previous \in [Fences -> [Roles -> Revisions \cup {NoRevision}]]
  /\ sent \subseteq Fences \X Roles /\ twice \in BOOLEAN

(* What of this does not depend on the apps, and the whole.                *)
RunsFit == \A f \in Fences : RunFits(f)
Base == RunTypes /\ GlanceTypes /\ RunsFit /\ GlanceFits
Inv == LeaseFacts!Inv /\ Base /\ Held /\ OtherTypes /\ ReportsFit
-----------------------------------------------------------------------------
(* The instance that the specification uses and the one that carries the   *)
(* proofs are the same.                                                    *)
LEMMA SameAssumption == LeaseFacts!LeaseAssumption
BY TransactionAssumption DEF Lease!LeaseAssumption, LeaseFacts!LeaseAssumption

LEMMA SameOrigin == Lease!Origin = LeaseFacts!Origin
BY DEF Lease!Origin, LeaseFacts!Origin, Lease!Matching, LeaseFacts!Matching

LEMMA SameGuards ==
  /\ Lease!NoRecord = LeaseFacts!NoRecord /\ Lease!NoIntent = LeaseFacts!NoIntent
  /\ Lease!NoIntents = LeaseFacts!NoIntents
  /\ Lease!Undecided <=> LeaseFacts!Undecided
  /\ Lease!Admitted <=> LeaseFacts!Admitted
  /\ Lease!FreeToAcquire <=> LeaseFacts!FreeToAcquire
  /\ Lease!IntentsReadable <=> LeaseFacts!IntentsReadable
  /\ Lease!Clear <=> LeaseFacts!Clear
  /\ \A f \in Fences : /\ Lease!OwnedOrExpired(f) <=> LeaseFacts!OwnedOrExpired(f)
                       /\ Lease!Owned(f) <=> LeaseFacts!Owned(f)
BY SameOrigin
   DEF Lease!NoRecord, LeaseFacts!NoRecord, Lease!NoIntent, LeaseFacts!NoIntent,
       Lease!NoIntents, LeaseFacts!NoIntents, Lease!Undecided, LeaseFacts!Undecided,
       Lease!Admitted, LeaseFacts!Admitted, Lease!Readable, LeaseFacts!Readable,
       Lease!FreeToAcquire, LeaseFacts!FreeToAcquire, Lease!IntentsReadable,
       LeaseFacts!IntentsReadable, Lease!OwnedOrExpired, LeaseFacts!OwnedOrExpired,
       Lease!Owned, LeaseFacts!Owned, Lease!Clear, LeaseFacts!Clear

LEMMA SameFirstCalls ==
  ASSUME NEW f \in Fences
  PROVE  /\ \A target : Lease!Acquire(target) => LeaseFacts!Acquire(target)
         /\ \A recovery : Lease!RecordRollback(f, recovery) => LeaseFacts!RecordRollback(f, recovery)
         /\ Lease!Begin(f) => LeaseFacts!Begin(f)
         /\ Lease!Abort(f) => LeaseFacts!Abort(f)
         /\ Lease!Expire(f) => LeaseFacts!Expire(f)
<1>1. ASSUME NEW target, Lease!Acquire(target) PROVE LeaseFacts!Acquire(target)
  BY <1>1, SameGuards DEF Lease!Acquire, LeaseFacts!Acquire, Lease!Fences, LeaseFacts!Fences
<1>2. ASSUME NEW recovery, Lease!RecordRollback(f, recovery)
      PROVE  LeaseFacts!RecordRollback(f, recovery)
  BY <1>2, SameGuards DEF Lease!RecordRollback, LeaseFacts!RecordRollback
<1>3. Lease!Begin(f) => LeaseFacts!Begin(f)
  BY SameGuards DEF Lease!Begin, LeaseFacts!Begin
<1>4. Lease!Abort(f) => LeaseFacts!Abort(f)
  BY SameGuards DEF Lease!Abort, LeaseFacts!Abort
<1>5. Lease!Expire(f) => LeaseFacts!Expire(f)
  BY DEF Lease!Expire, LeaseFacts!Expire, Lease!lease, LeaseFacts!lease
<1> QED BY <1>1, <1>2, <1>3, <1>4, <1>5

LEMMA SameLastCalls ==
  ASSUME NEW f \in Fences
  PROVE  /\ Lease!MarkRecoveryRequired(f) => LeaseFacts!MarkRecoveryRequired(f)
         /\ \A role \in Roles, write \in Writes :
              Lease!RecordIntent(f, role, write) => LeaseFacts!RecordIntent(f, role, write)
         /\ Lease!ClaimRecovery(f) => LeaseFacts!ClaimRecovery(f)
         /\ Lease!FinalizeSuccess(f) => LeaseFacts!FinalizeSuccess(f)
         /\ Lease!FinalizeRecovery(f) => LeaseFacts!FinalizeRecovery(f)
         /\ Lease!FinalizeRollback(f) => LeaseFacts!FinalizeRollback(f)
<1>1. Lease!MarkRecoveryRequired(f) => LeaseFacts!MarkRecoveryRequired(f)
  BY SameGuards, SameOrigin DEF Lease!MarkRecoveryRequired, LeaseFacts!MarkRecoveryRequired
<1>2. ASSUME NEW role \in Roles, NEW write \in Writes, Lease!RecordIntent(f, role, write)
      PROVE  LeaseFacts!RecordIntent(f, role, write)
  BY <1>2, SameGuards, SameOrigin DEF Lease!RecordIntent, LeaseFacts!RecordIntent
<1>3. Lease!ClaimRecovery(f) => LeaseFacts!ClaimRecovery(f)
  BY SameGuards, SameOrigin DEF Lease!ClaimRecovery, LeaseFacts!ClaimRecovery
<1>4. \A result : Lease!Decide(f, result) => LeaseFacts!Decide(f, result)
  BY SameGuards, SameOrigin DEF Lease!Decide, LeaseFacts!Decide
<1>5. Lease!FinalizeSuccess(f) => LeaseFacts!FinalizeSuccess(f)
  BY <1>4, SameGuards DEF Lease!FinalizeSuccess, LeaseFacts!FinalizeSuccess
<1>6. Lease!FinalizeRecovery(f) => LeaseFacts!FinalizeRecovery(f)
  BY <1>4, SameGuards DEF Lease!FinalizeRecovery, LeaseFacts!FinalizeRecovery
<1>7. Lease!FinalizeRollback(f) => LeaseFacts!FinalizeRollback(f)
  BY <1>4, SameGuards DEF Lease!FinalizeRollback, LeaseFacts!FinalizeRollback
<1> QED BY <1>1, <1>2, <1>3, <1>5, <1>6, <1>7

-----------------------------------------------------------------------------
(* What the invariant of the lease says of the row, in the words used here.*)
RowIsKnown ==
  /\ image \in Images /\ fence \in 0 .. MaxFence /\ fence \in Nat
  /\ phase \in {"NONE", "RESERVED", "MUTATING", "RECOVERY_REQUIRED"}
  /\ \A f \in live : f = fence /\ phase # "NONE"
  /\ phase # "NONE" => fence \in Fences /\ image = expected /\ incoming.image \in Images
  /\ phase = "NONE" => record = NoRecord
  /\ phase = "RESERVED" => plan[fence].baseline = expected
  /\ Undecided => record # NoRecord
  /\ record # NoRecord =>
       /\ record.origin \in 1 .. fence /\ record.origin \in Fences
       /\ record.recovery \in Images \cup {None}
       /\ Lease!Origin = record.origin
       /\ phase # "RECOVERY_REQUIRED" => record.origin = fence
       /\ plan[record.origin].baseline = expected
       /\ plan[record.origin].target = incoming.image
       /\ plan[record.origin].recovery = record.recovery
  /\ intents \in [Roles -> [origin : Fences, write : Writes] \cup {Lease!NoIntent}]
  /\ \A role \in Roles :
       intents[role] # Lease!NoIntent => record # NoRecord /\ phase = "RECOVERY_REQUIRED"

LEMMA FencesAre == Fences = 1 .. MaxFence /\ LeaseFacts!Fences = Fences /\ MaxFence \in Nat
BY SameAssumption DEF Fences, LeaseFacts!Fences, LeaseFacts!LeaseAssumption

LEMMA RowKnown == ASSUME LeaseFacts!Inv PROVE RowIsKnown
<1>1. /\ LeaseFacts!TypeOK /\ LeaseFacts!ConstraintsHold /\ LeaseFacts!OneLiveLease
      /\ LeaseFacts!RecordIsNewest /\ LeaseFacts!IntentsAreRecords /\ LeaseFacts!PlanAgrees
  BY DEF LeaseFacts!Inv
<1>2. NoRecord = LeaseFacts!NoRecord /\ (Undecided <=> LeaseFacts!Undecided)
  BY SameGuards DEF NoRecord, Undecided
<1>3. /\ image \in Images /\ fence \in 0 .. MaxFence /\ fence \in Nat
      /\ phase \in {"NONE", "RESERVED", "MUTATING", "RECOVERY_REQUIRED"}
      /\ record \in LeaseFacts!Records \cup {NoRecord}
      /\ intents \in [Roles -> LeaseFacts!Intents \cup {Lease!NoIntent}]
  BY <1>1, <1>2, SameGuards, FencesAre DEF LeaseFacts!TypeOK, LeaseFacts!Phases
<1>4. \A f \in live : f = fence /\ phase # "NONE"
  BY <1>1 DEF LeaseFacts!OneLiveLease
<1>5. ASSUME phase # "NONE"
      PROVE  fence \in Fences /\ image = expected /\ incoming.image \in Images
  <2>1. fence > 0 /\ incoming \in LeaseFacts!Targets /\ image = expected
    BY <1>1, <1>5 DEF LeaseFacts!ConstraintsHold
  <2> QED BY <1>3, <2>1, FencesAre DEF LeaseFacts!Targets
<1>6. /\ phase = "NONE" => record = NoRecord
      /\ phase = "RESERVED" => plan[fence].baseline = expected
      /\ Undecided => record # NoRecord
  BY <1>1, <1>2 DEF LeaseFacts!ConstraintsHold, LeaseFacts!PlanAgrees
<1>7. ASSUME record # NoRecord
      PROVE  /\ record.origin \in 1 .. fence /\ record.origin \in Fences
             /\ record.recovery \in Images \cup {None}
             /\ Lease!Origin = record.origin
             /\ phase # "RECOVERY_REQUIRED" => record.origin = fence
             /\ plan[record.origin].baseline = expected
             /\ plan[record.origin].target = incoming.image
             /\ plan[record.origin].recovery = record.recovery
  <2>1. Lease!Origin = record.origin /\ record.origin \in Fences
    BY <1>2, <1>7, SameOrigin, SameAssumption, FencesAre, LeaseFacts!OriginIsRecorded
  <2>2. record \in LeaseFacts!Records
    BY <1>3, <1>7
  <2>3. record.recovery \in Images \cup {None}
    BY <2>2 DEF LeaseFacts!Records
  <2>4. record.origin <= fence /\ (phase # "RECOVERY_REQUIRED" => record.origin = fence)
    BY <1>1, <1>2, <1>7 DEF LeaseFacts!RecordIsNewest
  <2>5. /\ plan[record.origin].baseline = expected
        /\ plan[record.origin].target = incoming.image
        /\ plan[record.origin].recovery = record.recovery
    BY <1>1, <1>2, <1>7 DEF LeaseFacts!PlanAgrees
  <2> QED BY <1>3, <2>1, <2>3, <2>4, <2>5 DEF Fences
<1>8. \A role \in Roles :
        intents[role] # Lease!NoIntent => record # NoRecord /\ phase = "RECOVERY_REQUIRED"
  BY <1>1, <1>2, SameGuards DEF LeaseFacts!IntentsAreRecords
<1>9. LeaseFacts!Intents = [origin : Fences, write : Writes]
  BY FencesAre DEF LeaseFacts!Intents
<1> QED BY <1>3, <1>4, <1>5, <1>6, <1>7, <1>8, <1>9 DEF RowIsKnown

-----------------------------------------------------------------------------
(* What a run has in hand, by its type.                                     *)
LEMMA RunOf ==
  ASSUME RunTypes, NEW f \in Fences
  PROVE  /\ run[f].step \in Steps /\ run[f].goal \in {"none", "succeed", "roll_back", "recover"}
         /\ run[f].origin \in 0 .. MaxFence /\ run[f].origin \in Nat
         /\ run[f].todo \in Todos
         /\ run[f].found \in [Roles -> Writes \cup {"unknown"}]
         /\ run[f].read \subseteq Roles
         /\ run[f].answer \in {"none", "succeeded", "failed", "unknown"}
         /\ run[f].report \in Reports
<1>1. run[f] \in Runs
  BY DEF RunTypes
<1> QED BY <1>1, FencesAre DEF Runs

(* What is on a list, and where a list begins.                             *)
LEMMA ListedIs ==
  /\ Listed(<<>>) = {}
  /\ Listed(<<"web">>) = {"web"} /\ Listed(<<"worker">>) = {"worker"}
  /\ Listed(<<"web", "worker">>) = Roles /\ Listed(<<"worker", "web">>) = Roles
<1>1. Listed(<<>>) = {}
  BY DEF Listed
<1>2. Listed(<<"web">>) = {"web"} /\ Listed(<<"worker">>) = {"worker"}
  BY DEF Listed
<1>3. Listed(<<"web", "worker">>) = Roles
  BY DEF Listed, Roles
<1>4. Listed(<<"worker", "web">>) = Roles
  BY DEF Listed, Roles
<1> QED BY <1>1, <1>2, <1>3, <1>4

LEMMA TodoOf ==
  ASSUME NEW todo \in Todos
  PROVE  /\ todo # <<>> =>
              /\ Head(todo) \in Roles /\ Tail(todo) \in Todos /\ Tail(todo) # Initial
              /\ Tail(todo) # <<"worker", "web">>
              /\ Listed(todo) = Listed(Tail(todo)) \cup {Head(todo)}
              /\ Head(todo) \notin Listed(Tail(todo))
         /\ todo # <<>> /\ Head(todo) = "web" => "worker" \notin Listed(todo) \/ todo = Initial
         /\ todo = Initial => Head(todo) = "web" /\ Tail(todo) = <<"worker">>
         /\ todo = <<"worker">> => Head(todo) = "worker" /\ Tail(todo) = <<>> /\ todo # Initial
         /\ Listed(todo) \subseteq Roles
<1>1. CASE todo = <<>>
  BY <1>1, ListedIs DEF Initial
<1>2. CASE todo = <<"web">>
  <2>1. Head(todo) = "web" /\ Tail(todo) = <<>> /\ todo # Initial
    BY <1>2 DEF Initial
  <2>2. <<>> \in Todos /\ <<>> # Initial /\ <<>> # <<"worker", "web">> /\ todo # <<"worker">>
    BY <1>2 DEF Todos, Initial
  <2> QED BY <1>2, <2>1, <2>2, ListedIs DEF Roles
<1>3. CASE todo = <<"worker">>
  <2>1. Head(todo) = "worker" /\ Tail(todo) = <<>> /\ todo # Initial
    BY <1>3 DEF Initial
  <2>2. <<>> \in Todos /\ <<>> # Initial /\ <<>> # <<"worker", "web">>
    BY DEF Todos, Initial
  <2> QED BY <1>3, <2>1, <2>2, ListedIs DEF Roles
<1>4. CASE todo = <<"web", "worker">>
  <2>1. Head(todo) = "web" /\ Tail(todo) = <<"worker">> /\ todo = Initial
    BY <1>4 DEF Initial
  <2>2. /\ <<"worker">> \in Todos /\ <<"worker">> # Initial /\ <<"worker">> # <<"worker", "web">>
        /\ todo # <<"worker">>
    BY <1>4 DEF Todos, Initial
  <2> QED BY <1>4, <2>1, <2>2, ListedIs DEF Roles
<1>5. CASE todo = <<"worker", "web">>
  <2>1. Head(todo) = "worker" /\ Tail(todo) = <<"web">> /\ todo # Initial /\ todo # <<"worker">>
    BY <1>5 DEF Initial
  <2>2. <<"web">> \in Todos /\ <<"web">> # Initial /\ <<"web">> # <<"worker", "web">>
    BY DEF Todos, Initial
  <2> QED BY <1>5, <2>1, <2>2, ListedIs DEF Roles
<1> QED BY <1>1, <1>2, <1>3, <1>4, <1>5 DEF Todos

LEMMA WrittenIs ==
  ASSUME NEW found
  PROVE  /\ Written(found) \in Todos /\ Written(found) # Initial
         /\ Listed(Written(found)) = {role \in Roles : found[role] = "forward"}
<1> DEFINE forward == {role \in Roles : found[role] = "forward"}
<1>1. forward \in {{}, {"web"}, {"worker"}, Roles}
  BY DEF Roles
<1>2. \E todo \in Todos \ {Initial} : Listed(todo) = forward
  <2>1. /\ <<>> \in Todos \ {Initial} /\ <<"web">> \in Todos \ {Initial}
        /\ <<"worker">> \in Todos \ {Initial} /\ <<"worker", "web">> \in Todos \ {Initial}
    BY DEF Todos, Initial
  <2> QED BY <1>1, <2>1, ListedIs
<1>3. Written(found) = CHOOSE todo \in Todos \ {Initial} : Listed(todo) = forward
  BY DEF Written, Listed, Initial
<1> QED BY <1>2, <1>3

-----------------------------------------------------------------------------
(* Every step of a run is one of the lease, or none.                       *)
LEMMA FinalCalls ==
  ASSUME NEW f \in Fences, Finalize(f)
  PROVE  Lease!FinalizeSuccess(f) \/ Lease!FinalizeRollback(f) \/ Lease!FinalizeRecovery(f)
BY DEF Finalize

LEMMA IntentCall ==
  ASSUME RunTypes, NEW f \in Fences, Announce(f)
  PROVE  \/ UNCHANGED leaseVars
         \/ \E role \in Roles, write \in Writes : Lease!RecordIntent(f, role, write)
<1>1. CASE UNCHANGED leaseVars
  BY <1>1
<1>2. CASE run[f].found[Role(f)] # "unknown" /\ Lease!RecordIntent(f, Role(f), run[f].found[Role(f)])
  <2>1. Role(f) \in Roles
    BY RunOf, TodoOf DEF Announce, Role
  <2>2. run[f].found[Role(f)] \in Writes
    BY <1>2, <2>1, RunOf
  <2> QED BY <1>2, <2>1, <2>2
<1> QED BY <1>1, <1>2 DEF Announce

LEMMA LeaseStep ==
  ASSUME RunTypes, LeaseFacts!Inv, [Next]_vars
  PROVE  [LeaseFacts!Next]_(LeaseFacts!vars)
<1> USE FencesAre
<1>0. UNCHANGED leaseVars => UNCHANGED LeaseFacts!vars
  BY DEF leaseVars, LeaseFacts!vars, LeaseFacts!lease
<1>1. ASSUME NEW i \in Images, Acquire(i) PROVE LeaseFacts!Next
  <2> DEFINE target == [image |-> i, archived |-> FALSE]
  <2>1. target \in LeaseFacts!Targets
    BY DEF LeaseFacts!Targets
  <2>2. Lease!Acquire(target)
    BY <1>1 DEF Acquire
  <2> HIDE DEF target
  <2>3. LeaseFacts!Acquire(target)
    BY <2>2, SameGuards DEF Lease!Acquire, LeaseFacts!Acquire, Lease!Fences, LeaseFacts!Fences
  <2> QED BY <2>1, <2>3 DEF LeaseFacts!Next
<1>2. ASSUME NEW f \in Fences, Leave(f) \/ Mark(f) \/ Begin(f) \/ Expire(f) PROVE LeaseFacts!Next
  <2>1. Lease!Abort(f) \/ Lease!MarkRecoveryRequired(f) \/ Lease!Begin(f) \/ Lease!Expire(f)
    BY <1>2 DEF Leave, Mark, Begin, Expire
  <2>2. \/ LeaseFacts!Abort(f) \/ LeaseFacts!MarkRecoveryRequired(f)
        \/ LeaseFacts!Begin(f) \/ LeaseFacts!Expire(f)
    BY <2>1, SameFirstCalls, SameLastCalls
  <2> QED BY <2>2 DEF LeaseFacts!Next
<1>3. ASSUME NEW f \in Fences, NEW recovery \in Images \cup {None}, Record(f, recovery)
      PROVE  LeaseFacts!Next
  <2>1. LeaseFacts!RecordRollback(f, recovery)
    BY <1>3, SameFirstCalls DEF Record
  <2> QED BY <2>1 DEF LeaseFacts!Next
<1>4. ASSUME NEW f \in Fences, Finalize(f) PROVE LeaseFacts!Next
  <2>1. \/ LeaseFacts!FinalizeSuccess(f) \/ LeaseFacts!FinalizeRollback(f)
        \/ LeaseFacts!FinalizeRecovery(f)
    BY <1>4, FinalCalls, SameLastCalls
  <2> QED BY <2>1 DEF LeaseFacts!Next
<1>5. ASSUME NEW f \in Fences, Announce(f) PROVE UNCHANGED leaseVars \/ LeaseFacts!Next
  <2>1. ASSUME NEW role \in Roles, NEW write \in Writes, Lease!RecordIntent(f, role, write)
        PROVE  LeaseFacts!Next
    <3>1. LeaseFacts!RecordIntent(f, role, write)
      BY <2>1, SameLastCalls
    <3> QED BY <3>1 DEF LeaseFacts!Next
  <2> QED BY <1>5, <2>1, IntentCall
<1>6. ASSUME Claim PROVE LeaseFacts!Next
  <2>1. Lease!ClaimRecovery(glance.fence)
    BY <1>6 DEF Claim
  <2>2. glance.fence \in Fences
    BY <2>1, RowKnown DEF Lease!ClaimRecovery, Lease!Undecided, RowIsKnown
  <2>3. LeaseFacts!ClaimRecovery(glance.fence)
    BY <2>1, <2>2, SameLastCalls
  <2> QED BY <2>2, <2>3 DEF LeaseFacts!Next
<1>7. ASSUME NEW f \in Fences,
             \/ Fail(f) \/ Exit(f) \/ Confirm(f) \/ Send(f) \/ ReadBack(f)
             \/ Compensate(f) \/ Verify(f) \/ Reconcile(f) \/ Choose(f)
      PROVE  UNCHANGED leaseVars
  <2>1. CASE Fail(f) \/ Exit(f) \/ Confirm(f) \/ Verify(f) \/ Reconcile(f)
    BY <2>1 DEF Fail, Exit, Confirm, Verify, Reconcile
  <2>2. CASE Send(f)
    BY <2>2 DEF Send
  <2>3. CASE ReadBack(f)
    BY <2>3 DEF ReadBack
  <2>4. CASE Compensate(f)
    BY <2>4 DEF Compensate
  <2>5. CASE Choose(f)
    BY <2>5 DEF Choose, ChooseGoal
  <2> QED BY <1>7, <2>1, <2>2, <2>3, <2>4, <2>5
<1>8. ASSUME Look \/ (\E role \in Roles : Settle(role)) \/ UNCHANGED vars
      PROVE  UNCHANGED leaseVars
  BY <1>8 DEF Look, Settle, vars
<1> QED BY <1>0, <1>1, <1>2, <1>3, <1>4, <1>5, <1>6, <1>7, <1>8 DEF Next

-----------------------------------------------------------------------------
(* What each step leaves a run with.  Only its own run changes.            *)
Keeps(f) == RunTypes' /\ \A g \in Fences \ {f} : run'[g] = run[g]

Gone == {"leaving", "lost", "unsure", "done"}
LeavesEmpty(f) ==
  /\ Keeps(f)
  /\ run'[f].step \in Gone /\ run'[f].origin = run[f].origin
  /\ run'[f].goal = "none" /\ run'[f].todo = <<>> /\ run'[f].read = {}

LEMMA NoRunIs ==
  /\ NoRun \in Runs /\ NoRun.step = "none" /\ NoRun.goal = "none" /\ NoRun.origin = 0
  /\ NoRun.todo = <<>> /\ NoRun.read = {} /\ NoRun.report = "none"
BY FencesAre DEF NoRun, Runs, Steps, Todos, Reports

LEMMA DropsEffect ==
  ASSUME RunTypes, NEW f \in Fences, NEW step \in Gone, Drops(f, step)
  PROVE  LeavesEmpty(f) /\ run'[f].step = step /\ run'[f].report = "none"
<1> DEFINE r == [NoRun EXCEPT !.step = step, !.origin = run[f].origin]
<1>1. r \in Runs /\ r.step = step /\ r.origin = run[f].origin /\ r.goal = "none" /\ r.todo = <<>>
      /\ r.read = {} /\ r.report = "none"
  BY RunOf DEF NoRun, Runs, Todos, Steps, Gone, Reports
<1>2. run' = [run EXCEPT ![f] = r]
  BY DEF Drops
<1> HIDE DEF r
<1> QED BY <1>1, <1>2 DEF LeavesEmpty, Keeps, RunTypes

LEMMA EndsEffect ==
  ASSUME RunTypes, NEW f \in Fences, NEW report \in Reports, Ends(f, report)
  PROVE  LeavesEmpty(f) /\ run'[f].step = "done" /\ run'[f].report = report
<1> DEFINE r == [NoRun EXCEPT !.step = "done", !.origin = run[f].origin, !.report = report]
<1>1. r \in Runs /\ r.step = "done" /\ r.origin = run[f].origin /\ r.goal = "none" /\ r.todo = <<>>
      /\ r.read = {} /\ r.report = report
  BY RunOf DEF NoRun, Runs, Todos, Steps
<1>2. run' = [run EXCEPT ![f] = r]
  BY DEF Ends
<1> HIDE DEF r
<1> QED BY <1>1, <1>2 DEF LeavesEmpty, Keeps, RunTypes, Gone

LEMMA FailsEffect ==
  ASSUME RunTypes, NEW f \in Fences, Fails(f)
  PROVE  LeavesEmpty(f) /\ run'[f].report = "none"
         /\ run[f].step \in {"acquired", "confirmed", "recorded"} \cup Active
BY DropsEffect, EndsEffect DEF Fails, At, Gone, Reports, Active

(* A step to another place, with the rest in hand.                         *)
LEMMA GoesEffect ==
  ASSUME RunTypes, NEW f \in Fences, NEW step \in Steps, Goes(f, step)
  PROVE  /\ Keeps(f) /\ run'[f] = [run[f] EXCEPT !.step = step]
         /\ run'[f].step = step /\ run'[f].goal = run[f].goal /\ run'[f].origin = run[f].origin
         /\ run'[f].todo = run[f].todo /\ run'[f].found = run[f].found
         /\ run'[f].read = run[f].read /\ run'[f].report = run[f].report
         /\ run'[f].answer = run[f].answer
<1> DEFINE r == [run[f] EXCEPT !.step = step]
<1>1. run[f] \in Runs
  BY DEF RunTypes
<1>2. /\ r \in Runs /\ r.step = step /\ r.goal = run[f].goal /\ r.origin = run[f].origin
      /\ r.todo = run[f].todo /\ r.found = run[f].found /\ r.read = run[f].read
      /\ r.report = run[f].report /\ r.answer = run[f].answer
  BY <1>1 DEF Runs
<1>3. run' = [run EXCEPT ![f] = r]
  BY DEF Goes
<1> HIDE DEF r
<1>4. Keeps(f) /\ run'[f] = r
  BY <1>2, <1>3 DEF Keeps, RunTypes
<1> QED BY <1>2, <1>4 DEF r

LEMMA SendEffect ==
  ASSUME RunTypes, NEW f \in Fences, Send(f)
  PROVE  /\ Keeps(f) /\ run'[f].step = "sent" /\ run'[f].goal = run[f].goal
         /\ run'[f].origin = run[f].origin /\ run'[f].todo = run[f].todo
         /\ run'[f].found = run[f].found /\ run'[f].read = run[f].read
         /\ run'[f].report = run[f].report
         /\ LET role == Role(f) IN
            \/ run'[f].answer # "unknown" /\ UNCHANGED pending
               /\ app' = [app EXCEPT ![role] = Template(f, role)]
            \/ run'[f].answer = "failed" /\ UNCHANGED providerVars
            \/ run'[f].answer = "unknown" /\ UNCHANGED app
               /\ pending' = [pending EXCEPT ![role] = Template(f, role)]
<1>1. PICK answer \in {"succeeded", "failed", "unknown"} :
        /\ run' = [run EXCEPT ![f].step = "sent", ![f].answer = answer]
        /\ LET role == Role(f) IN
           \/ answer # "unknown" /\ UNCHANGED pending
              /\ app' = [app EXCEPT ![role] = Template(f, role)]
           \/ answer = "failed" /\ UNCHANGED providerVars
           \/ answer = "unknown" /\ UNCHANGED app
              /\ pending' = [pending EXCEPT ![role] = Template(f, role)]
  BY DEF Send
<1> DEFINE r == [run[f] EXCEPT !.step = "sent", !.answer = answer]
<1>2. run[f] \in Runs
  BY DEF RunTypes
<1>3. /\ r \in Runs /\ r.step = "sent" /\ r.goal = run[f].goal /\ r.origin = run[f].origin
      /\ r.todo = run[f].todo /\ r.found = run[f].found /\ r.read = run[f].read
      /\ r.report = run[f].report /\ r.answer = answer
  BY <1>2 DEF Runs, Steps
<1>4. run' = [run EXCEPT ![f] = r]
  BY <1>1, <1>2 DEF RunTypes, Runs
<1> HIDE DEF r
<1>5. Keeps(f) /\ run'[f] = r
  BY <1>3, <1>4 DEF Keeps, RunTypes
<1> QED BY <1>1, <1>3, <1>5

LEMMA ReadBackEffect ==
  ASSUME RunTypes, NEW f \in Fences, run[f].todo # <<>>, ReadBack(f)
  PROVE  /\ Keeps(f) /\ run'[f].step = "ready" /\ run'[f].goal = run[f].goal
         /\ run'[f].origin = run[f].origin /\ run'[f].todo = Tail(run[f].todo)
         /\ run'[f].found = run[f].found /\ run'[f].read = run[f].read
         /\ run'[f].report = run[f].report
<1> DEFINE r == [run[f] EXCEPT !.step = "ready", !.answer = "none", !.todo = Tail(run[f].todo)]
<1>1. run[f] \in Runs
  BY DEF RunTypes
<1>2. Tail(run[f].todo) \in Todos
  BY RunOf, TodoOf
<1>3. /\ r \in Runs /\ r.step = "ready" /\ r.goal = run[f].goal /\ r.origin = run[f].origin
      /\ r.todo = Tail(run[f].todo) /\ r.found = run[f].found /\ r.read = run[f].read
      /\ r.report = run[f].report
  BY <1>1, <1>2 DEF Runs, Steps
<1>4. run' = [run EXCEPT ![f] = r]
  BY <1>1 DEF ReadBack, RunTypes, Runs
<1> HIDE DEF r
<1>5. Keeps(f) /\ run'[f] = r
  BY <1>3, <1>4 DEF Keeps, RunTypes
<1> QED BY <1>3, <1>5

LEMMA CompensateEffect ==
  ASSUME RunTypes, NEW f \in Fences, Compensate(f)
  PROVE  /\ Keeps(f) /\ run'[f].step = "ready"
         /\ run'[f].origin = run[f].origin /\ run'[f].found = Classification(f)
         /\ run'[f].goal = IF plan[f].recovery # None THEN "recover" ELSE "roll_back"
         /\ run'[f].todo = IF plan[f].recovery # None THEN Initial ELSE Written(Classification(f))
         /\ run'[f].read = run[f].read /\ run'[f].report = run[f].report
<1> DEFINE found == Classification(f)
           goal == IF plan[f].recovery # None THEN "recover" ELSE "roll_back"
           todo == IF plan[f].recovery # None THEN Initial ELSE Written(found)
           r == [run[f] EXCEPT !.step = "ready", !.answer = "none", !.found = found,
                               !.goal = goal, !.todo = todo]
<1>1. run[f] \in Runs
  BY DEF RunTypes
<1>2. found \in [Roles -> Writes \cup {"unknown"}]
  BY DEF Classification, Classified, Writes
<1>3. todo \in Todos
  BY WrittenIs DEF Todos, Initial
<1>4. goal \in {"none", "succeed", "roll_back", "recover"}
  OBVIOUS
<1>5. run' = [run EXCEPT ![f].step = "ready", ![f].answer = "none", ![f].found = found,
                         ![f].goal = goal, ![f].todo = todo]
  BY DEF Compensate, Initial
<1> HIDE DEF found, goal, todo
<1>6. /\ r \in Runs /\ r.step = "ready" /\ r.origin = run[f].origin /\ r.found = found
      /\ r.goal = goal /\ r.todo = todo /\ r.read = run[f].read /\ r.report = run[f].report
  BY <1>1, <1>2, <1>3, <1>4 DEF Runs, Steps
<1>7. run' = [run EXCEPT ![f] = r]
  BY <1>1, <1>5 DEF RunTypes, Runs
<1> HIDE DEF r
<1>8. Keeps(f) /\ run'[f] = r
  BY <1>6, <1>7 DEF Keeps, RunTypes
<1> QED BY <1>6, <1>8 DEF found, goal, todo

(* What a recovery run finds and chooses.                                  *)
Chosen(f, found, goal, todo) ==
  /\ Finds(f, found)
  /\ (goal = "recover") <=> (record.recovery # None)
  /\ goal # "recover" => Known(found)
  /\ goal = "succeed" => found["web"] = "forward"
  /\ todo = Todo(goal, found)

LEMMA ChooseEffect ==
  ASSUME RunTypes, NEW f \in Fences, Choose(f)
  PROVE  /\ Keeps(f) /\ run'[f].origin = run[f].origin
         /\ run'[f].goal \in {"succeed", "roll_back", "recover"}
         /\ Chosen(f, run'[f].found, run'[f].goal, run'[f].todo)
         /\ run'[f].step = IF run'[f].goal = "roll_back" /\ run'[f].todo = <<>>
                             THEN "verified" ELSE "ready"
         /\ run'[f].read = run[f].read /\ run'[f].report = run[f].report
<1>0. PICK found \in [Roles -> Writes \cup {"unknown"}],
           goal \in {"succeed", "roll_back", "recover"} : ChooseGoal(f, found, goal)
  BY DEF Choose
<1> DEFINE step == IF goal = "roll_back" /\ Todo(goal, found) = <<>> THEN "verified" ELSE "ready"
           todo == Todo(goal, found)
           r == [run[f] EXCEPT !.goal = goal, !.found = found, !.step = step, !.todo = todo]
<1>2. run[f] \in Runs
  BY DEF RunTypes
<1>3. todo \in Todos
  <2>1. /\ Initial \in Todos /\ Written(found) \in Todos /\ <<>> \in Todos
        /\ <<"worker">> \in Todos
    BY WrittenIs DEF Todos, Initial
  <2>2. CASE goal = "recover"
    BY <2>1, <2>2 DEF Todo, Initial
  <2>3. CASE goal = "roll_back"
    BY <2>1, <2>3 DEF Todo, Initial
  <2>4. CASE goal = "succeed"
    BY <2>1, <2>4 DEF Todo, Initial
  <2> QED BY <2>2, <2>3, <2>4
<1>4. step \in Steps
  BY DEF Steps
<1>5. Chosen(f, found, goal, todo)
  BY <1>0 DEF ChooseGoal, Chosen
<1>6. run' = [run EXCEPT ![f] = [@ EXCEPT !.goal = goal, !.found = found, !.step = step,
                                    !.todo = todo]]
  BY <1>0 DEF ChooseGoal
<1>7. step = IF goal = "roll_back" /\ todo = <<>> THEN "verified" ELSE "ready"
  OBVIOUS
<1> HIDE DEF step, todo
<1>8. /\ r \in Runs /\ r.step = step /\ r.origin = run[f].origin /\ r.found = found
      /\ r.goal = goal /\ r.todo = todo /\ r.read = run[f].read /\ r.report = run[f].report
  BY <1>2, <1>3, <1>4 DEF Runs
<1>9. run' = [run EXCEPT ![f] = r]
  BY <1>2, <1>6 DEF RunTypes, Runs
<1> HIDE DEF r
<1>10. Keeps(f) /\ run'[f] = r
  BY <1>8, <1>9 DEF Keeps, RunTypes
<1> QED BY <1>5, <1>7, <1>8, <1>10

LEMMA AcquireEffect ==
  ASSUME RunTypes, RowIsKnown, NEW i \in Images, Acquire(i)
  PROVE  /\ fence' = fence + 1 /\ fence' \in Fences /\ Keeps(fence')
         /\ run'[fence'].origin = fence' /\ run'[fence'].step \in {"acquired", "done"}
         /\ run'[fence'].step = "acquired" =>
              run'[fence'].goal = "succeed" /\ run'[fence'].todo = Initial
         /\ run'[fence'].step = "done" => run'[fence'].goal = "none" /\ run'[fence'].todo = <<>>
         /\ run'[fence'].read = {} /\ run'[fence'].report = "none"
<1>1. PICK begun \in {[NoRun EXCEPT !.step = "acquired", !.goal = "succeed",
                                  !.todo = <<"web", "worker">>],
                    [NoRun EXCEPT !.step = "done"]} :
       run' = [run EXCEPT ![fence'] = [begun EXCEPT !.origin = fence']]
  BY DEF Acquire
<1>2. fence' = fence + 1 /\ fence' \in Fences
  BY FencesAre DEF Acquire, Lease!Acquire, RowIsKnown
<1> DEFINE r == [begun EXCEPT !.origin = fence']
<1>3. /\ r \in Runs /\ r.origin = fence' /\ r.step \in {"acquired", "done"}
      /\ r.step = "acquired" => r.goal = "succeed" /\ r.todo = Initial
      /\ r.step = "done" => r.goal = "none" /\ r.todo = <<>>
      /\ r.read = {} /\ r.report = "none"
  <2>1. CASE begun = [NoRun EXCEPT !.step = "acquired", !.goal = "succeed",
                                  !.todo = <<"web", "worker">>]
    <3>1. begun = [step |-> "acquired", goal |-> "succeed", origin |-> 0, todo |-> Initial,
          found |-> [role \in Roles |-> "unknown"], read |-> {},
          answer |-> "none", report |-> "none"]
      BY <2>1 DEF NoRun, Initial
    <3>2. Initial \in Todos
      BY DEF Initial, Todos
    <3> QED BY <1>2, <3>1, <3>2, FencesAre DEF Runs, Steps, Reports
  <2>2. CASE begun = [NoRun EXCEPT !.step = "done"]
    <3>1. begun = [step |-> "done", goal |-> "none", origin |-> 0, todo |-> <<>>,
          found |-> [role \in Roles |-> "unknown"], read |-> {},
          answer |-> "none", report |-> "none"]
      BY <2>2 DEF NoRun
    <3>2. <<>> \in Todos
      BY DEF Todos
    <3> QED BY <1>2, <3>1, <3>2, FencesAre DEF Runs, Steps, Reports
  <2> QED BY <1>1, <2>1, <2>2
<1>4. run' = [run EXCEPT ![fence'] = r]
  BY <1>1
<1> HIDE DEF r
<1>5. Keeps(fence') /\ run'[fence'] = r
  BY <1>2, <1>3, <1>4 DEF Keeps, RunTypes
<1> QED BY <1>2, <1>3, <1>5

LEMMA ClaimEffect ==
  ASSUME RunTypes, RowIsKnown, GlanceTypes, Claim
  PROVE  /\ fence' = fence + 1 /\ fence' \in Fences /\ Keeps(fence')
         /\ run'[fence'].origin = glance.origin /\ run'[fence'].step \in {"claimed", "done"}
         /\ run'[fence'].goal = "none" /\ run'[fence'].todo = <<>>
         /\ run'[fence'].read \subseteq {role \in Roles : glance.intents[role] # Lease!NoIntent}
         /\ run'[fence'].report = "none"
<1> DEFINE read == {role \in Roles : glance.intents[role] # Lease!NoIntent}
           found == [role \in Roles |->
                      IF role \in read THEN glance.intents[role].write ELSE "unknown"]
<1>1. PICK begun \in {[NoRun EXCEPT !.step = "claimed", !.read = read, !.found = found],
                      [NoRun EXCEPT !.step = "done"]} :
       run' = [run EXCEPT ![fence'] = [begun EXCEPT !.origin = glance.origin]]
  BY DEF Claim
<1>2. fence' = fence + 1 /\ fence' \in Fences
  BY FencesAre DEF Claim, Lease!ClaimRecovery, RowIsKnown
<1>3. found \in [Roles -> Writes \cup {"unknown"}] /\ read \subseteq Roles
  <2>1. ASSUME NEW role \in read PROVE glance.intents[role].write \in Writes
    BY <2>1 DEF GlanceTypes, Lease!Intents
  <2> QED BY <2>1
<1> HIDE DEF found, read
<1> DEFINE r == [begun EXCEPT !.origin = glance.origin]
<1>4. /\ r \in Runs /\ r.origin = glance.origin /\ r.step \in {"claimed", "done"}
      /\ r.goal = "none" /\ r.todo = <<>> /\ r.read \subseteq read /\ r.report = "none"
  <2>0. <<>> \in Todos
    BY DEF Todos
  <2>1. CASE begun = [NoRun EXCEPT !.step = "claimed", !.read = read, !.found = found]
    <3>1. begun = [step |-> "claimed", goal |-> "none", origin |-> 0, todo |-> <<>>,
          found |-> found, read |-> read, answer |-> "none", report |-> "none"]
      BY <2>1 DEF NoRun
    <3> QED BY <1>3, <2>0, <3>1 DEF Runs, Steps, Reports, GlanceTypes
  <2>2. CASE begun = [NoRun EXCEPT !.step = "done"]
    <3>1. begun = [step |-> "done", goal |-> "none", origin |-> 0, todo |-> <<>>,
          found |-> [role \in Roles |-> "unknown"], read |-> {},
          answer |-> "none", report |-> "none"]
      BY <2>2 DEF NoRun
    <3> QED BY <2>0, <3>1 DEF Runs, Steps, Reports, GlanceTypes
  <2> QED BY <1>1, <2>1, <2>2
<1>5. run' = [run EXCEPT ![fence'] = r]
  BY <1>1
<1> HIDE DEF r
<1>6. Keeps(fence') /\ run'[fence'] = r
  BY <1>2, <1>4, <1>5 DEF Keeps, RunTypes
<1> QED BY <1>2, <1>4, <1>6 DEF read

LEMMA AnnounceEffect ==
  ASSUME RunTypes, NEW f \in Fences, Announce(f)
  PROVE  /\ Keeps(f) /\ run'[f].step \in {"sent", "announced"}
         /\ run'[f].goal = run[f].goal /\ run'[f].origin = run[f].origin
         /\ run'[f].todo = run[f].todo /\ run'[f].found = run[f].found
         /\ run'[f].read = run[f].read /\ run'[f].report = run[f].report
<1>1. PICK step \in {"sent", "announced"} : Goes(f, step)
  BY DEF Announce
<1>2. step \in Steps
  BY DEF Steps
<1> QED BY <1>1, <1>2, GoesEffect

-----------------------------------------------------------------------------
(* A run of an issued lease, which alone has anything in hand.             *)
LEMMA IssuedRun ==
  ASSUME RunTypes, RunsFit, RowIsKnown, NEW f \in Fences, run[f].step # "none"
  PROVE  f <= fence /\ run[f].origin \in 1 .. f /\ run[f].origin \in Fences
<1>1. f \in Nat /\ fence \in Nat
  BY FencesAre DEF RowIsKnown
<1>2. f <= fence /\ run[f].origin \in 1 .. f
  BY <1>1 DEF RunsFit, RunFits
<1> QED BY <1>1, <1>2, FencesAre

LEMMA RunsFitAfter ==
  ASSUME RunsFit, NEW f \in Fences, Keeps(f), fence' = fence, RunFits(f)'
  PROVE  RunTypes' /\ RunsFit'
<1>1. ASSUME NEW g \in Fences \ {f} PROVE RunFits(g)'
  BY <1>1 DEF RunsFit, RunFits, Keeps
<1> QED BY <1>1 DEF RunsFit, Keeps

LEMMA LeavesFit ==
  ASSUME RunTypes, RunsFit, RowIsKnown, NEW f \in Fences, run[f].step # "none",
         LeavesEmpty(f), fence' = fence
  PROVE  RunTypes' /\ RunsFit'
<1>1. RunFits(f)'
  <2>1. f <= fence /\ run'[f].origin \in 1 .. f
    BY IssuedRun DEF LeavesEmpty
  <2>2. /\ run'[f].step \notin Opening \cup Active \cup {"none"}
        /\ run'[f].goal = "none"
    BY DEF LeavesEmpty, Gone, Opening, Active
  <2> QED BY <2>1, <2>2, FencesAre DEF RunFits, RowIsKnown, Active
<1> QED BY <1>1, RunsFitAfter DEF LeavesEmpty

(* A new lease has a new run, and no other changes.                        *)
LEMMA NewRunFits ==
  ASSUME RunTypes, RunsFit, RowIsKnown, NEW n \in Fences, n = fence', Keeps(n),
         fence' = fence + 1, RunFits(n)'
  PROVE  RunTypes' /\ RunsFit'
<1>1. ASSUME NEW g \in Fences \ {n} PROVE RunFits(g)'
  <2>1. g \in Nat /\ fence \in Nat
    BY FencesAre DEF RowIsKnown
  <2>2. (g > fence' => g > fence) /\ (g <= fence' => g <= fence)
    BY <2>1
  <2>3. run'[g] = run[g] /\ RunFits(g)
    BY DEF Keeps, RunsFit
  <2> QED BY <2>2, <2>3 DEF RunFits
<1> QED BY <1>1 DEF RunsFit, Keeps

LEMMA RunsFitStep ==
  ASSUME Base, RowIsKnown, [Next]_vars
  PROVE  RunTypes' /\ RunsFit'
<1> USE DEF Base
<1>1. ASSUME NEW i \in Images, Acquire(i) PROVE RunTypes' /\ RunsFit'
  <2>1. PICK n \in Fences : n = fence'
    BY <1>1, AcquireEffect
  <2>2. /\ fence' = fence + 1 /\ Keeps(n)
        /\ run'[n].origin = n /\ run'[n].step \in {"acquired", "done"}
        /\ run'[n].step = "acquired" => run'[n].goal = "succeed" /\ run'[n].todo = Initial
        /\ run'[n].step = "done" => run'[n].goal = "none"
    BY <1>1, <2>1, AcquireEffect
  <2>3. n \in Nat /\ n \in 1 .. n
    BY FencesAre
  <2>4. ~ (n > fence') /\ run'[n].origin \in 1 .. n
    BY <2>1, <2>2, <2>3
  <2>5. RunFits(n)'
    <3>1. CASE run'[n].step = "acquired"
      BY <2>2, <2>3, <2>4, <3>1 DEF RunFits, Opening, Active
    <3>2. CASE run'[n].step = "done"
      BY <2>2, <2>4, <3>2 DEF RunFits, Opening, Active
    <3> QED BY <2>2, <3>1, <3>2
  <2> QED BY <2>1, <2>2, <2>5, NewRunFits
<1>2. ASSUME Claim PROVE RunTypes' /\ RunsFit'
  <2>1. glance.fence = fence /\ Undecided
    BY <1>2 DEF Claim, Lease!ClaimRecovery, Undecided
  <2>2. glance.origin \in 1 .. fence /\ fence \in Nat /\ fence' = fence + 1
    BY <1>2, <2>1, ClaimEffect DEF GlanceFits, RowIsKnown
  <2>3. PICK n \in Fences : n = fence'
    BY <1>2, ClaimEffect
  <2>4. /\ Keeps(n) /\ run'[n].origin = glance.origin /\ run'[n].step \in {"claimed", "done"}
        /\ run'[n].goal = "none"
    BY <1>2, <2>3, ClaimEffect
  <2>5. glance.origin \in 1 .. n /\ n \in Nat
    BY <2>2, <2>3
  <2>6. RunFits(n)'
    BY <2>3, <2>4, <2>5 DEF RunFits, Opening, Active
  <2> QED BY <2>2, <2>3, <2>4, <2>6, NewRunFits
<1>3. ASSUME NEW f \in Fences, Fail(f) \/ Exit(f) \/ Leave(f) \/ Mark(f) \/ Reconcile(f)
      PROVE  RunTypes' /\ RunsFit'
  <2>1. LeavesEmpty(f) /\ run[f].step # "none"
    <3>1. CASE Fail(f)
      BY <3>1, FailsEffect DEF Fail, Active
    <3>2. CASE Exit(f)
      BY <3>2, EndsEffect DEF Exit, Reports
    <3>3. CASE Leave(f)
      BY <3>3, EndsEffect DEF Leave, At, Reports
    <3>4. CASE Mark(f)
      BY <3>4, EndsEffect DEF Mark, At, Reports
    <3>5. CASE Reconcile(f)
      BY <3>5, EndsEffect DEF Reconcile, At, Reports
    <3> QED BY <1>3, <3>1, <3>2, <3>3, <3>4, <3>5
  <2>2. fence' = fence
    BY <1>3 DEF Fail, Exit, Leave, Mark, Reconcile, leaseVars, Lease!Abort,
                Lease!MarkRecoveryRequired
  <2> QED BY <2>1, <2>2, LeavesFit
<1>4. ASSUME NEW f \in Fences, Finalize(f) PROVE RunTypes' /\ RunsFit'
  <2>1. LeavesEmpty(f) /\ run[f].step # "none"
    BY <1>4, EndsEffect, FailsEffect DEF Finalize, At, Reports
  <2>2. fence' = fence
    BY <1>4, FinalCalls DEF Lease!FinalizeSuccess, Lease!FinalizeRollback,
                            Lease!FinalizeRecovery, Lease!Decide
  <2> QED BY <2>1, <2>2, LeavesFit
<1>5. ASSUME NEW f \in Fences,
             \/ Confirm(f) \/ (\E recovery \in Images \cup {None} : Record(f, recovery))
             \/ Begin(f) \/ Announce(f) \/ Verify(f)
      PROVE  RunTypes' /\ RunsFit'
  <2>1. /\ Keeps(f) /\ run'[f].goal = run[f].goal /\ run'[f].origin = run[f].origin
        /\ run'[f].todo = run[f].todo
        /\ \/ run[f].step \in Opening /\ run'[f].step \in {"confirmed", "recorded", "ready"}
           \/ /\ run[f].step = "ready" /\ run[f].goal = "recover" /\ run[f].todo # <<>>
              /\ run'[f].step \in {"sent", "announced"}
           \/ run[f].step = "ready" /\ run[f].todo = <<>> /\ run'[f].step = "verified"
    <3>1. CASE Confirm(f)
      BY <3>1, GoesEffect DEF Confirm, At, Steps, Opening
    <3>2. CASE \E recovery \in Images \cup {None} : Record(f, recovery)
      BY <3>2, GoesEffect DEF Record, At, Steps, Opening
    <3>3. CASE Begin(f)
      BY <3>3, GoesEffect DEF Begin, At, Steps, Opening
    <3>4. CASE Announce(f)
      BY <3>4, AnnounceEffect DEF Announce, At
    <3>5. CASE Verify(f)
      BY <3>5, GoesEffect DEF Verify, At, Steps
    <3> QED BY <1>5, <3>1, <3>2, <3>3, <3>4, <3>5
  <2>2. fence' = fence
    <3>1. CASE Announce(f)
      BY <3>1, IntentCall DEF leaseVars, Lease!RecordIntent
    <3>2. CASE ~Announce(f)
      BY <1>5, <3>2 DEF Confirm, Record, Begin, Verify, leaseVars, Lease!RecordRollback, Lease!Begin
    <3> QED BY <3>1, <3>2
  <2>3. RunFits(f) /\ run[f].step # "none"
    BY <2>1 DEF RunsFit, Opening
  <2>4. RunFits(f)'
    BY <2>1, <2>2, <2>3, IssuedRun DEF RunFits, Opening, Active, Initial
  <2> QED BY <2>1, <2>2, <2>4, RunsFitAfter
<1>6. ASSUME NEW f \in Fences, Send(f) PROVE RunTypes' /\ RunsFit'
  <2>1. fence' = fence /\ run[f].step \in {"announced", "ready"} /\ run[f].todo # <<>>
        /\ (run[f].step = "announced" => run[f].goal = "recover")
    BY <1>6 DEF Send, At, leaseVars
  <2>2. RunFits(f)
    BY DEF RunsFit
  <2>3. RunFits(f)'
    BY <1>6, <2>1, <2>2, SendEffect, IssuedRun DEF RunFits, Opening, Active, Initial
  <2> QED BY <1>6, <2>1, <2>3, SendEffect, RunsFitAfter
<1>7. ASSUME NEW f \in Fences, ReadBack(f) PROVE RunTypes' /\ RunsFit'
  <2>1. fence' = fence /\ run[f].step = "sent"
    BY <1>7 DEF ReadBack, At, leaseVars
  <2>2. RunFits(f) /\ run[f].todo # <<>> /\ run[f].goal # "none"
    BY <2>1 DEF RunsFit, RunFits, Active
  <2>3. /\ Tail(run[f].todo) # Initial
        /\ run[f].todo \in {Initial, <<"worker">>} => Tail(run[f].todo) \in {<<"worker">>, <<>>}
    BY <2>2, RunOf, TodoOf
  <2>4. RunFits(f)'
    BY <1>7, <2>1, <2>2, <2>3, ReadBackEffect, IssuedRun DEF RunFits, Opening, Active
  <2> QED BY <1>7, <2>1, <2>2, <2>4, ReadBackEffect, RunsFitAfter
<1>8. ASSUME NEW f \in Fences, Compensate(f) PROVE RunTypes' /\ RunsFit'
  <2>1. fence' = fence /\ run[f].step \in {"sent", "ready"}
    BY <1>8 DEF Compensate, At, leaseVars
  <2>2. Written(Classification(f)) # Initial
    BY WrittenIs
  <2>3. /\ Keeps(f) /\ run'[f].step = "ready" /\ run'[f].origin = run[f].origin
        /\ \/ run'[f].goal = "recover" /\ run'[f].todo = Initial
           \/ run'[f].goal = "roll_back" /\ run'[f].todo = Written(Classification(f))
    BY <1>8, CompensateEffect
  <2>4. f <= fence /\ run[f].origin \in 1 .. f
    BY <2>1, IssuedRun
  <2>5. ~ (f > fence') /\ run'[f].origin \in 1 .. f
    BY <2>1, <2>3, <2>4, FencesAre DEF RowIsKnown
  <2>6. RunFits(f)'
    BY <2>2, <2>3, <2>5 DEF RunFits, Opening, Active
  <2> QED BY <2>1, <2>3, <2>6, RunsFitAfter
<1>9. ASSUME NEW f \in Fences, Choose(f) PROVE RunTypes' /\ RunsFit'
  <2>1. fence' = fence /\ run[f].step = "claimed"
    BY <1>9 DEF Choose, ChooseGoal, At, leaseVars
  <2>2. PICK found, goal, todo :
          /\ run'[f].goal = goal /\ run'[f].todo = todo /\ goal \in {"succeed", "roll_back", "recover"}
          /\ todo = Todo(goal, found)
    BY <1>9, ChooseEffect DEF Chosen
  <2>3. /\ goal = "roll_back" => todo # Initial
        /\ goal \in {"succeed", "recover"} => todo \in {Initial, <<"worker">>, <<>>}
    BY <2>2, WrittenIs DEF Todo, Initial
  <2>4. /\ Keeps(f) /\ run'[f].origin = run[f].origin
        /\ \/ run'[f].step = "ready"
           \/ run'[f].step = "verified" /\ run'[f].goal = "roll_back" /\ run'[f].todo = <<>>
    BY <1>9, ChooseEffect
  <2>5. f <= fence /\ run[f].origin \in 1 .. f
    BY <2>1, IssuedRun
  <2>6. ~ (f > fence') /\ run'[f].origin \in 1 .. f
    BY <2>1, <2>4, <2>5, FencesAre DEF RowIsKnown
  <2>7. RunFits(f)'
    BY <2>2, <2>3, <2>4, <2>6 DEF RunFits, Opening, Active
  <2> QED BY <2>1, <2>4, <2>7, RunsFitAfter
<1>10. ASSUME \/ Look \/ (\E role \in Roles : Settle(role)) \/ UNCHANGED vars
              \/ \E f \in Fences : Expire(f)
       PROVE  RunTypes' /\ RunsFit'
  <2>1. run' = run /\ fence' = fence
    BY <1>10 DEF Look, Settle, Expire, Lease!Expire, vars, runVars, leaseVars
  <2> QED BY <2>1 DEF RunTypes, RunsFit, RunFits
<1> QED BY <1>1, <1>2, <1>3, <1>4, <1>5, <1>6, <1>7, <1>8, <1>9, <1>10 DEF Next

-----------------------------------------------------------------------------
(* What get_recovery read stays true while the release has the same run.   *)
LEMMA GlanceStays ==
  ASSUME GlanceTypes, GlanceFits, UNCHANGED <<glance, fence>>,
         \/ phase' = "NONE"
         \/ /\ phase' = "RESERVED" => phase = "RESERVED"
            /\ Undecided' => phase = "RESERVED" \/ (Undecided /\ record' = record)
            /\ \A role \in Roles : intents[role] # Lease!NoIntent => intents'[role] = intents[role]
  PROVE  GlanceTypes' /\ GlanceFits'
<1>1. GlanceTypes'
  BY DEF GlanceTypes
<1>2. ASSUME phase' = "NONE" PROVE GlanceFits'
  BY <1>2 DEF GlanceFits, Undecided, Lease!Undecided
<1>3. ASSUME /\ phase' = "RESERVED" => phase = "RESERVED"
             /\ Undecided' => phase = "RESERVED" \/ (Undecided /\ record' = record)
             /\ \A role \in Roles : intents[role] # Lease!NoIntent => intents'[role] = intents[role]
      PROVE  GlanceFits'
  BY <1>3 DEF GlanceFits
<1> QED BY <1>1, <1>2, <1>3

LEMMA IntentStays ==
  ASSUME RowIsKnown, NEW f \in Fences, NEW role \in Roles, NEW write \in Writes,
         Lease!RecordIntent(f, role, write)
  PROVE  /\ f = fence /\ f \in live /\ Undecided /\ record.recovery # None
         /\ UNCHANGED <<image, fence, expected, incoming, record, events, live, plan, outcome>>
         /\ phase' = "RECOVERY_REQUIRED" /\ Undecided'
         /\ intents' = [intents EXCEPT ![role] = [origin |-> record.origin, write |-> write]]
         /\ \A k \in Roles : intents[k] # Lease!NoIntent => intents'[k] = intents[k]
         /\ \A k \in Roles \ {role} : intents'[k] = intents[k]
         /\ intents'[role] # Lease!NoIntent
<1>1. /\ f = fence /\ f \in live /\ Undecided /\ record.recovery # None
      /\ UNCHANGED <<image, fence, expected, incoming, record, events, live, plan, outcome>>
      /\ phase' = "RECOVERY_REQUIRED"
  BY DEF Lease!RecordIntent, Lease!Owned, Lease!OwnedOrExpired, Undecided
<1>2. Undecided'
  BY <1>1 DEF Undecided, Lease!Undecided
<1>3. record # NoRecord /\ Lease!Origin = record.origin /\ record.origin \in Fences
  BY <1>1 DEF RowIsKnown
<1> DEFINE new == [origin |-> record.origin, write |-> write]
<1>4. /\ intents[role] \in {Lease!NoIntent, new}
      /\ intents' = [intents EXCEPT ![role] = new]
  BY <1>3 DEF Lease!RecordIntent
<1>5. new # Lease!NoIntent
  BY <1>3, FencesAre DEF Lease!NoIntent
<1> HIDE DEF new
<1>6. /\ \A k \in Roles : intents[k] # Lease!NoIntent => intents'[k] = intents[k]
      /\ \A k \in Roles \ {role} : intents'[k] = intents[k]
      /\ intents'[role] # Lease!NoIntent
  BY <1>4, <1>5 DEF RowIsKnown
<1> QED BY <1>1, <1>2, <1>4, <1>6 DEF new

LEMMA GlanceStep ==
  ASSUME Base, RowIsKnown, [Next]_vars
  PROVE  GlanceTypes' /\ GlanceFits'
<1> USE DEF Base
<1>1. ASSUME NEW i \in Images, Acquire(i) PROVE GlanceTypes' /\ GlanceFits'
  <2>1. glance' = glance /\ fence' = fence + 1
    BY <1>1, AcquireEffect DEF Acquire
  <2>2. glance.fence <= fence /\ glance.fence \in Nat /\ fence \in Nat
    BY DEF GlanceFits, GlanceTypes, RowIsKnown
  <2>3. glance.fence <= fence' /\ glance.fence # fence'
    BY <2>1, <2>2
  <2> QED BY <2>1, <2>3 DEF GlanceFits, GlanceTypes
<1>2. ASSUME Claim PROVE GlanceTypes' /\ GlanceFits'
  <2>1. glance' = NoGlance /\ fence' = fence + 1 /\ fence \in Nat
    BY <1>2, ClaimEffect DEF Claim, RowIsKnown
  <2>2. /\ NoGlance.fence = 0 /\ NoGlance.origin = 0 /\ NoGlance.intents = Lease!NoIntents
        /\ Lease!NoIntents \in [Roles -> Lease!Intents \cup {Lease!NoIntent}]
        /\ NoGlance = [fence |-> 0, origin |-> 0, intents |-> Lease!NoIntents]
    BY DEF NoGlance, Lease!NoIntents
  <2>3. GlanceTypes'
    BY <2>1, <2>2, FencesAre DEF GlanceTypes
  <2>4. 0 <= fence + 1 /\ 0 # fence + 1
    BY <2>1
  <2> QED BY <2>1, <2>2, <2>3, <2>4 DEF GlanceFits
<1>3. ASSUME Look PROVE GlanceTypes' /\ GlanceFits'
  <2>1. /\ Undecided /\ record # NoRecord /\ UNCHANGED leaseVars
        /\ glance' = [fence |-> fence, origin |-> Lease!Origin, intents |-> intents]
    BY <1>3 DEF Look, Undecided, NoRecord
  <2>2. /\ Lease!Origin = record.origin /\ record.origin \in 0 .. MaxFence
        /\ fence \in 0 .. MaxFence /\ fence \in Nat
        /\ intents \in [Roles -> Lease!Intents \cup {Lease!NoIntent}]
    BY <2>1, FencesAre DEF RowIsKnown, Lease!Intents, Lease!Fences, Fences
  <2>3. GlanceTypes'
    BY <2>1, <2>2 DEF GlanceTypes
  <2>4. phase # "RESERVED"
    BY <2>1 DEF Undecided, Lease!Undecided
  <2> QED BY <2>1, <2>2, <2>3, <2>4 DEF GlanceFits, leaseVars
<1>4. ASSUME NEW f \in Fences, Announce(f) PROVE GlanceTypes' /\ GlanceFits'
  <2>1. UNCHANGED <<glance, fence>>
    BY <1>4, IntentCall DEF Announce, leaseVars, Lease!RecordIntent
  <2>2. CASE UNCHANGED leaseVars
    BY <2>1, <2>2, GlanceStays DEF leaseVars, Undecided, Lease!Undecided
  <2>3. CASE \E role \in Roles, write \in Writes : Lease!RecordIntent(f, role, write)
    <3>1. /\ Undecided /\ record' = record /\ phase' = "RECOVERY_REQUIRED"
          /\ \A role \in Roles : intents[role] # Lease!NoIntent => intents'[role] = intents[role]
      BY <2>3, IntentStays
    <3> QED BY <2>1, <3>1, GlanceStays
  <2> QED BY <1>4, <2>2, <2>3, IntentCall
<1>5. ASSUME NEW f \in Fences, Leave(f) \/ Finalize(f) PROVE GlanceTypes' /\ GlanceFits'
  <2>1. glance' = glance
    BY <1>5 DEF Leave, Finalize
  <2>2. fence' = fence /\ phase' = "NONE"
    BY <1>5, FinalCalls DEF Leave, Lease!Abort, Lease!FinalizeSuccess, Lease!FinalizeRollback,
                            Lease!FinalizeRecovery, Lease!Decide, Lease!Clear
  <2> QED BY <2>1, <2>2, GlanceStays
<1>6. ASSUME NEW f \in Fences,
             \/ Mark(f) \/ Begin(f) \/ (\E recovery \in Images \cup {None} : Record(f, recovery))
      PROVE  GlanceTypes' /\ GlanceFits'
  <2>1. UNCHANGED <<glance, fence, intents>>
    BY <1>6 DEF Mark, Begin, Record, Lease!MarkRecoveryRequired, Lease!Begin, Lease!RecordRollback
  <2>2. /\ phase' = "RESERVED" => phase = "RESERVED"
        /\ phase = "RESERVED" \/ (Undecided /\ record' = record)
    BY <1>6 DEF Mark, Begin, Record, Lease!MarkRecoveryRequired, Lease!Begin,
                Lease!RecordRollback, Lease!OwnedOrExpired, Undecided, Lease!Undecided, RowIsKnown
  <2> QED BY <2>1, <2>2, GlanceStays
<1>7. ASSUME NEW f \in Fences,
             \/ Fail(f) \/ Exit(f) \/ Confirm(f) \/ Send(f) \/ ReadBack(f)
             \/ Compensate(f) \/ Verify(f) \/ Reconcile(f) \/ Choose(f)
      PROVE  UNCHANGED <<leaseVars, glance>>
  <2>1. CASE Fail(f) \/ Exit(f) \/ Confirm(f) \/ Verify(f) \/ Reconcile(f)
    BY <2>1 DEF Fail, Exit, Confirm, Verify, Reconcile
  <2>2. CASE Send(f)
    BY <2>2 DEF Send
  <2>3. CASE ReadBack(f)
    BY <2>3 DEF ReadBack
  <2>4. CASE Compensate(f)
    BY <2>4 DEF Compensate
  <2>5. CASE Choose(f)
    BY <2>5 DEF Choose, ChooseGoal
  <2> QED BY <1>7, <2>1, <2>2, <2>3, <2>4, <2>5
<1>8. ASSUME (\E role \in Roles : Settle(role)) \/ UNCHANGED vars
      PROVE  UNCHANGED <<leaseVars, glance>>
  BY <1>8 DEF Settle, vars, runVars
<1>9. ASSUME UNCHANGED <<leaseVars, glance>> PROVE GlanceTypes' /\ GlanceFits'
  BY <1>9, GlanceStays DEF leaseVars, Undecided, Lease!Undecided
<1>10. ASSUME NEW f \in Fences, Expire(f) PROVE GlanceTypes' /\ GlanceFits'
  <2>1. UNCHANGED <<glance, fence, phase, record, intents>>
    BY <1>10 DEF Expire, Lease!Expire, Lease!lease, runVars
  <2> QED BY <2>1, GlanceStays DEF Undecided, Lease!Undecided
<1> QED BY <1>1, <1>2, <1>3, <1>4, <1>5, <1>6, <1>7, <1>8, <1>9, <1>10 DEF Next

-----------------------------------------------------------------------------
LEMMA InitBase ==
  ASSUME Init
  PROVE  Base /\ LeaseFacts!Init
<1>1. LeaseFacts!Init
  BY SameGuards, FencesAre
     DEF Init, Lease!Init, LeaseFacts!Init, Lease!NoPlan, LeaseFacts!NoPlan, Lease!Fences
<1>2. run = [f \in Fences |-> NoRun] /\ glance = NoGlance /\ fence = 0 /\ phase = "NONE"
  BY DEF Init, Lease!Init
<1>3. RunTypes
  BY <1>2, NoRunIs DEF RunTypes
<1>4. RunsFit
  <2> SUFFICES ASSUME NEW f \in Fences PROVE RunFits(f)
    BY DEF RunsFit
  <2>1. run[f] = NoRun /\ ~ (f <= fence)
    BY <1>2, FencesAre
  <2> QED BY <2>1, NoRunIs DEF RunFits, Opening, Active
<1>5. /\ NoGlance.fence = 0 /\ NoGlance.origin = 0 /\ NoGlance.intents = Lease!NoIntents
      /\ Lease!NoIntents \in [Roles -> Lease!Intents \cup {Lease!NoIntent}]
      /\ NoGlance = [fence |-> 0, origin |-> 0, intents |-> Lease!NoIntents]
  BY DEF NoGlance, Lease!NoIntents
<1>6. GlanceTypes
  BY <1>2, <1>5, FencesAre DEF GlanceTypes
<1>7. GlanceFits
  BY <1>2, <1>5 DEF GlanceFits, Undecided, Lease!Undecided
<1> QED BY <1>1, <1>3, <1>4, <1>6, <1>7 DEF Base

(* Every call of a run to the control plane is a step of ReleaseLease, so  *)
(* all that is proved of the lease holds of the runs that use it.          *)
THEOREM RunsUseTheLease == Spec => LeaseFacts!Spec /\ [](LeaseFacts!Inv /\ Base)
<1>1. Init => LeaseFacts!Init /\ LeaseFacts!Inv /\ Base
  BY InitBase, SameAssumption, LeaseFacts!InitInv
<1>2. LeaseFacts!Inv /\ Base /\ [Next]_vars =>
        /\ [LeaseFacts!Next]_(LeaseFacts!vars)
        /\ LeaseFacts!Inv' /\ Base'
  <2> SUFFICES ASSUME LeaseFacts!Inv, Base, [Next]_vars
               PROVE  [LeaseFacts!Next]_(LeaseFacts!vars) /\ LeaseFacts!Inv' /\ Base'
    OBVIOUS
  <2>1. [LeaseFacts!Next]_(LeaseFacts!vars)
    BY LeaseStep DEF Base
  <2>2. LeaseFacts!Inv'
    BY <2>1, SameAssumption, LeaseFacts!StepInv
  <2>3. Base'
    BY RowKnown, RunsFitStep, GlanceStep DEF Base
  <2> QED BY <2>1, <2>2, <2>3
<1> QED BY <1>1, <1>2, PTL DEF Spec, LeaseFacts!Spec

-----------------------------------------------------------------------------
(* The revisions that a run asks for.                                      *)
LEMMA RevisionIs ==
  ASSUME NEW o
  PROVE  /\ Forward(o).origin = o /\ Forward(o).kind = "forward"
         /\ Forward(o).image = plan[o].target
         /\ Rollback(o).origin = o /\ Rollback(o).kind = "rollback"
         /\ Rollback(o).image = plan[o].baseline
         /\ \A over : /\ Recovery(o, over).origin = o
                      /\ Recovery(o, over).kind \in Recoveries
                      /\ Recovery(o, over).image = plan[o].recovery
         /\ NoRevision.origin = 0 /\ NoRevision.kind = "initial"
         /\ Forward(o).kind \notin Recoveries /\ Rollback(o).kind \notin Recoveries
         /\ NoRevision.kind \notin Recoveries /\ Forward(o) # Rollback(o)
<1>1. /\ Forward(o).origin = o /\ Forward(o).kind = "forward"
      /\ Forward(o).image = plan[o].target
  BY DEF Forward
<1>2. /\ Rollback(o).origin = o /\ Rollback(o).kind = "rollback"
      /\ Rollback(o).image = plan[o].baseline
  BY DEF Rollback
<1>3. ASSUME NEW over
      PROVE  /\ Recovery(o, over).origin = o
             /\ Recovery(o, over).kind \in Recoveries
             /\ Recovery(o, over).image = plan[o].recovery
  BY DEF Recovery, Recoveries
<1>4. NoRevision.origin = 0 /\ NoRevision.kind = "initial"
  BY DEF NoRevision
<1>5. "forward" \notin Recoveries /\ "rollback" \notin Recoveries /\ "initial" \notin Recoveries
  BY DEF Recoveries
<1> QED BY <1>1, <1>2, <1>3, <1>4, <1>5

LEMMA TemplateIs ==
  ASSUME NEW f, NEW role
  PROVE  /\ run[f].goal = "succeed" => Template(f, role) = Forward(run[f].origin)
         /\ run[f].goal = "roll_back" => Template(f, role) = Rollback(run[f].origin)
         /\ run[f].goal = "recover" =>
              Template(f, role) = Recovery(run[f].origin, run[f].found[role])
BY DEF Template, Origin

(* A run asks for the same as long as its goal and its finds are.          *)
LEMMA TemplateStays ==
  ASSUME NEW f, run'[f].goal = run[f].goal, run'[f].origin = run[f].origin,
         run'[f].found = run[f].found, plan' = plan
  PROVE  \A role : Template(f, role)' = Template(f, role)
BY DEF Template, Origin, Forward, Rollback, Recovery

LEMMA ClassifiedIs ==
  ASSUME NEW f \in Fences, NEW role \in Roles
  PROVE  /\ Classified(f, role) = "forward" => app[role] = Forward(run[f].origin)
         /\ Classified(f, role) = "baseline" =>
              app[role] \in {previous[run[f].origin][role], Rollback(run[f].origin)}
         /\ Classified(f, role) = "baseline" /\ f = run[f].origin =>
              app[role] = previous[run[f].origin][role]
BY DEF Classified, Origin

-----------------------------------------------------------------------------
(* Steps of other runs, and the end of the owner's.                        *)
LEMMA AsideKeeps ==
  ASSUME Base, RowIsKnown, Held, NEW f \in Fences, Keeps(f),
         run'[f].origin = run[f].origin, run'[f].step # "acquired",
         run'[f].step = "confirmed" => run[f].step = "confirmed",
         f # fence \/ LeavesEmpty(f), UNCHANGED <<leaseVars, providerVars, previous, history>>
  PROVE  Held'
<1> DEFINE o == record.origin
<1>0. UNCHANGED <<image, fence, phase, expected, incoming, record, intents, events, live,
                  plan, outcome, app, pending, previous, sent, twice>>
  BY DEF leaseVars, providerVars, history
<1>1. Undecided' = Undecided
  BY <1>0 DEF Undecided, Lease!Undecided
<1>2. fence \in Fences => \/ run'[fence] = run[fence]
                          \/ run'[fence].step \in Gone /\ run'[fence].goal = "none"
                             /\ run'[fence].origin = run[fence].origin
                             /\ run'[fence].read = {}
  BY DEF Keeps, LeavesEmpty
<1>3. Gone \cap (Opening \cup Active) = {} /\ "confirmed" \notin Gone
  BY DEF Gone, Opening, Active
<1>4. OwnerFits'
  BY <1>0, <1>1, <1>2, <1>3 DEF Held, OwnerFits, RowIsKnown, Undecided, Lease!Undecided
<1>5. RecordFits'
  <2>1. record # NoRecord => run'[o].step # "acquired"
    BY DEF Held, RecordFits, RowIsKnown, Keeps
  <2>2. phase = "RESERVED" /\ run'[fence].step = "confirmed" => run[fence].step = "confirmed"
    BY <1>2, <1>3 DEF RowIsKnown
  <2> QED BY <1>0, <2>1, <2>2 DEF Held, RecordFits, IsBaseline
<1>6. RevisionsFit' /\ WorkerIsLast' /\ RowTellsTheTruth'
  BY <1>0, <1>1 DEF Held, RevisionsFit, WorkerIsLast, RowTellsTheTruth, Undecided, Forward
<1>7. SentFits'
  BY <1>0, <1>1, <1>2, <1>3 DEF Held, SentFits, RowIsKnown, Role, Undecided, Lease!Undecided, Gone
<1>8. PendingFits'
  <2> SUFFICES ASSUME NEW role \in Roles, pending[role] # NoRevision
               PROVE  /\ Undecided /\ fence \in live
                      /\ run'[fence].step \notin Active \ {"sent"}
                      /\ run'[fence].step = "sent" =>
                           /\ run'[fence] = run[fence]
                           /\ \A k : Template(fence, k)' = Template(fence, k)
    BY <1>0, <1>1 DEF Held, PendingFits, Role
  <2>1. fence \in Fences /\ Undecided /\ fence \in live
    BY DEF Held, PendingFits, RowIsKnown, Undecided, Lease!Undecided
  <2> QED BY <1>0, <1>2, <1>3, <2>1 DEF Held, PendingFits, Gone,
               Template, Origin, Forward, Rollback, Recovery
<1>9. AppsFit'
  <2> SUFFICES ASSUME Undecided, run'[fence].step \in {"ready", "announced", "sent", "verified"}
               PROVE  AppsFit'
    BY <1>0, <1>1 DEF AppsFit
  <2>1. run'[fence] = run[fence] /\ fence \in Fences
    BY <1>2, <1>3 DEF RowIsKnown, Active, Gone, Undecided, Lease!Undecided
  <2>2. \A k : Template(fence, k)' = Template(fence, k)
    BY <1>0, <2>1 DEF Template, Origin, Forward, Rollback, Recovery
  <2> QED BY <1>0, <1>1, <2>1, <2>2 DEF Held, AppsFit, Forward, Rollback
<1> QED BY <1>4, <1>5, <1>6, <1>7, <1>8, <1>9 DEF Held

LEMMA ConfirmKeeps ==
  ASSUME Base, RowIsKnown, Held, OtherTypes, NEW f \in Fences, Confirm(f)
  PROVE  Held'
<1>1. /\ run[f].step = "acquired" /\ UNCHANGED <<leaseVars, providerVars, history>>
      /\ \A role \in Roles : app[role].image = plan[f].baseline
      /\ previous' = [previous EXCEPT ![f] = app]
  BY DEF Confirm, At
<1>2. /\ Keeps(f) /\ run'[f].origin = run[f].origin /\ run'[f].step = "confirmed"
      /\ run'[f].goal = run[f].goal /\ run'[f].read = run[f].read
  BY GoesEffect DEF Confirm, Base, Steps
<1>0. UNCHANGED <<image, fence, phase, expected, incoming, record, intents, events, live,
                  plan, outcome, app, pending, sent, twice>>
  BY <1>1 DEF leaseVars, providerVars, history
<1>3. Undecided' = Undecided
  BY <1>0 DEF Undecided, Lease!Undecided
<1>4. fence \in Fences /\ Undecided => f # fence
  BY <1>1 DEF Held, OwnerFits, Opening
<1>5. record # NoRecord => f # record.origin
  BY <1>1 DEF Held, RecordFits
<1>6. \A g \in Fences \ {f} : previous'[g] = previous[g] /\ run'[g] = run[g]
  BY <1>1, <1>2 DEF OtherTypes, Keeps
<1>7. OwnerFits'
  <2>1. CASE f = fence
    <3>1. ~Undecided
      BY <1>4, <2>1
    <3> QED BY <1>0, <1>2, <1>3, <2>1, <3>1 DEF Held, OwnerFits, Active
  <2>2. CASE f # fence
    <3>1. phase # "NONE" => run'[fence] = run[fence]
      BY <1>6, <2>2 DEF RowIsKnown
    <3> QED BY <1>0, <1>3, <3>1 DEF Held, OwnerFits, RowIsKnown, Undecided, Lease!Undecided
  <2> QED BY <2>1, <2>2
<1>8. RecordFits'
  <2>1. record # NoRecord =>
          run'[record.origin] = run[record.origin]
          /\ previous'[record.origin] = previous[record.origin]
    BY <1>5, <1>6 DEF RowIsKnown
  <2>2. ASSUME phase = "RESERVED", run'[fence].step = "confirmed" PROVE IsBaseline(fence)'
    <3>1. CASE f = fence
      <4>1. previous'[fence] = app
        BY <1>1, <3>1 DEF OtherTypes
      <4>2. \A role \in Roles : app[role].image = expected
        BY <1>1, <2>2, <3>1 DEF RowIsKnown
      <4>3. \A role \in Roles : app[role].origin < fence
        BY <2>2 DEF Held, RevisionsFit
      <4> QED BY <1>0, <4>1, <4>2, <4>3 DEF IsBaseline
    <3>2. CASE f # fence
      <4>1. run'[fence] = run[fence] /\ previous'[fence] = previous[fence]
        BY <1>6, <2>2, <3>2 DEF RowIsKnown
      <4>2. IsBaseline(fence)
        BY <2>2, <4>1 DEF Held, RecordFits
      <4> QED BY <1>0, <4>1, <4>2 DEF IsBaseline
    <3> QED BY <3>1, <3>2
  <2> QED BY <1>0, <2>1, <2>2 DEF Held, RecordFits, IsBaseline
<1>9. RevisionsFit' /\ WorkerIsLast' /\ RowTellsTheTruth'
  BY <1>0, <1>3 DEF Held, RevisionsFit, WorkerIsLast, RowTellsTheTruth, Undecided, Forward
<1>10. Undecided => fence \in Fences /\ run'[fence] = run[fence]
  BY <1>4, <1>6 DEF RowIsKnown, Undecided, Lease!Undecided
<1>11. SentFits'
  <2>1. CASE Undecided
    BY <1>0, <1>3, <1>10, <2>1 DEF Held, SentFits, Role, Undecided
  <2>2. CASE ~Undecided
    BY <1>0, <1>3, <2>2 DEF Held, SentFits
  <2> QED BY <2>1, <2>2
<1>12. PendingFits'
  <2> SUFFICES ASSUME NEW role \in Roles, pending[role] # NoRevision
               PROVE  /\ Undecided /\ run'[fence] = run[fence]
                      /\ \A k : Template(fence, k)' = Template(fence, k)
    BY <1>0, <1>3 DEF Held, PendingFits, Role
  <2> QED BY <1>0, <1>10 DEF Held, PendingFits, Template, Origin, Forward, Rollback, Recovery
<1>13. AppsFit'
  <2> SUFFICES ASSUME Undecided PROVE AppsFit'
    BY <1>3 DEF AppsFit
  <2>1. \A k : Template(fence, k)' = Template(fence, k)
    BY <1>0, <1>10 DEF Template, Origin, Forward, Rollback, Recovery
  <2>2. record # NoRecord /\ previous'[record.origin] = previous[record.origin]
    BY <1>5, <1>6 DEF RowIsKnown
  <2> QED BY <1>0, <1>3, <1>10, <2>1, <2>2 DEF Held, AppsFit, Forward, Rollback
<1> QED BY <1>7, <1>8, <1>9, <1>11, <1>12, <1>13 DEF Held

(* While no release is under way no request is open.                       *)
LEMMA NothingIsOpen ==
  ASSUME PendingFits
  PROVE  /\ ~Undecided => \A role \in Roles : pending[role] = NoRevision
         /\ fence \notin live => \A role \in Roles : pending[role] = NoRevision
         /\ run[fence].step \in Active \ {"sent"} =>
              \A role \in Roles : pending[role] = NoRevision
BY DEF PendingFits

LEMMA OriginsAre ==
  ASSUME OtherTypes, NEW role \in Roles
  PROVE  app[role].origin \in Nat /\ pending[role].origin \in Nat
<1>1. app[role] \in Revisions /\ pending[role] \in Revisions \cup {NoRevision}
  BY DEF OtherTypes
<1>2. \A revision \in Revisions \cup {NoRevision} : revision.origin \in Nat
  BY FencesAre DEF Revisions, NoRevision
<1> QED BY <1>1, <1>2

LEMMA AcquireKeeps ==
  ASSUME Base, RowIsKnown, Held, OtherTypes, NEW i \in Images, Acquire(i)
  PROVE  Held'
<1>1. /\ UNCHANGED <<image, app, pending, previous, sent, twice>>
      /\ phase' = "RESERVED" /\ record' = NoRecord /\ intents' = Lease!NoIntents
      /\ phase \in {"NONE", "RESERVED"}
  BY DEF Acquire, Lease!Acquire, Lease!FreeToAcquire, providerVars, history, NoRecord
<1>2. ~Undecided /\ ~Undecided'
  BY <1>1 DEF Undecided, Lease!Undecided
<1>3. PICK n \in Fences : n = fence'
  BY AcquireEffect DEF Base
<1>4. /\ fence' = fence + 1 /\ run'[n].origin = n /\ run'[n].step \in {"acquired", "done"}
      /\ run'[n].read = {}
  BY <1>3, AcquireEffect DEF Base
<1>5. OwnerFits'
  BY <1>1, <1>2, <1>3, <1>4 DEF OwnerFits, Active
<1>6. RecordFits'
  BY <1>1, <1>3, <1>4 DEF RecordFits, Lease!NoIntents, NoRecord
<1>7. RevisionsFit'
  <2>1. \A role \in Roles : /\ app[role].origin < fence + 1 /\ app[role].origin <= fence + 1
                             /\ pending[role].origin <= fence + 1
    <3> TAKE role \in Roles
    <3>1. /\ app[role].origin \in Nat /\ pending[role].origin \in Nat
          /\ app[role].origin <= fence /\ pending[role].origin <= fence /\ fence \in Nat
      BY OriginsAre DEF Held, RevisionsFit, RowIsKnown
    <3> QED BY <3>1
  <2>2. \A role \in Roles, o \in Fences : <<o, role>> \notin sent =>
          ~ Recovers(app[role], o) /\ ~ Recovers(pending[role], o)
    BY DEF Held, RevisionsFit
  <2>3. app' = app /\ pending' = pending /\ sent' = sent
    BY <1>1
  <2> QED BY <1>4, <2>1, <2>2, <2>3 DEF RevisionsFit
<1>8. SentFits'
  <2>1. \A o \in Fences : o \in Nat
    BY FencesAre
  <2>2. fence \in Nat
    BY DEF RowIsKnown
  <2> QED BY <1>1, <1>2, <1>4, <2>1, <2>2 DEF Held, SentFits
<1>9. PendingFits'
  BY <1>1, <1>2, NothingIsOpen DEF Held, PendingFits
<1>10. AppsFit' /\ WorkerIsLast'
  BY <1>2 DEF AppsFit, WorkerIsLast
<1>11. RowTellsTheTruth'
  BY <1>1, <1>2 DEF Held, RowTellsTheTruth, Undecided
<1> QED BY <1>5, <1>6, <1>7, <1>8, <1>9, <1>10, <1>11 DEF Held

LEMMA RecordKeeps ==
  ASSUME Base, RowIsKnown, Held, NEW f \in Fences, NEW recovery \in Images \cup {None},
         Record(f, recovery)
  PROVE  Held'
<1>1. /\ UNCHANGED <<image, fence, phase, expected, intents, live, app, pending, previous, sent, twice>>
      /\ f = fence /\ phase = "RESERVED" /\ record = NoRecord /\ run[f].step = "confirmed"
      /\ record' = [origin |-> fence, recovery |-> recovery]
  BY DEF Record, At, Lease!RecordRollback, Lease!Owned, Lease!OwnedOrExpired, providerVars,
         history, NoRecord
<1>2. ~Undecided /\ ~Undecided'
  BY <1>1 DEF Undecided, Lease!Undecided
<1>3. /\ Keeps(f) /\ run'[f].origin = run[f].origin /\ run'[f].step = "recorded"
      /\ run'[f].read = run[f].read
  BY GoesEffect DEF Record, Base, Steps
<1>4. record'.origin = fence /\ record' # NoRecord
  BY <1>1, FencesAre DEF NoRecord, Lease!NoRecord
<1>5. OwnerFits'
  BY <1>1, <1>2, <1>3, <1>4 DEF Held, OwnerFits, Active
<1>6. RecordFits'
  <2>1. IsBaseline(fence) /\ \A role \in Roles : intents[role] = Lease!NoIntent
    BY <1>1 DEF Held, RecordFits, RowIsKnown
  <2> QED BY <1>1, <1>3, <1>4, <2>1 DEF RecordFits, IsBaseline
<1>7. RevisionsFit' /\ SentFits' /\ RowTellsTheTruth'
  BY <1>1, <1>2 DEF Held, RevisionsFit, SentFits, RowTellsTheTruth, Undecided
<1>8. PendingFits'
  BY <1>1, <1>2, NothingIsOpen DEF Held, PendingFits
<1>9. AppsFit' /\ WorkerIsLast'
  BY <1>2 DEF AppsFit, WorkerIsLast
<1> QED BY <1>5, <1>6, <1>7, <1>8, <1>9 DEF Held

LEMMA BeginKeeps ==
  ASSUME Base, RowIsKnown, Held, NEW f \in Fences, Begin(f)
  PROVE  Held'
<1> DEFINE o == record.origin
<1>1. /\ UNCHANGED <<image, fence, expected, record, intents, live, plan, app, pending,
                     previous, sent, twice>>
      /\ f = fence /\ phase = "RESERVED" /\ record # NoRecord /\ run[f].step = "recorded"
      /\ phase' = "MUTATING"
  BY DEF Begin, At, Lease!Begin, Lease!Owned, Lease!OwnedOrExpired, providerVars,
         history, NoRecord
<1>2. ~Undecided /\ Undecided' /\ o = fence /\ fence \in Nat
  BY <1>1 DEF Undecided, Lease!Undecided, RowIsKnown
<1>3. /\ Keeps(f) /\ run'[f].origin = run[f].origin /\ run'[f].step = "ready"
      /\ run'[f].read = run[f].read /\ run'[f].goal = run[f].goal /\ run'[f].todo = run[f].todo
  BY GoesEffect DEF Begin, Base, Steps
<1>4. run[f].goal = "succeed" /\ run[f].todo = Initial
  BY <1>1 DEF Base, RunsFit, RunFits, Opening
<1>5. OwnerFits'
  BY <1>1, <1>2, <1>3, <1>4 DEF Held, OwnerFits, Active, Opening
<1>6. RecordFits'
  BY <1>1, <1>2, <1>3 DEF Held, RecordFits, IsBaseline
<1>7. RevisionsFit' /\ RowTellsTheTruth'
  BY <1>1, <1>2 DEF Held, RevisionsFit, RowTellsTheTruth, Undecided
<1>8. SentFits'
  BY <1>1, <1>2, <1>3 DEF Held, SentFits
<1>9. \A role \in Roles : pending[role] = NoRevision
  BY <1>2, NothingIsOpen DEF Held
<1>10. PendingFits'
  BY <1>1, <1>9 DEF PendingFits
<1>11. \A role \in Roles : app[role].origin < o
  BY <1>1, <1>2 DEF Held, RevisionsFit
<1>12. AppsFit'
  BY <1>1, <1>2, <1>3, <1>4, <1>11 DEF AppsFit, Roles
<1>13. WorkerIsLast'
  <2>1. Forward(o)' = Forward(o)
    BY <1>1 DEF Forward
  <2>2. Forward(o) \notin {app["worker"], pending["worker"]}
    BY <1>2, <1>9, <1>11, RevisionIs DEF Roles
  <2> QED BY <1>1, <2>1, <2>2 DEF WorkerIsLast
<1> QED BY <1>5, <1>6, <1>7, <1>8, <1>10, <1>12, <1>13 DEF Held

LEMMA MarkKeeps ==
  ASSUME Base, RowIsKnown, Held, NEW f \in Fences, Mark(f)
  PROVE  Held'
<1> DEFINE o == record.origin
<1>1. /\ UNCHANGED <<image, fence, expected, record, intents, plan, app, pending,
                     previous, sent, twice>>
      /\ f = fence /\ phase # "NONE" /\ record # NoRecord
      /\ phase' = "RECOVERY_REQUIRED" /\ live' = live \cup {fence}
  BY DEF Mark, Lease!MarkRecoveryRequired, Lease!OwnedOrExpired, providerVars,
         history, NoRecord
<1>2. /\ Keeps(f) /\ run'[f].origin = run[f].origin /\ run'[f].step = "done"
      /\ run'[f].read = {} /\ run'[f].goal = "none"
  BY EndsEffect DEF Mark, Base, Reports, LeavesEmpty
<1>3. Undecided' /\ fence \in Nat /\ (Undecided \/ (phase = "RESERVED" /\ o = fence))
  BY <1>1 DEF Undecided, Lease!Undecided, RowIsKnown
<1>4. OwnerFits'
  BY <1>1, <1>2, <1>3 DEF Held, OwnerFits, Active, Opening
<1>5. RecordFits'
  <2>1. run'[o].step # "acquired"
    BY <1>1, <1>2 DEF Held, RecordFits, Keeps, RowIsKnown
  <2> QED BY <1>1, <1>2, <2>1 DEF Held, RecordFits, IsBaseline
<1>6. RevisionsFit' /\ RowTellsTheTruth'
  BY <1>1, <1>3 DEF Held, RevisionsFit, RowTellsTheTruth, Undecided
<1>7. SentFits'
  BY <1>1, <1>2, <1>3 DEF Held, SentFits
<1>8. PendingFits'
  BY <1>1, <1>2, <1>3 DEF Held, PendingFits, Active
<1>9. AppsFit'
  BY <1>1, <1>2 DEF AppsFit
<1>10. WorkerIsLast'
  <2>1. Forward(o)' = Forward(o)
    BY <1>1 DEF Forward
  <2>2. CASE Undecided
    BY <1>1, <2>1, <2>2 DEF Held, WorkerIsLast
  <2>3. CASE ~Undecided
    <3>1. \A role \in Roles : pending[role] = NoRevision /\ app[role].origin < o
      BY <1>3, <2>3, NothingIsOpen DEF Held, RevisionsFit
    <3>2. Forward(o) \notin {app["worker"], pending["worker"]}
      BY <1>3, <2>3, <3>1, RevisionIs DEF Roles, RowIsKnown
    <3> QED BY <1>1, <2>1, <3>2 DEF WorkerIsLast
  <2> QED BY <2>2, <2>3
<1> QED BY <1>4, <1>5, <1>6, <1>7, <1>8, <1>9, <1>10 DEF Held

LEMMA ClaimKeeps ==
  ASSUME Base, RowIsKnown, Held, OtherTypes, Claim
  PROVE  Held'
<1> DEFINE o == record.origin
<1>1. /\ UNCHANGED <<image, expected, intents, plan, app, pending, previous, sent, twice>>
      /\ Undecided /\ fence \notin live /\ record # NoRecord /\ glance.fence = fence
      /\ phase' = "RECOVERY_REQUIRED"
      /\ record' = [origin |-> Lease!Origin, recovery |-> record.recovery]
  BY DEF Claim, Lease!ClaimRecovery, providerVars, history, NoRecord, Undecided
<1>2. PICK n \in Fences : n = fence'
  BY ClaimEffect DEF Base
<1>3. /\ fence' = fence + 1 /\ Keeps(n) /\ run'[n].origin = glance.origin
      /\ run'[n].step \in {"claimed", "done"} /\ run'[n].goal = "none"
      /\ run'[n].read \subseteq {role \in Roles : glance.intents[role] # Lease!NoIntent}
  BY <1>2, ClaimEffect DEF Base
<1>4. /\ record'.origin = o /\ record'.recovery = record.recovery /\ record' # NoRecord
      /\ o \in Fences /\ o <= fence /\ fence \in Nat /\ o \in Nat
  BY <1>1, FencesAre DEF RowIsKnown, NoRecord, Lease!NoRecord
<1>5. Undecided'
  BY <1>1 DEF Undecided, Lease!Undecided
<1>6. glance.origin = o /\ (run'[n].read # {} => record.recovery # None)
  <2>1. /\ glance.origin = o
        /\ \A role \in Roles : glance.intents[role] # Lease!NoIntent => intents[role] = glance.intents[role]
    BY <1>1 DEF Base, GlanceFits
  <2> QED BY <1>3, <2>1 DEF Held, RecordFits
<1>7. OwnerFits'
  BY <1>1, <1>2, <1>3, <1>4, <1>5, <1>6 DEF OwnerFits, Opening
<1>8. RecordFits'
  <2>1. o # n
    BY <1>2, <1>3, <1>4
  <2>2. run'[o] = run[o]
    BY <1>3, <1>4, <2>1 DEF Keeps
  <2> QED BY <1>1, <1>4, <2>2 DEF Held, RecordFits, IsBaseline
<1>9. RevisionsFit'
  <2>1. \A role \in Roles : app[role].origin <= fence + 1 /\ pending[role].origin <= fence + 1
    BY <1>4, OriginsAre DEF Held, RevisionsFit
  <2>2. \A role \in Roles, k \in Fences : <<k, role>> \notin sent =>
          ~ Recovers(app[role], k) /\ ~ Recovers(pending[role], k)
    BY DEF Held, RevisionsFit
  <2>3. app' = app /\ pending' = pending /\ sent' = sent /\ phase' # "RESERVED"
    BY <1>1
  <2> QED BY <1>3, <2>1, <2>2, <2>3 DEF RevisionsFit
<1>10. SentFits'
  <2>1. \A k \in Fences : k <= fence => k <= fence + 1
    BY <1>4, FencesAre
  <2> QED BY <1>1, <1>2, <1>3, <1>4, <2>1 DEF Held, SentFits
<1>11. PendingFits'
  BY <1>1, NothingIsOpen DEF Held, PendingFits
<1>12. AppsFit'
  BY <1>2, <1>3 DEF AppsFit
<1>13. WorkerIsLast'
  BY <1>1, <1>4 DEF Held, WorkerIsLast, Forward
<1>14. RowTellsTheTruth'
  BY <1>5 DEF RowTellsTheTruth, Undecided
<1> QED BY <1>7, <1>8, <1>9, <1>10, <1>11, <1>12, <1>13, <1>14 DEF Held

(* The row names the image that both apps run when a release ends.         *)
LEMMA EndKeeps ==
  ASSUME Base, RowIsKnown, Held, Lease!Clear,
         UNCHANGED <<fence, app, pending, sent, twice>>,
         \A role \in Roles : app[role].image = image' /\ pending[role] = NoRevision
  PROVE  Held'
<1>1. phase' = "NONE" /\ record' = NoRecord /\ intents' = Lease!NoIntents /\ ~Undecided'
  BY DEF Lease!Clear, NoRecord, Undecided, Lease!Undecided
<1>2. OwnerFits' /\ AppsFit' /\ WorkerIsLast'
  BY <1>1 DEF OwnerFits, AppsFit, WorkerIsLast
<1>3. RecordFits'
  BY <1>1 DEF RecordFits, Lease!NoIntents
<1>4. RevisionsFit' /\ SentFits'
  BY <1>1 DEF Held, RevisionsFit, SentFits
<1>5. PendingFits' /\ RowTellsTheTruth'
  BY DEF PendingFits, RowTellsTheTruth
<1> QED BY <1>2, <1>3, <1>4, <1>5 DEF Held

LEMMA LeaveKeeps ==
  ASSUME Base, RowIsKnown, Held, NEW f \in Fences, Leave(f)
  PROVE  Held'
<1>1. /\ phase = "RESERVED" /\ Lease!Clear
      /\ UNCHANGED <<image, fence, app, pending, sent, twice>>
  BY DEF Leave, Lease!Abort, providerVars, history
<1>2. ~Lease!Undecided
  BY <1>1 DEF Lease!Undecided
<1> QED BY <1>1, <1>2, EndKeeps DEF Held, RowTellsTheTruth

(* A run that has verified the apps has written both.                      *)
LEMMA VerifiedIs ==
  ASSUME Base, RowIsKnown, Held, Undecided, fence \in Fences, run[fence].step = "verified"
  PROVE  /\ run[fence].origin = record.origin /\ record # NoRecord
         /\ \A role \in Roles :
              /\ pending[role] = NoRevision
              /\ run[fence].goal = "succeed" => app[role].image = incoming.image
              /\ run[fence].goal = "recover" => app[role].image = record.recovery
              /\ run[fence].goal = "roll_back" => app[role].image = image
<1> DEFINE o == record.origin
<1>1. run[fence].origin = o /\ record # NoRecord /\ phase # "NONE"
  BY DEF Held, OwnerFits, RowIsKnown, Undecided, Lease!Undecided
<1>2. \A role \in Roles : pending[role] = NoRevision
  BY NothingIsOpen DEF Held, Active
<1>3. /\ plan[o].target = incoming.image /\ plan[o].baseline = expected
      /\ plan[o].recovery = record.recovery /\ image = expected
  BY <1>1 DEF RowIsKnown
<1>4. ASSUME NEW role \in Roles, run[fence].goal \in {"succeed", "recover"}
      PROVE  app[role] = Template(fence, role)
  BY <1>4 DEF Held, AppsFit
<1>5. ASSUME NEW role \in Roles, run[fence].goal = "roll_back" PROVE app[role].image = image
  <2>1. run[fence].todo = <<>>
    BY DEF Base, RunsFit, RunFits
  <2>2. role \notin Listed(run[fence].todo)
    BY <2>1, ListedIs
  <2>3. app[role] \in {previous[o][role], Rollback(o)}
    BY <1>5, <2>2 DEF Held, AppsFit
  <2>4. previous[o][role].image = expected
    BY <1>1 DEF Held, RecordFits, IsBaseline
  <2> QED BY <1>3, <2>3, <2>4, RevisionIs
<1>6. ASSUME NEW role \in Roles
      PROVE  /\ run[fence].goal = "succeed" => app[role].image = incoming.image
             /\ run[fence].goal = "recover" => app[role].image = record.recovery
  BY <1>1, <1>3, <1>4, TemplateIs, RevisionIs
<1> QED BY <1>1, <1>2, <1>5, <1>6

LEMMA FinalizeKeeps ==
  ASSUME Base, RowIsKnown, Held, NEW f \in Fences, Finalize(f)
  PROVE  Held'
<1>1. /\ f = fence /\ Undecided /\ Lease!Clear /\ run[f].step = "verified"
      /\ UNCHANGED <<fence, app, pending, sent, twice>>
  BY FinalCalls DEF Finalize, At, Lease!FinalizeSuccess, Lease!FinalizeRollback,
       Lease!FinalizeRecovery, Lease!Decide, Lease!Owned, Lease!OwnedOrExpired,
       providerVars, history, Undecided
<1>2. \/ run[f].goal = "succeed" /\ image' = incoming.image
      \/ run[f].goal = "roll_back" /\ image' = image
      \/ run[f].goal = "recover" /\ image' = record.recovery
  BY DEF Finalize, Lease!FinalizeSuccess, Lease!FinalizeRollback, Lease!FinalizeRecovery
<1>3. \A role \in Roles : app[role].image = image' /\ pending[role] = NoRevision
  BY <1>1, <1>2, VerifiedIs
<1> QED BY <1>1, <1>3, EndKeeps

-----------------------------------------------------------------------------
LEMMA StillKeeps ==
  ASSUME RowIsKnown, Held,
         UNCHANGED <<image, fence, phase, expected, record, intents, plan, app, pending,
                     previous, run, sent, twice>>,
         \/ live' = live
         \/ \A role \in Roles : pending[role] = NoRevision
  PROVE  Held'
<1>1. Undecided' = Undecided
  BY DEF Undecided, Lease!Undecided
<1>2. \A f, k : Template(f, k)' = Template(f, k)
  BY DEF Template, Origin, Forward, Rollback, Recovery
<1>3. OwnerFits' /\ RecordFits' /\ RevisionsFit' /\ SentFits'
  BY <1>1 DEF Held, OwnerFits, RecordFits, RevisionsFit, SentFits, IsBaseline, Role
<1>4. PendingFits'
  BY <1>1, <1>2 DEF Held, PendingFits, Role
<1>5. AppsFit'
  BY <1>1, <1>2 DEF Held, AppsFit, Forward, Rollback
<1>6. WorkerIsLast' /\ RowTellsTheTruth'
  BY <1>1 DEF Held, WorkerIsLast, RowTellsTheTruth, Undecided, Forward
<1> QED BY <1>3, <1>4, <1>5, <1>6 DEF Held

LEMMA ExpireKeeps ==
  ASSUME RowIsKnown, Held, NEW f \in Fences, Expire(f)
  PROVE  Held'
BY StillKeeps DEF Expire, Lease!Expire, Lease!lease, providerVars, runVars, history

(* An open request takes effect, or does not.                              *)
LEMMA SettleKeeps ==
  ASSUME Base, RowIsKnown, Held, OtherTypes, NEW role \in Roles, Settle(role)
  PROVE  Held'
<1> DEFINE o == record.origin
<1>1. /\ pending[role] # NoRevision
      /\ UNCHANGED <<image, fence, phase, expected, incoming, record, intents, live, plan,
                     previous, run, sent, twice>>
      /\ pending' = [pending EXCEPT ![role] = NoRevision]
  BY DEF Settle, leaseVars, runVars, history
<1>2. PICK revision \in {pending[role], app[role]} : app' = [app EXCEPT ![role] = revision]
  BY DEF Settle
<1>3. /\ app'[role] = revision /\ pending'[role] = NoRevision
      /\ \A k \in Roles \ {role} : app'[k] = app[k] /\ pending'[k] = pending[k]
  BY <1>1, <1>2 DEF OtherTypes
<1>4. Undecided' = Undecided
  BY <1>1 DEF Undecided, Lease!Undecided
<1>5. /\ Undecided /\ fence \in live /\ run[fence].step \notin Active \ {"sent"}
      /\ run[fence].step = "sent" => role = Role(fence)
  BY <1>1 DEF Held, PendingFits
<1>6. record # NoRecord /\ o \in Fences /\ o \in Nat /\ o > 0 /\ fence \in Nat /\ fence \in Fences
  BY <1>5, FencesAre DEF RowIsKnown, Undecided, Lease!Undecided
<1>7. OwnerFits' /\ RecordFits' /\ SentFits'
  BY <1>1, <1>4 DEF Held, OwnerFits, RecordFits, SentFits, IsBaseline, Role
<1>8. RevisionsFit'
  <2>1. phase # "RESERVED"
    BY <1>5 DEF Undecided, Lease!Undecided
  <2>2. \A k \in Roles : app'[k].origin <= fence /\ pending'[k].origin <= fence
    BY <1>2, <1>3, <1>6, RevisionIs DEF Held, RevisionsFit
  <2>3. ASSUME NEW k \in Roles, NEW n \in Fences, <<n, k>> \notin sent
        PROVE  ~ Recovers(app'[k], n) /\ ~ Recovers(pending'[k], n)
    <3>1. ~ Recovers(app[k], n) /\ ~ Recovers(pending[k], n) /\ ~ Recovers(NoRevision, n)
      BY <2>3, RevisionIs DEF Held, RevisionsFit, Recovers
    <3> QED BY <1>2, <1>3, <3>1
  <2> QED BY <1>1, <2>1, <2>2, <2>3 DEF RevisionsFit, Recovers
<1>9. \A f, k : Template(f, k)' = Template(f, k)
  BY <1>1 DEF Template, Origin, Forward, Rollback, Recovery
<1>10. PendingFits'
  <2> SUFFICES ASSUME NEW k \in Roles, pending'[k] # NoRevision
               PROVE  k # role /\ pending[k] # NoRevision /\ pending'[k] = pending[k]
                      /\ app'[k] = app[k]
    BY <1>1, <1>4, <1>9 DEF Held, PendingFits, Role
  <2> QED BY <1>3
<1>11. AppsFit'
  <2> SUFFICES ASSUME run[fence].step = "sent" PROVE AppsFit'
    BY <1>1, <1>5 DEF AppsFit, Active
  <2> DEFINE r == run[fence]
  <2>1. role = Role(fence) /\ r.todo \in Todos /\ r.todo # <<>>
    BY <1>5, <1>6, RunOf DEF Base, RunsFit, RunFits
  <2>2. /\ Head(r.todo) = role /\ role \in Listed(r.todo)
        /\ r.todo = Initial => role = "web"
        /\ r.todo = <<"worker">> => role = "worker"
    BY <2>1, TodoOf DEF Role
  <2>3. r.goal = "succeed" => r.todo \in {Initial, <<"worker">>}
    BY <1>6, <2>1 DEF Base, RunsFit, RunFits
  <2>4. Forward(o)' = Forward(o) /\ Rollback(o)' = Rollback(o)
    BY <1>1 DEF Forward, Rollback
  <2> HIDE DEF r
  <2>5. r.goal = "succeed" /\ fence = o /\ r.todo = Initial => app'["worker"].origin < o
    BY <1>3, <1>5, <2>2 DEF Held, AppsFit, Roles, r
  <2>6. r.goal = "succeed" /\ fence # o => app'["web"] = Forward(o) /\ r.todo # Initial
    BY <1>3, <1>5, <2>2, <2>3 DEF Held, AppsFit, Roles, r
  <2>7. r.goal = "roll_back" => \A k \in Roles : k \notin Listed(r.todo) =>
          app'[k] \in {previous[o][k], Rollback(o)}
    BY <1>3, <1>5, <2>2 DEF Held, AppsFit, r
  <2> QED BY <1>1, <2>4, <2>5, <2>6, <2>7 DEF AppsFit, r
<1>12. WorkerIsLast'
  <2>1. Forward(o)' = Forward(o) /\ Forward(o) # NoRevision
    BY <1>1, <1>6, RevisionIs DEF Forward
  <2>2. CASE role = "web"
    BY <1>1, <1>2, <1>3, <1>4, <2>1, <2>2 DEF Held, WorkerIsLast, Roles
  <2>3. CASE role = "worker"
    BY <1>1, <1>2, <1>3, <1>4, <2>1, <2>3 DEF Held, WorkerIsLast, Roles
  <2> QED BY <2>2, <2>3 DEF Roles
<1>13. RowTellsTheTruth'
  BY <1>4, <1>5 DEF RowTellsTheTruth, Undecided
<1> QED BY <1>7, <1>8, <1>10, <1>11, <1>12, <1>13 DEF Held

-----------------------------------------------------------------------------
(* A step of the owner that changes nothing but what it has in hand.       *)
LEMMA OwnKeeps ==
  ASSUME Base, RowIsKnown, Held, NEW f \in Fences, f = fence, Keeps(f),
         UNCHANGED <<leaseVars, providerVars, previous, history>>,
         run[f].step \in Active, run'[f].step \in {"ready", "verified"},
         run'[f].origin = run[f].origin, run'[f].read = run[f].read,
         Undecided => (run'[f].goal = "recover" => record.recovery # None),
         \A role \in Roles : pending[role] = NoRevision,
         AppsFit'
  PROVE  Held'
<1>0. UNCHANGED <<image, fence, phase, expected, incoming, record, intents, events, live,
                  plan, outcome, app, pending, previous, sent, twice>>
  BY DEF leaseVars, providerVars, history
<1>1. Undecided' = Undecided
  BY <1>0 DEF Undecided, Lease!Undecided
<1>2. phase # "RESERVED"
  BY DEF Held, OwnerFits
<1>3. OwnerFits'
  BY <1>0, <1>1, <1>2 DEF Held, OwnerFits, Opening
<1>4. RecordFits'
  <2>1. record # NoRecord => run'[record.origin].step # "acquired"
    BY DEF Held, RecordFits, Keeps, RowIsKnown
  <2> QED BY <1>0, <1>2, <2>1 DEF Held, RecordFits, IsBaseline
<1>5. RevisionsFit' /\ WorkerIsLast' /\ RowTellsTheTruth'
  BY <1>0, <1>1 DEF Held, RevisionsFit, WorkerIsLast, RowTellsTheTruth, Undecided, Forward
<1>6. SentFits'
  BY <1>0, <1>1 DEF Held, SentFits
<1>7. PendingFits'
  BY <1>0 DEF PendingFits
<1> QED BY <1>3, <1>4, <1>5, <1>6, <1>7 DEF Held

(* What the owner of a release that has begun knows of it.                 *)
LEMMA OwnerIs ==
  ASSUME Base, RowIsKnown, Held, Undecided
  PROVE  /\ fence \in Fences /\ record # NoRecord /\ run[fence].origin = record.origin
         /\ record.origin \in Fences /\ record.origin <= fence
         /\ record.origin \in Nat /\ record.origin > 0
         /\ plan[record.origin].recovery = record.recovery
         /\ IsBaseline(record.origin)
         /\ run[fence].goal \in {"succeed", "recover"} =>
              run[fence].todo \in {Initial, <<"worker">>, <<>>}
         /\ run[fence].goal = "roll_back" => run[fence].todo # Initial
         /\ run[fence].todo \in Todos
<1>1. fence \in Fences /\ record # NoRecord
  BY DEF RowIsKnown, Undecided, Lease!Undecided
<1>2. run[fence].origin = record.origin /\ IsBaseline(record.origin)
  BY <1>1 DEF Held, OwnerFits, RecordFits, Undecided, Lease!Undecided
<1>3. /\ record.origin \in Fences /\ record.origin <= fence
      /\ plan[record.origin].recovery = record.recovery
  BY <1>1 DEF RowIsKnown
<1> QED BY <1>1, <1>2, <1>3, FencesAre, RunOf DEF Base, RunsFit, RunFits

LEMMA ReadBackKeeps ==
  ASSUME Base, RowIsKnown, Held, NEW f \in Fences, ReadBack(f)
  PROVE  Held'
<1> DEFINE o == record.origin
<1>1. /\ run[f].step = "sent" /\ app[Role(f)] = Template(f, Role(f))
      /\ \/ run[f].answer = "succeeded"
         \/ run[f].answer = "unknown" /\ run[f].goal = "succeed" /\ f = Origin(f)
         \/ run[f].answer # "failed" /\ run[f].goal = "recover"
      /\ UNCHANGED <<leaseVars, providerVars, previous, history>>
  BY DEF ReadBack, At
<1>2. run[f].todo # <<>> /\ run[f].todo \in Todos
  BY <1>1, RunOf DEF Base, RunsFit, RunFits
<1>3. /\ Keeps(f) /\ run'[f].step = "ready" /\ run'[f].goal = run[f].goal
      /\ run'[f].origin = run[f].origin /\ run'[f].todo = Tail(run[f].todo)
      /\ run'[f].read = run[f].read
  BY <1>2, ReadBackEffect DEF Base
<1>4. CASE f # fence
  BY <1>1, <1>3, <1>4, AsideKeeps
<1>5. CASE f = fence
  <2>0. UNCHANGED <<phase, record, fence, plan, app, previous>>
    BY <1>1 DEF leaseVars, providerVars
  <2>1. \A role \in Roles : pending[role] = NoRevision
    <3> SUFFICES ASSUME NEW role \in Roles, pending[role] # NoRevision PROVE FALSE
      OBVIOUS
    <3>1. Undecided /\ role = Role(fence) /\ run[fence].answer = "unknown"
      BY <1>1, <1>5 DEF Held, PendingFits
    <3>2. run[fence].goal = "recover" \/ (run[fence].goal = "succeed" /\ fence = record.origin)
      BY <1>1, <1>5, <3>1, OwnerIs DEF Origin
    <3>3. app[role] # Template(fence, role)
      BY <1>1, <1>5, <3>2 DEF Held, PendingFits
    <3> QED BY <1>1, <1>5, <3>1, <3>3
  <2>2. Undecided => (run'[f].goal = "recover" => record.recovery # None)
    BY <1>1, <1>3, <1>5 DEF Held, OwnerFits, Active
  <2>3. AppsFit'
    <3> SUFFICES ASSUME Undecided PROVE AppsFit'
      BY <2>0 DEF AppsFit, Undecided, Lease!Undecided
    <3>1. /\ Tail(run[f].todo) # Initial
          /\ Listed(run[f].todo) = Listed(Tail(run[f].todo)) \cup {Role(f)}
      BY <1>2, TodoOf DEF Role
    <3>2. /\ run[f].goal = "succeed" /\ f # o => app["web"] = Forward(o)
          /\ run[f].goal = "roll_back" => \A role \in Roles : role \notin Listed(run[f].todo) =>
               app[role] \in {previous[o][role], Rollback(o)}
      BY <1>1, <1>5 DEF Held, AppsFit
    <3>3. run[f].goal = "roll_back" => app[Role(f)] = Rollback(o)
      BY <1>1, <1>5, OwnerIs, TemplateIs
    <3>4. run[f].goal = "roll_back" => \A role \in Roles :
            role \notin Listed(run'[f].todo) => app[role] \in {previous[o][role], Rollback(o)}
      BY <1>3, <3>1, <3>2, <3>3
    <3>5. Forward(o)' = Forward(o) /\ Rollback(o)' = Rollback(o)
      BY <2>0 DEF Forward, Rollback
    <3> QED BY <1>3, <1>5, <2>0, <3>1, <3>2, <3>4, <3>5 DEF AppsFit
  <2> QED BY <1>1, <1>3, <1>5, <2>1, <2>2, <2>3, OwnKeeps DEF Active
<1> QED BY <1>4, <1>5

LEMMA VerifyKeeps ==
  ASSUME Base, RowIsKnown, Held, NEW f \in Fences, Verify(f)
  PROVE  Held'
<1> DEFINE o == record.origin
<1>1. /\ run[f].step = "ready" /\ run[f].todo = <<>>
      /\ run[f].goal # "roll_back" => \A role \in Roles : app[role] = Template(f, role)
      /\ UNCHANGED <<leaseVars, providerVars, previous, history>>
  BY DEF Verify, At
<1>2. /\ Keeps(f) /\ run'[f].step = "verified" /\ run'[f].goal = run[f].goal
      /\ run'[f].origin = run[f].origin /\ run'[f].todo = run[f].todo
      /\ run'[f].read = run[f].read /\ run'[f].found = run[f].found
  BY GoesEffect DEF Verify, Base, Steps
<1>3. CASE f # fence
  BY <1>1, <1>2, <1>3, AsideKeeps
<1>4. CASE f = fence
  <2>0. UNCHANGED <<phase, record, fence, plan, app, previous>>
    BY <1>1 DEF leaseVars, providerVars
  <2>1. \A role \in Roles : pending[role] = NoRevision
    BY <1>1, <1>4, NothingIsOpen DEF Held, Active
  <2>2. Undecided => (run'[f].goal = "recover" => record.recovery # None)
    BY <1>1, <1>2, <1>4 DEF Held, OwnerFits, Active
  <2>3. AppsFit'
    <3> SUFFICES ASSUME Undecided PROVE AppsFit'
      BY <2>0 DEF AppsFit, Undecided, Lease!Undecided
    <3>1. /\ run[f].goal = "succeed" /\ f # o => app["web"] = Forward(o)
          /\ run[f].goal = "roll_back" => \A role \in Roles : role \notin Listed(run[f].todo) =>
               app[role] \in {previous[o][role], Rollback(o)}
      BY <1>1, <1>4 DEF Held, AppsFit
    <3>2. Forward(o)' = Forward(o) /\ Rollback(o)' = Rollback(o)
      BY <2>0 DEF Forward, Rollback
    <3>3. \A role : Template(f, role)' = Template(f, role)
      BY <1>2, <2>0, TemplateStays
    <3>4. run'[f].todo # Initial
      BY <1>1, <1>2 DEF Initial
    <3> QED BY <1>1, <1>2, <1>4, <2>0, <3>1, <3>2, <3>3, <3>4 DEF AppsFit
  <2> QED BY <1>1, <1>2, <1>4, <2>1, <2>2, <2>3, OwnKeeps DEF Active
<1> QED BY <1>3, <1>4

(* What is not to be rolled back is rolled back already.                   *)
LEMMA WrittenRest ==
  ASSUME NEW f \in Fences, NEW found, NEW role \in Roles,
         Known(found), found[role] = Classified(f, role),
         role \notin Listed(Written(found))
  PROVE  app[role] \in {previous[run[f].origin][role], Rollback(run[f].origin)}
<1>1. found[role] # "forward" /\ found[role] # "unknown"
  BY WrittenIs DEF Known
<1>2. Classified(f, role) = "baseline"
  BY <1>1 DEF Classified
<1> QED BY <1>2, ClassifiedIs

LEMMA CompensateKeeps ==
  ASSUME Base, RowIsKnown, Held, NEW f \in Fences, Compensate(f)
  PROVE  Held'
<1> DEFINE o == record.origin
           found == Classification(f)
<1>1. /\ f = Origin(f) /\ run[f].goal = "succeed" /\ Known(found) /\ Lease!Owned(f)
      /\ \/ run[f].step = "sent" /\ run[f].answer # "unknown"
         \/ run[f].step = "ready"
      /\ UNCHANGED <<leaseVars, providerVars, previous, history>>
  BY DEF Compensate, At
<1>2. /\ Keeps(f) /\ run'[f].step = "ready" /\ run'[f].origin = run[f].origin
      /\ run'[f].read = run[f].read
      /\ run'[f].goal = IF plan[f].recovery # None THEN "recover" ELSE "roll_back"
      /\ run'[f].todo = IF plan[f].recovery # None THEN Initial ELSE Written(found)
  BY CompensateEffect DEF Base
<1>3. f = fence /\ Undecided
  BY <1>1 DEF Lease!Owned, Lease!OwnedOrExpired, Held, OwnerFits, Active, RowIsKnown,
       Undecided, Lease!Undecided
<1>4. o = f /\ run[f].origin = o /\ plan[f].recovery = record.recovery
  BY <1>1, <1>3, OwnerIs DEF Origin
<1>5. UNCHANGED <<phase, record, fence, plan, app, previous>>
  BY <1>1 DEF leaseVars, providerVars
<1>6. \A role \in Roles : pending[role] = NoRevision
  BY <1>1, <1>3 DEF Held, PendingFits, Active
<1>7. run'[f].goal = "recover" => record.recovery # None
  BY <1>2, <1>4
<1>8. AppsFit'
  <2>1. ASSUME NEW role \in Roles, run'[f].goal = "roll_back", role \notin Listed(run'[f].todo)
        PROVE  app[role] \in {previous[o][role], Rollback(o)}
    <3>1. run'[f].todo = Written(found)
      BY <1>2, <2>1
    <3>2. found[role] = Classified(f, role)
      BY DEF Classification
    <3> QED BY <1>1, <1>4, <2>1, <3>1, <3>2, WrittenRest
  <2>2. Forward(o)' = Forward(o) /\ Rollback(o)' = Rollback(o)
    BY <1>5 DEF Forward, Rollback
  <2> QED BY <1>2, <1>3, <1>5, <2>1, <2>2 DEF AppsFit
<1> QED BY <1>1, <1>2, <1>3, <1>6, <1>7, <1>8, OwnKeeps DEF Active

LEMMA ChooseKeeps ==
  ASSUME Base, RowIsKnown, Held, NEW f \in Fences, Choose(f)
  PROVE  Held'
<1> DEFINE o == record.origin
<1>1. /\ run[f].step = "claimed" /\ Lease!Owned(f)
      /\ UNCHANGED <<leaseVars, providerVars, previous, history>>
  BY DEF Choose, ChooseGoal, At
<1>2. PICK found, goal, todo :
        /\ run'[f].found = found /\ run'[f].goal = goal /\ run'[f].todo = todo
        /\ goal \in {"succeed", "roll_back", "recover"} /\ Chosen(f, found, goal, todo)
        /\ run'[f].step = IF goal = "roll_back" /\ todo = <<>> THEN "verified" ELSE "ready"
  BY ChooseEffect DEF Base
<1>3. Keeps(f) /\ run'[f].origin = run[f].origin /\ run'[f].read = run[f].read
  BY ChooseEffect DEF Base
<1>4. f = fence /\ Undecided
  BY <1>1 DEF Lease!Owned, Lease!OwnedOrExpired, Held, OwnerFits, Active, RowIsKnown,
       Undecided, Lease!Undecided
<1>5. run[f].origin = o
  BY <1>4, OwnerIs
<1>6. UNCHANGED <<phase, record, fence, plan, app, previous>>
  BY <1>1 DEF leaseVars, providerVars
<1>7. \A role \in Roles : pending[role] = NoRevision
  BY <1>1, <1>4, NothingIsOpen DEF Held, Active
<1>8. run'[f].goal = "recover" => record.recovery # None
  BY <1>2 DEF Chosen
<1>9. ASSUME goal # "recover", NEW role \in Roles
      PROVE  Known(found) /\ found[role] = Classified(f, role)
  <2>1. record.recovery = None /\ Known(found) /\ Finds(f, found)
    BY <1>2, <1>9 DEF Chosen
  <2>2. run[f].read = {}
    BY <1>1, <1>4, <2>1 DEF Held, OwnerFits, Active
  <2> QED BY <2>1, <2>2 DEF Finds, Known
<1>10. AppsFit'
  <2>1. ASSUME goal = "succeed"
        PROVE  app["web"] = Forward(o) /\ todo # Initial
    <3>1. Classified(f, "web") = "forward"
      BY <1>2, <1>9, <2>1 DEF Chosen, Roles
    <3>2. todo \in {<<>>, <<"worker">>}
      BY <1>2, <2>1 DEF Chosen, Todo
    <3>3. <<>> # Initial /\ <<"worker">> # Initial
      BY DEF Initial
    <3> QED BY <1>5, <3>1, <3>2, <3>3, ClassifiedIs DEF Roles
  <2>2. ASSUME goal = "roll_back", NEW role \in Roles, role \notin Listed(todo)
        PROVE  app[role] \in {previous[o][role], Rollback(o)}
    <3>1. todo = Written(found)
      BY <1>2, <2>2 DEF Chosen, Todo
    <3> QED BY <1>5, <1>9, <2>2, <3>1, WrittenRest
  <2>3. Forward(o)' = Forward(o) /\ Rollback(o)' = Rollback(o)
    BY <1>6 DEF Forward, Rollback
  <2> QED BY <1>2, <1>4, <1>6, <2>1, <2>2, <2>3 DEF AppsFit
<1> QED BY <1>1, <1>2, <1>3, <1>4, <1>7, <1>8, <1>10, OwnKeeps DEF Active

LEMMA AnnounceKeeps ==
  ASSUME Base, RowIsKnown, Held, NEW f \in Fences, Announce(f)
  PROVE  Held'
<1> DEFINE o == record.origin
           role == Role(f)
<1>1. /\ run[f].step = "ready" /\ run[f].goal = "recover" /\ run[f].todo # <<>>
      /\ UNCHANGED <<providerVars, previous, glance, history>>
      /\ \/ Goes(f, "sent") /\ UNCHANGED leaseVars
         \/ /\ run[f].found[role] # "unknown"
            /\ Lease!RecordIntent(f, role, run[f].found[role])
            /\ Goes(f, IF intents[role] = Lease!NoIntent THEN "announced" ELSE "sent")
  BY DEF Announce, At
<1>2. run[f].todo \in Todos /\ role \in Roles /\ run[f].found \in [Roles -> Writes \cup {"unknown"}]
  BY <1>1, RunOf, TodoOf DEF Base, Role
<1>3. /\ Keeps(f) /\ run'[f].step \in {"sent", "announced"} /\ run'[f].goal = run[f].goal
      /\ run'[f].origin = run[f].origin /\ run'[f].todo = run[f].todo
      /\ run'[f].read = run[f].read
  BY AnnounceEffect DEF Base
<1>4. CASE Goes(f, "sent") /\ UNCHANGED leaseVars /\ f # fence
  <2>1. run'[f].step = "sent"
    BY <1>4, GoesEffect DEF Base, Steps
  <2> QED BY <1>1, <1>3, <1>4, <2>1, AsideKeeps
<1>5. ASSUME f = fence, fence' = fence,
             phase' = phase \/ (phase # "NONE" /\ phase' = "RECOVERY_REQUIRED"),
             UNCHANGED <<image, expected, record, live, plan>>,
             Undecided' = Undecided,
             \A k \in Roles : intents[k] # Lease!NoIntent => intents'[k] = intents[k],
             \A k \in Roles : intents'[k] # Lease!NoIntent =>
               intents[k] # Lease!NoIntent \/ record.recovery # None,
             Undecided /\ run'[f].step = "announced" =>
               /\ intents'[role] # Lease!NoIntent
               /\ \A n \in Fences : n = o => <<n, role>> \notin sent
      PROVE  Held'
  <2>0. UNCHANGED <<app, pending, previous, sent, twice>> /\ Role(f)' = role
    BY <1>1, <1>3 DEF providerVars, history, Role
  <2>1. phase # "RESERVED"
    BY <1>1, <1>5 DEF Held, OwnerFits, Active
  <2>2. OwnerFits'
    BY <1>1, <1>3, <1>5, <2>1 DEF Held, OwnerFits, Active, Opening
  <2>3. RecordFits'
    <3>1. record # NoRecord => run'[o].step # "acquired"
      BY <1>3 DEF Held, RecordFits, Keeps, RowIsKnown
    <3> QED BY <1>3, <1>5, <2>0, <2>1, <3>1 DEF Held, RecordFits, IsBaseline
  <2>4. phase' # "RESERVED"
    BY <1>5, <2>1
  <2>5. RevisionsFit' /\ WorkerIsLast' /\ RowTellsTheTruth'
    BY <1>5, <2>0, <2>4 DEF Held, RevisionsFit, WorkerIsLast, RowTellsTheTruth, Undecided, Forward
  <2>6. SentFits'
    BY <1>3, <1>5, <2>0, <2>4 DEF Held, SentFits
  <2>7. \A k \in Roles : pending[k] = NoRevision
    BY <1>1, <1>5, NothingIsOpen DEF Held, Active
  <2>8. PendingFits'
    BY <2>0, <2>7 DEF PendingFits
  <2>9. AppsFit'
    BY <1>1, <1>3, <1>5 DEF AppsFit
  <2> QED BY <2>2, <2>3, <2>5, <2>6, <2>8, <2>9 DEF Held
<1>6. CASE Goes(f, "sent") /\ UNCHANGED leaseVars /\ f = fence
  <2>1. run'[f].step = "sent"
    BY <1>6, GoesEffect DEF Base, Steps
  <2>2. UNCHANGED <<image, fence, phase, expected, record, intents, live, plan>>
    BY <1>6 DEF leaseVars
  <2>3. phase # "RESERVED" /\ phase \in {"NONE", "RESERVED", "MUTATING", "RECOVERY_REQUIRED"}
    BY <1>1, <1>6 DEF Held, OwnerFits, Active, RowIsKnown
  <2>4. Undecided' = Undecided
    BY <2>2 DEF Undecided, Lease!Undecided
  <2> QED BY <1>5, <1>6, <2>1, <2>2, <2>3, <2>4
<1>7. CASE /\ run[f].found[role] # "unknown"
           /\ Lease!RecordIntent(f, role, run[f].found[role])
           /\ Goes(f, IF intents[role] = Lease!NoIntent THEN "announced" ELSE "sent")
  <2>1. run[f].found[role] \in Writes
    BY <1>2, <1>7
  <2>2. /\ f = fence /\ Undecided /\ record.recovery # None
        /\ UNCHANGED <<image, fence, expected, record, live, plan>>
        /\ phase' = "RECOVERY_REQUIRED" /\ Undecided'
        /\ \A k \in Roles : intents[k] # Lease!NoIntent => intents'[k] = intents[k]
        /\ intents'[role] # Lease!NoIntent
    BY <1>2, <1>7, <2>1, IntentStays
  <2>3. run'[f].step = "announced" => intents[role] = Lease!NoIntent
    BY <1>7, GoesEffect DEF Base, Steps
  <2>4. run'[f].step = "announced" => \A n \in Fences : n = o => <<n, role>> \notin sent
    BY <1>2, <2>2, <2>3 DEF Held, SentFits
  <2>5. phase # "NONE" /\ Undecided' = Undecided
    BY <2>2 DEF Undecided, Lease!Undecided
  <2> QED BY <1>5, <2>2, <2>4, <2>5
<1> QED BY <1>1, <1>4, <1>6, <1>7

(* A request: the owner's next, for what the app does not run yet.         *)
LEMMA SendKeeps ==
  ASSUME Base, RowIsKnown, Held, OtherTypes, NEW f \in Fences, Send(f)
  PROVE  Held'
<1> DEFINE o == record.origin
           role == Role(f)
           new == Template(f, role)
           r == run[f]
<1>1. /\ r.step = IF r.goal = "recover" THEN "announced" ELSE "ready"
      /\ r.todo # <<>> /\ Lease!Owned(f)
      /\ r.goal = "succeed" /\ f = Origin(f) /\ role = "worker" =>
           Classified(f, "worker") = "baseline" /\ Classified(f, "web") = "forward"
      /\ UNCHANGED <<leaseVars, previous, glance>>
      /\ IF r.goal = "recover"
           THEN /\ sent' = sent \cup {<<Origin(f), role>>}
                /\ twice' = (twice \/ <<Origin(f), role>> \in sent)
           ELSE UNCHANGED history
  BY DEF Send, At
<1>2. /\ Keeps(f) /\ run'[f].step = "sent" /\ run'[f].goal = r.goal
      /\ run'[f].origin = r.origin /\ run'[f].todo = r.todo
      /\ run'[f].found = r.found /\ run'[f].read = r.read
      /\ \/ run'[f].answer # "unknown" /\ UNCHANGED pending
            /\ app' = [app EXCEPT ![role] = new]
         \/ run'[f].answer = "failed" /\ UNCHANGED providerVars
         \/ run'[f].answer = "unknown" /\ UNCHANGED app
            /\ pending' = [pending EXCEPT ![role] = new]
  BY SendEffect DEF Base
<1>3. f = fence /\ f \in live /\ Undecided
  BY <1>1 DEF Lease!Owned, Lease!OwnedOrExpired, Held, OwnerFits, Active, RowIsKnown,
       Undecided, Lease!Undecided
<1>4. UNCHANGED <<image, fence, phase, expected, incoming, record, intents, events, live,
                  plan, outcome, previous>>
  BY <1>1 DEF leaseVars
<1>5. Undecided' = Undecided
  BY <1>4 DEF Undecided, Lease!Undecided
<1>6. \A k \in Roles : pending[k] = NoRevision
  BY <1>1, <1>3, NothingIsOpen DEF Held, Active
<1>7. /\ r.todo \in Todos /\ role \in Roles /\ role \in Listed(r.todo)
      /\ r.todo = Initial => role = "web"
      /\ r.todo = <<"worker">> => role = "worker"
      /\ role = "web" => "worker" \notin Listed(r.todo) \/ r.todo = Initial
  BY <1>1, RunOf, TodoOf DEF Base, Role
<1>8. /\ r.origin = o /\ o \in Fences /\ o <= fence /\ o \in Nat /\ o > 0 /\ IsBaseline(o)
      /\ r.goal = "succeed" => r.todo \in {Initial, <<"worker">>}
      /\ r.goal = "roll_back" => r.todo # Initial
      /\ r.goal \in {"succeed", "roll_back", "recover"}
  BY <1>1, <1>3, OwnerIs, RunOf DEF Base, RunsFit, RunFits, Active
<1>9. /\ r.goal = "succeed" => new = Forward(o)
      /\ r.goal = "roll_back" => new = Rollback(o)
      /\ r.goal = "recover" => new = Recovery(o, r.found[role])
  BY <1>8, TemplateIs
<1>10. new.origin = o /\ (new.kind \in Recoveries => r.goal = "recover")
  BY <1>8, <1>9, RevisionIs
<1>11. Role(f)' = role /\ \A k : Template(f, k)' = Template(f, k)
  BY <1>2, <1>4, TemplateStays DEF Role
<1>12. /\ \A k \in Roles \ {role} : app'[k] = app[k] /\ pending'[k] = pending[k]
       /\ \/ app'[role] \in {app[role], new} /\ pending'[role] = NoRevision
          \/ run'[f].answer = "unknown" /\ app'[role] = app[role] /\ pending'[role] = new
  BY <1>2, <1>6, <1>7 DEF OtherTypes, providerVars
<1> HIDE DEF new, r
<1>13. phase # "RESERVED" /\ phase # "NONE"
  BY <1>3 DEF Undecided, Lease!Undecided
<1>14. OwnerFits'
  BY <1>2, <1>3, <1>4, <1>5, <1>13, <1>1 DEF Held, OwnerFits, Active, Opening, r
<1>15. RecordFits'
  <2>1. run'[o].step # "acquired"
    BY <1>2, <1>3, <1>8 DEF Held, RecordFits, Keeps, RowIsKnown
  <2> QED BY <1>4, <1>13, <2>1 DEF Held, RecordFits, IsBaseline
<1>16. r.goal = "recover" => <<o, role>> \notin sent /\ Origin(f) = o
  BY <1>1, <1>3, <1>7, <1>8 DEF Held, SentFits, Origin, r
<1>17. RevisionsFit'
  <2>1. \A k \in Roles : app'[k].origin <= fence /\ pending'[k].origin <= fence
    BY <1>8, <1>10, <1>12, RevisionIs DEF Held, RevisionsFit, RowIsKnown
  <2>2. ASSUME NEW k \in Roles, NEW n \in Fences, <<n, k>> \notin sent'
        PROVE  ~ Recovers(app'[k], n) /\ ~ Recovers(pending'[k], n)
    <3>1. <<n, k>> \notin sent /\ (r.goal = "recover" => <<n, k>> # <<o, role>>)
      BY <1>1, <1>16, <2>2 DEF history
    <3>2. ~ Recovers(app[k], n) /\ ~ Recovers(pending[k], n) /\ ~ Recovers(NoRevision, n)
      BY <3>1, RevisionIs DEF Held, RevisionsFit, Recovers
    <3>3. k = role => ~ Recovers(new, n)
      BY <1>10, <3>1 DEF Recovers
    <3> QED BY <1>12, <3>2, <3>3
  <2> QED BY <1>4, <1>13, <2>1, <2>2 DEF RevisionsFit, Recovers
<1>18. SentFits'
  <2>1. ~ twice'
    BY <1>1, <1>16 DEF Held, SentFits, history
  <2>2. ASSUME NEW n \in Fences, NEW k \in Roles, <<n, k>> \in sent'
        PROVE  n <= fence /\ (n = o => intents[k] # Lease!NoIntent)
    <3>1. CASE <<n, k>> \in sent
      BY <1>3, <3>1 DEF Held, SentFits
    <3>2. CASE r.goal = "recover" /\ <<n, k>> = <<o, role>>
      <4>1. n = o /\ k = role
        BY <3>2
      <4> QED BY <1>1, <1>3, <1>8, <3>2, <4>1 DEF Held, SentFits, r
    <3> QED BY <1>1, <1>16, <2>2, <3>1, <3>2 DEF history
  <2> QED BY <1>2, <1>3, <1>4, <1>13, <2>1, <2>2 DEF SentFits
<1>19. r.goal = "succeed" /\ f = o =>
         /\ role = "web" => r.todo = Initial /\ app["web"].origin < o /\ app["worker"].origin < o
         /\ role = "worker" => app["worker"].origin < o /\ app["web"] = Forward(o)
  <2> SUFFICES ASSUME r.goal = "succeed", f = o
               PROVE  /\ role = "web" =>
                           r.todo = Initial /\ app["web"].origin < o /\ app["worker"].origin < o
                      /\ role = "worker" => app["worker"].origin < o /\ app["web"] = Forward(o)
    OBVIOUS
  <2>1. CASE role = "web"
    <3>1. r.todo = Initial /\ r.step = "ready"
      BY <1>1, <1>7, <1>8, <2>1
    <3> QED BY <1>3, <2>1, <3>1 DEF Held, AppsFit, r
  <2>2. CASE role = "worker"
    <3>1. Classified(f, "worker") = "baseline" /\ Classified(f, "web") = "forward"
      BY <1>1, <1>8, <2>2 DEF Origin, r
    <3>2. app["worker"] = previous[o]["worker"] /\ app["web"] = Forward(o)
      BY <1>8, <3>1, ClassifiedIs DEF Roles, r
    <3> QED BY <1>8, <2>2, <3>2 DEF IsBaseline, Roles
  <2> QED BY <1>7, <2>1, <2>2 DEF Roles
<1>20. r.goal = "recover" \/ (r.goal = "succeed" /\ f = o) => app[role] # new
  <2>1. CASE r.goal = "recover"
    <3>1. ~ Recovers(app[role], o)
      BY <1>7, <1>8, <1>16, <2>1 DEF Held, RevisionsFit
    <3>2. Recovers(Recovery(o, r.found[role]), o)
      BY RevisionIs DEF Recovers
    <3> QED BY <1>9, <2>1, <3>1, <3>2
  <2>2. CASE r.goal = "succeed" /\ f = o
    BY <1>7, <1>8, <1>10, <1>19, <2>2 DEF Roles
  <2> QED BY <2>1, <2>2
<1>21. PendingFits'
  <2> SUFFICES ASSUME NEW k \in Roles, pending'[k] # NoRevision
               PROVE  k = role /\ run'[f].answer = "unknown" /\ pending'[k] = new
                      /\ app'[k] = app[k]
    BY <1>2, <1>3, <1>4, <1>5, <1>8, <1>11, <1>20 DEF PendingFits, Active, new
  <2> QED BY <1>6, <1>12
<1>22. AppsFit'
  <2>1. r.goal = "succeed" /\ f = o /\ r.todo = Initial => app'["worker"].origin < o
    BY <1>7, <1>12, <1>19 DEF Roles
  <2>2. r.goal = "succeed" /\ f # o => app'["web"] = Forward(o) /\ r.todo # Initial
    BY <1>1, <1>3, <1>7, <1>8, <1>12 DEF Held, AppsFit, Roles, r
  <2>3. r.goal = "roll_back" => \A k \in Roles : k \notin Listed(r.todo) =>
          app'[k] \in {previous[o][k], Rollback(o)}
    BY <1>1, <1>3, <1>7, <1>12 DEF Held, AppsFit, r
  <2>4. Forward(o)' = Forward(o) /\ Rollback(o)' = Rollback(o)
    BY <1>4 DEF Forward, Rollback
  <2> QED BY <1>2, <1>3, <1>4, <2>1, <2>2, <2>3, <2>4 DEF AppsFit
<1>23. WorkerIsLast'
  <2> SUFFICES ASSUME record.recovery = None, Forward(o) \in {app'["worker"], pending'["worker"]}
               PROVE  app'["web"] = Forward(o) /\ pending'["web"] = NoRevision
    BY <1>4, <1>5 DEF WorkerIsLast, Forward
  <2>1. r.goal \in {"succeed", "roll_back"}
    BY <1>1, <1>3, <1>8 DEF Held, OwnerFits, Active, r
  <2>2. Forward(o).origin = o /\ Forward(o) # Rollback(o) /\ Forward(o) # NoRevision
    BY <1>8, RevisionIs
  <2>3. CASE role = "worker"
    <3>1. app'["web"] = app["web"] /\ pending'["web"] = NoRevision
      BY <1>6, <1>12, <2>3 DEF Roles
    <3>2. CASE r.goal = "succeed"
      <4>1. app["web"] = Forward(o)
        BY <1>1, <1>3, <1>19, <2>3, <3>2 DEF Held, AppsFit, r
      <4> QED BY <3>1, <4>1
    <3>3. CASE r.goal = "roll_back"
      <4>1. Forward(o) = app["worker"]
        BY <1>9, <1>12, <2>2, <2>3, <3>3
      <4> QED BY <1>3, <3>1, <4>1 DEF Held, WorkerIsLast
    <3> QED BY <2>1, <3>2, <3>3
  <2>4. CASE role = "web"
    <3>1. Forward(o) = app["worker"]
      BY <1>6, <1>12, <2>2, <2>4 DEF Roles
    <3>2. CASE r.goal = "succeed"
      <4>1. r.todo = Initial /\ f = o
        BY <1>1, <1>3, <1>7, <1>8, <2>4, <3>2 DEF Held, AppsFit, r
      <4> QED BY <1>8, <1>19, <2>2, <2>4, <3>1, <3>2, <4>1
    <3>3. CASE r.goal = "roll_back"
      <4>1. "worker" \notin Listed(r.todo)
        BY <1>7, <1>8, <2>4, <3>3
      <4>2. app["worker"] \in {previous[o]["worker"], Rollback(o)}
        BY <1>1, <1>3, <3>3, <4>1 DEF Held, AppsFit, Roles, r
      <4> QED BY <1>8, <2>2, <3>1, <4>2 DEF IsBaseline, Roles
    <3> QED BY <2>1, <3>2, <3>3
  <2> QED BY <1>7, <2>3, <2>4 DEF Roles
<1>24. RowTellsTheTruth'
  BY <1>3, <1>5 DEF RowTellsTheTruth, Undecided
<1> QED BY <1>14, <1>15, <1>17, <1>18, <1>21, <1>22, <1>23, <1>24 DEF Held

-----------------------------------------------------------------------------
(* How a release ends, and stays.                                          *)
Results == {"succeeded", "recovered", "rolled_back"}

(* A decided outcome stays, for runs as for the lease.                     *)
LEMMA ResultStays ==
  ASSUME LeaseFacts!Inv, Base, [Next]_vars, NEW o \in Fences, outcome[o] \in Results
  PROVE  outcome'[o] = outcome[o]
<1>1. [LeaseFacts!Next]_(LeaseFacts!vars)
  BY LeaseStep DEF Base
<1>2. CASE LeaseFacts!Next
  <2> SUFFICES ASSUME outcome'[o] # outcome[o] PROVE FALSE
    OBVIOUS
  <2>1. o \in LeaseFacts!Fences
    BY FencesAre
  <2>2. outcome[o] \in {"none", "reserved"} \/ outcome[o] = "open"
    BY <1>2, <2>1, SameAssumption, LeaseFacts!OutcomeStep
  <2> QED BY <2>2 DEF Results
<1>3. CASE UNCHANGED LeaseFacts!vars
  BY <1>3 DEF LeaseFacts!vars
<1> QED BY <1>1, <1>2, <1>3

(* What a run reports of the release that it was for.                      *)
True(f) ==
  /\ run[f].report = "SUCCEEDED" => outcome[Origin(f)] = "succeeded"
  /\ run[f].report = "ROLLED_BACK" => outcome[Origin(f)] = "rolled_back"
  /\ run[f].report = "RECOVERED" => outcome[Origin(f)] = "recovered"

LEMMA FinalReport ==
  ASSUME LeaseFacts!Inv, Base, Held, NEW f \in Fences, Finalize(f)
  PROVE  LeavesEmpty(f) /\ (run'[f].report # "none" => run'[f].step = "done") /\ True(f)'
<1>1. RowIsKnown
  BY RowKnown
<1>2. f = fence /\ Undecided
  BY FinalCalls DEF Lease!FinalizeSuccess, Lease!FinalizeRollback, Lease!FinalizeRecovery,
       Lease!Owned, Lease!OwnedOrExpired, Undecided
<1>3. Lease!Origin = run[f].origin /\ run[f].origin \in Fences
  BY <1>1, <1>2, OwnerIs DEF RowIsKnown
<1>4. outcome \in [Fences -> LeaseFacts!Outcomes]
  BY FencesAre DEF LeaseFacts!Inv, LeaseFacts!TypeOK
<1>5. PICK report \in {"SUCCEEDED", "ROLLED_BACK", "RECOVERED"} :
        /\ Ends(f, report) \/ Fails(f)
        /\ report = "SUCCEEDED" => Lease!Decide(f, "succeeded")
        /\ report = "ROLLED_BACK" => Lease!Decide(f, "rolled_back")
        /\ report = "RECOVERED" => Lease!Decide(f, "recovered")
  BY DEF Finalize, Lease!FinalizeSuccess, Lease!FinalizeRollback, Lease!FinalizeRecovery
<1>6. CASE Ends(f, report)
  <2>1. LeavesEmpty(f) /\ run'[f].step = "done" /\ run'[f].report = report
    BY <1>6, EndsEffect DEF Base, Reports
  <2>2. run'[f].origin = run[f].origin
    BY <2>1 DEF LeavesEmpty
  <2>3. /\ report = "SUCCEEDED" => outcome'[run[f].origin] = "succeeded"
        /\ report = "ROLLED_BACK" => outcome'[run[f].origin] = "rolled_back"
        /\ report = "RECOVERED" => outcome'[run[f].origin] = "recovered"
    BY <1>3, <1>4, <1>5 DEF Lease!Decide
  <2> QED BY <2>1, <2>2, <2>3 DEF True, Origin
<1>7. CASE Fails(f)
  BY <1>7, FailsEffect DEF Base, True
<1> QED BY <1>5, <1>6, <1>7

(* What a step leaves of the report of each run.                           *)
LEMMA ReportStep ==
  ASSUME LeaseFacts!Inv, Base, Held, ReportsFit, Next, NEW f \in Fences
  PROVE  \/ run'[f] = run[f]
         \/ run'[f].report = "none"
         \/ run'[f].step = "done" /\ True(f)'
<1>1. RowIsKnown /\ RunTypes
  BY RowKnown DEF Base
<1>2. ASSUME NEW i \in Images, Acquire(i)
      PROVE  run'[f] = run[f] \/ run'[f].report = "none"
  BY <1>1, <1>2, AcquireEffect DEF Keeps
<1>3. ASSUME Claim PROVE run'[f] = run[f] \/ run'[f].report = "none"
  BY <1>1, <1>3, ClaimEffect DEF Keeps, Base
<1>4. ASSUME NEW g \in Fences, Fail(g) \/ Exit(g) \/ Leave(g) \/ Mark(g)
      PROVE  run'[f] = run[f] \/ run'[f].report = "none"
  <2>1. Fails(g) \/ Ends(g, "none")
    BY <1>4 DEF Fail, Exit, Leave, Mark
  <2>2. "none" \in Reports
    BY DEF Reports
  <2> QED BY <1>1, <2>1, <2>2, FailsEffect, EndsEffect DEF LeavesEmpty, Keeps
<1>5. ASSUME NEW g \in Fences, Reconcile(g)
      PROVE  run'[f] = run[f] \/ run'[f].report = "none" \/ (run'[f].step = "done" /\ True(f)')
  <2>1. PICK report \in {"RECOVERED", "none"} :
          Ends(g, report) /\ (report = "RECOVERED" => outcome[Origin(g)] = "recovered")
    BY <1>5 DEF Reconcile
  <2>2. /\ LeavesEmpty(g) /\ run'[g].step = "done" /\ run'[g].report = report
    BY <1>1, <2>1, EndsEffect DEF Reports
  <2>3. outcome' = outcome /\ run'[g].origin = run[g].origin
    BY <1>5, <2>2 DEF Reconcile, leaseVars, LeavesEmpty
  <2>4. True(g)'
    BY <2>1, <2>2, <2>3 DEF True, Origin
  <2> QED BY <2>2, <2>4 DEF LeavesEmpty, Keeps
<1>6. ASSUME NEW g \in Fences, Finalize(g)
      PROVE  run'[f] = run[f] \/ run'[f].report = "none" \/ (run'[f].step = "done" /\ True(f)')
  BY <1>6, FinalReport DEF LeavesEmpty, Keeps
<1>7. ASSUME NEW g \in Fences, Keeps(g), run'[g].report = run[g].report, run[g].step # "done"
      PROVE  run'[f] = run[f] \/ run'[f].report = "none"
  BY <1>7 DEF Keeps, ReportsFit
<1>8. ASSUME NEW g \in Fences,
             Confirm(g) \/ (\E recovery \in Images \cup {None} : Record(g, recovery)) \/ Begin(g)
               \/ Verify(g)
      PROVE  run'[f] = run[f] \/ run'[f].report = "none"
  <2>1. /\ run[g].step # "done"
        /\ \E step \in Steps : Goes(g, step)
    BY <1>8 DEF Confirm, Record, Begin, Verify, At, Steps
  <2>2. Keeps(g) /\ run'[g].report = run[g].report
    BY <1>1, <2>1, GoesEffect
  <2> QED BY <1>7, <2>1, <2>2
<1>9. ASSUME NEW g \in Fences,
             Send(g) \/ ReadBack(g) \/ Compensate(g) \/ Announce(g) \/ Choose(g)
      PROVE  run'[f] = run[f] \/ run'[f].report = "none"
  <2>1. run[g].step \in Active
    <3>1. Send(g) => run[g].step \in {"announced", "ready"}
      BY DEF Send, At
    <3>2. ReadBack(g) => run[g].step = "sent"
      BY DEF ReadBack, At
    <3>3. Compensate(g) => run[g].step \in {"sent", "ready"}
      BY DEF Compensate, At
    <3>4. Announce(g) => run[g].step = "ready"
      BY DEF Announce, At
    <3>5. Choose(g) => run[g].step = "claimed"
      BY DEF Choose, ChooseGoal, At
    <3> QED BY <1>9, <3>1, <3>2, <3>3, <3>4, <3>5 DEF Active
  <2>2. ReadBack(g) => run[g].todo # <<>>
    BY DEF ReadBack, At, Base, RunsFit, RunFits
  <2>3. Keeps(g) /\ run'[g].report = run[g].report
    BY <1>1, <1>9, <2>2, SendEffect, ReadBackEffect, CompensateEffect, AnnounceEffect, ChooseEffect
  <2> QED BY <1>7, <2>1, <2>3 DEF Active
<1>10. ASSUME \/ Look \/ (\E role \in Roles : Settle(role)) \/ (\E g \in Fences : Expire(g))
       PROVE  run' = run
  BY <1>10 DEF Look, Settle, Expire, runVars
<1> QED BY <1>2, <1>3, <1>4, <1>5, <1>6, <1>8, <1>9, <1>10 DEF Next

LEMMA ReportsStep ==
  ASSUME LeaseFacts!Inv, Base, Held, ReportsFit, [Next]_vars
  PROVE  ReportsFit'
<1>1. ASSUME NEW f \in Fences
      PROVE  (run'[f].report # "none" => run'[f].step = "done") /\ True(f)'
  <2>1. CASE run'[f] = run[f]
    <3>1. True(f) /\ (run[f].report # "none" => run[f].step = "done")
      BY DEF ReportsFit, ReportIsTrue, True
    <3>2. CASE run[f].report = "none"
      BY <2>1, <3>2 DEF True
    <3>3. CASE run[f].report # "none"
      <4>1. run[f].origin \in Fences /\ run[f].report \in Reports
        BY <3>1, <3>3, RowKnown, IssuedRun, RunOf DEF Base
      <4>2. outcome[run[f].origin] \in Results
        BY <3>1, <3>3, <4>1 DEF True, Reports, Results, Origin
      <4>3. outcome'[run[f].origin] = outcome[run[f].origin]
        BY <4>1, <4>2, ResultStays
      <4> QED BY <2>1, <3>1, <4>3 DEF True, Origin
    <3> QED BY <3>2, <3>3
  <2>2. CASE run'[f].report = "none"
    BY <2>2 DEF True
  <2>3. CASE run'[f] # run[f] /\ run'[f].report # "none"
    <3>1. Next
      BY <2>3 DEF vars, runVars
    <3> QED BY <2>3, <3>1, ReportStep
  <2> QED BY <2>1, <2>2, <2>3
<1> QED BY <1>1 DEF ReportsFit, ReportIsTrue, True

-----------------------------------------------------------------------------
(* What is asked for is a revision.                                        *)
LEMMA SendTypes ==
  ASSUME Base, RowIsKnown, Held, NEW f \in Fences, Send(f)
  PROVE  Origin(f) \in Fences /\ Role(f) \in Roles /\ Template(f, Role(f)) \in Revisions
<1> DEFINE o == record.origin
<1>1. /\ run[f].step = IF run[f].goal = "recover" THEN "announced" ELSE "ready"
      /\ run[f].todo # <<>> /\ Lease!Owned(f)
  BY DEF Send, At
<1>2. f = fence /\ Undecided
  BY <1>1 DEF Lease!Owned, Lease!OwnedOrExpired, Held, OwnerFits, Active, RowIsKnown,
       Undecided, Lease!Undecided
<1>3. run[f].origin = o /\ o \in Fences /\ o \in 0 .. MaxFence
  BY <1>2, OwnerIs, FencesAre
<1>4. Role(f) \in Roles
  BY <1>1, RunOf, TodoOf DEF Base, Role
<1>5. run[f].goal \in {"succeed", "roll_back", "recover"}
  BY <1>1, RunOf DEF Base, RunsFit, RunFits, Active
<1>6. /\ plan[o].baseline = image /\ plan[o].target = incoming.image
      /\ plan[o].recovery = record.recovery
      /\ image \in Images /\ incoming.image \in Images
      /\ record.recovery \in Images \cup {None}
  BY <1>2 DEF RowIsKnown, Undecided, Lease!Undecided
<1>7. run[f].goal = "recover" => record.recovery # None
  BY <1>1, <1>2 DEF Held, OwnerFits, Active
<1>8. {"forward", "rollback", "recovery_over_baseline", "recovery_over_forward"} \subseteq Kinds
  BY DEF Kinds
<1>9. CASE run[f].goal = "succeed"
  <2>1. Template(f, Role(f)) = Forward(o)
    BY <1>3, <1>9, TemplateIs
  <2> QED BY <1>3, <1>4, <1>6, <1>8, <2>1 DEF Forward, Revisions, Origin
<1>10. CASE run[f].goal = "roll_back"
  <2>1. Template(f, Role(f)) = Rollback(o)
    BY <1>3, <1>10, TemplateIs
  <2> QED BY <1>3, <1>4, <1>6, <1>8, <2>1 DEF Rollback, Revisions, Origin
<1>11. CASE run[f].goal = "recover"
  <2>1. Template(f, Role(f)) = Recovery(o, run[f].found[Role(f)])
    BY <1>3, <1>11, TemplateIs
  <2> QED BY <1>3, <1>4, <1>6, <1>7, <1>8, <1>11, <2>1 DEF Recovery, Revisions, Origin
<1> QED BY <1>5, <1>9, <1>10, <1>11

LEMMA OtherTypesStep ==
  ASSUME Base, RowIsKnown, Held, OtherTypes, [Next]_vars
  PROVE  OtherTypes'
<1>1. ASSUME NEW f \in Fences, Send(f) PROVE OtherTypes'
  <2> DEFINE new == Template(f, Role(f))
  <2>1. Origin(f) \in Fences /\ Role(f) \in Roles /\ new \in Revisions
    BY <1>1, SendTypes
  <2>2. /\ previous' = previous
        /\ \/ sent' = sent /\ twice' = twice
           \/ /\ sent' = sent \cup {<<Origin(f), Role(f)>>}
              /\ twice' = (twice \/ <<Origin(f), Role(f)>> \in sent)
    BY <1>1 DEF Send, history
  <2>3. /\ app' \in {app, [app EXCEPT ![Role(f)] = new]}
        /\ pending' \in {pending, [pending EXCEPT ![Role(f)] = new]}
    BY <1>1, SendEffect DEF Base, providerVars
  <2> HIDE DEF new
  <2>4. app' \in [Roles -> Revisions] /\ pending' \in [Roles -> Revisions \cup {NoRevision}]
    BY <2>1, <2>3 DEF OtherTypes
  <2>5. <<Origin(f), Role(f)>> \in Fences \X Roles
    BY <2>1
  <2>6. sent' \subseteq Fences \X Roles /\ twice' \in BOOLEAN
    BY <2>2, <2>5 DEF OtherTypes
  <2> QED BY <2>2, <2>4, <2>6 DEF OtherTypes
<1>2. ASSUME NEW role \in Roles, Settle(role) PROVE OtherTypes'
  <2>1. pending[role] \in Revisions /\ app[role] \in Revisions
    BY <1>2 DEF Settle, OtherTypes
  <2>2. PICK revision \in {pending[role], app[role]} : app' = [app EXCEPT ![role] = revision]
    BY <1>2 DEF Settle
  <2>3. pending' = [pending EXCEPT ![role] = NoRevision] /\ UNCHANGED <<previous, sent, twice>>
    BY <1>2 DEF Settle, runVars, history
  <2> QED BY <2>1, <2>2, <2>3 DEF OtherTypes
<1>3. ASSUME NEW f \in Fences, Confirm(f) PROVE OtherTypes'
  <2>1. previous' = [previous EXCEPT ![f] = app] /\ UNCHANGED <<app, pending, sent, twice>>
    BY <1>3 DEF Confirm, providerVars, history
  <2> QED BY <2>1 DEF OtherTypes
<1>4. ASSUME UNCHANGED <<providerVars, previous, history>> PROVE OtherTypes'
  BY <1>4 DEF OtherTypes, providerVars, history
<1>5. ASSUME NEW f \in Fences,
             Fail(f) \/ Exit(f) \/ Leave(f) \/ Mark(f) \/ Begin(f) \/ Finalize(f)
               \/ Reconcile(f) \/ Expire(f)
      PROVE  UNCHANGED <<providerVars, previous, history>>
  BY <1>5 DEF Fail, Exit, Leave, Mark, Begin, Finalize, Reconcile, Expire, runVars
<1>6. ASSUME NEW f \in Fences, ReadBack(f) PROVE UNCHANGED <<providerVars, previous, history>>
  BY <1>6 DEF ReadBack
<1>7. ASSUME NEW f \in Fences, Compensate(f) PROVE UNCHANGED <<providerVars, previous, history>>
  BY <1>7 DEF Compensate
<1>8. ASSUME NEW f \in Fences, Announce(f) PROVE UNCHANGED <<providerVars, previous, history>>
  BY <1>8 DEF Announce
<1>9. ASSUME NEW f \in Fences, Verify(f) PROVE UNCHANGED <<providerVars, previous, history>>
  BY <1>9 DEF Verify
<1>10. ASSUME NEW f \in Fences, Choose(f) PROVE UNCHANGED <<providerVars, previous, history>>
  BY <1>10 DEF Choose, ChooseGoal
<1>11. ASSUME NEW f \in Fences, NEW recovery \in Images \cup {None}, Record(f, recovery)
       PROVE  UNCHANGED <<providerVars, previous, history>>
  BY <1>11 DEF Record
<1>12. ASSUME (\E i \in Images : Acquire(i)) \/ Look \/ Claim \/ UNCHANGED vars
       PROVE  UNCHANGED <<providerVars, previous, history>>
  BY <1>12 DEF Acquire, Look, Claim, vars, runVars
<1> QED BY <1>1, <1>2, <1>3, <1>4, <1>5, <1>6, <1>7, <1>8, <1>9, <1>10, <1>11, <1>12 DEF Next

-----------------------------------------------------------------------------
(* Every step keeps what ties the apps to the row.                         *)
LEMMA HeldStep ==
  ASSUME Base, RowIsKnown, Held, OtherTypes, [Next]_vars
  PROVE  Held'
<1>1. ASSUME NEW f \in Fences, Fail(f) \/ Exit(f) \/ Reconcile(f) PROVE Held'
  <2>1. \E report \in Reports : Fails(f) \/ Ends(f, report)
    BY <1>1 DEF Fail, Exit, Reconcile, Reports
  <2>2. LeavesEmpty(f)
    BY <2>1, FailsEffect, EndsEffect DEF Base
  <2>3. UNCHANGED <<leaseVars, providerVars, previous, history>>
    BY <1>1 DEF Fail, Exit, Reconcile
  <2> QED BY <2>2, <2>3, AsideKeeps DEF LeavesEmpty, Gone
<1>2. ASSUME NEW f \in Fences, Leave(f) \/ Mark(f) \/ Confirm(f) \/ Begin(f) \/ Send(f)
      PROVE  Held'
  BY <1>2, LeaveKeeps, MarkKeeps, ConfirmKeeps, BeginKeeps, SendKeeps
<1>3. ASSUME NEW f \in Fences,
             ReadBack(f) \/ Compensate(f) \/ Announce(f) \/ Verify(f) \/ Finalize(f)
               \/ Choose(f) \/ Expire(f)
      PROVE  Held'
  BY <1>3, ReadBackKeeps, CompensateKeeps, AnnounceKeeps, VerifyKeeps, FinalizeKeeps,
     ChooseKeeps, ExpireKeeps
<1>4. ASSUME NEW f \in Fences, NEW recovery \in Images \cup {None}, Record(f, recovery)
      PROVE  Held'
  BY <1>4, RecordKeeps
<1>5. ASSUME NEW i \in Images, Acquire(i) PROVE Held'
  BY <1>5, AcquireKeeps
<1>6. ASSUME NEW role \in Roles, Settle(role) PROVE Held'
  BY <1>6, SettleKeeps
<1>7. CASE Claim
  BY <1>7, ClaimKeeps
<1>8. CASE Look \/ UNCHANGED vars
  <2>1. UNCHANGED <<leaseVars, providerVars, previous, run, history>>
    BY <1>8 DEF Look, vars, runVars
  <2> QED BY <2>1, StillKeeps DEF leaseVars, providerVars, history
<1> QED BY <1>1, <1>2, <1>3, <1>4, <1>5, <1>6, <1>7, <1>8 DEF Next

(* At first nothing is under way, and the apps run what the row says.      *)
LEMMA InitRest ==
  ASSUME Init
  PROVE  Held /\ OtherTypes /\ ReportsFit
<1>1. /\ image \in Images /\ fence = 0 /\ phase = "NONE" /\ record = NoRecord
      /\ intents = Lease!NoIntents
  BY DEF Init, Lease!Init, NoRecord
<1> DEFINE old == [image |-> image, origin |-> 0, kind |-> "initial"]
<1>2. /\ app = [role \in Roles |-> old] /\ pending = [role \in Roles |-> NoRevision]
      /\ previous = [f \in Fences |-> [role \in Roles |-> NoRevision]]
      /\ run = [f \in Fences |-> NoRun] /\ sent = {} /\ twice = FALSE
  BY DEF Init
<1>3. old \in Revisions /\ old.origin = 0 /\ old.kind = "initial" /\ old.image = image
  BY <1>1, FencesAre DEF Revisions, Kinds
<1> HIDE DEF old
<1>4. \A role \in Roles : app[role] = old /\ pending[role] = NoRevision
  BY <1>2
<1>5. ~Undecided /\ phase # "RESERVED" /\ \A role \in Roles : intents[role] = Lease!NoIntent
  BY <1>1 DEF Undecided, Lease!Undecided, Lease!NoIntents
<1>6. OwnerFits /\ RecordFits /\ AppsFit /\ WorkerIsLast
  BY <1>1, <1>5 DEF OwnerFits, RecordFits, AppsFit, WorkerIsLast
<1>7. RevisionsFit
  <2>1. "initial" \notin Recoveries
    BY DEF Recoveries
  <2>2. NoRevision.origin = 0 /\ NoRevision.kind = "initial"
    BY DEF NoRevision
  <2>3. \A role \in Roles :
          /\ app[role].origin = 0 /\ app[role].kind \notin Recoveries
          /\ pending[role].origin = 0 /\ pending[role].kind \notin Recoveries
    BY <1>3, <1>4, <2>1, <2>2
  <2> QED BY <1>1, <2>3 DEF RevisionsFit, Recovers
<1>8. SentFits
  BY <1>2, <1>5 DEF SentFits
<1>9. PendingFits /\ RowTellsTheTruth
  BY <1>3, <1>4 DEF PendingFits, RowTellsTheTruth
<1>10. OtherTypes
  BY <1>2, <1>3 DEF OtherTypes
<1>11. ReportsFit
  <2>1. \A f \in Fences : run[f].report = "none"
    BY <1>2, NoRunIs
  <2> QED BY <2>1 DEF ReportsFit, ReportIsTrue
<1> QED BY <1>6, <1>7, <1>8, <1>9, <1>10, <1>11 DEF Held

-----------------------------------------------------------------------------
(* The instances agree on the types.                                       *)
LEMMA SameTypes == LeaseFacts!TypeOK => Lease!TypeOK
BY SameGuards, FencesAre
   DEF Lease!TypeOK, LeaseFacts!TypeOK, Lease!Phases, LeaseFacts!Phases, Lease!Targets,
       LeaseFacts!Targets, Lease!Records, LeaseFacts!Records, Lease!Intents,
       LeaseFacts!Intents, Lease!Plans, LeaseFacts!Plans, Lease!Outcomes,
       LeaseFacts!Outcomes, Lease!Fences, Fences

(* The runs never leave what the lease and the apps are described by.      *)
THEOREM Invariance == Spec => []Inv
<1>1. Init => Held /\ OtherTypes /\ ReportsFit
  BY InitRest
<1>2. /\ LeaseFacts!Inv /\ Base
      /\ Held /\ OtherTypes /\ ReportsFit
      /\ [Next]_vars
      => Held' /\ OtherTypes' /\ ReportsFit'
  BY RowKnown, HeldStep, OtherTypesStep, ReportsStep
<1>3. Inv <=> (LeaseFacts!Inv /\ Base) /\ Held /\ OtherTypes /\ ReportsFit
  BY DEF Inv
<1> QED BY <1>1, <1>2, <1>3, RunsUseTheLease, PTL DEF Spec

-----------------------------------------------------------------------------
(* The types of the row, of the apps and of what each run has in hand.     *)
THEOREM TypeCorrect == Spec => []TypeOK
<1>1. Inv => TypeOK
  <2> SUFFICES ASSUME Inv PROVE TypeOK
    OBVIOUS
  <2>1. Lease!TypeOK
    BY SameTypes DEF Inv, LeaseFacts!Inv
  <2> QED BY <2>1 DEF Inv, OtherTypes, Base, RunTypes, GlanceTypes, TypeOK
<1> QED BY <1>1, Invariance, PTL

(* While no release is under way both apps run what the row says, and no   *)
(* request that could change that is open.                                 *)
THEOREM RowIsTrue == Spec => []RowTellsTheTruth
<1>1. Inv => RowTellsTheTruth
  BY DEF Inv, Held
<1> QED BY <1>1, Invariance, PTL

(* No failure leaves the worker alone on the new release: the state that a *)
(* recovery run could not complete is never reached.                       *)
THEOREM NeverMixed == Spec => []WorkerFollowsWeb
<1>1. Inv => WorkerFollowsWeb
  <2> SUFFICES ASSUME Inv, Undecided PROVE WorkerFollowsWeb
    BY DEF WorkerFollowsWeb, Undecided
  <2>1. Lease!Origin = record.origin
    BY RowKnown DEF RowIsKnown, Inv
  <2> QED BY <2>1 DEF WorkerFollowsWeb, Inv, Held, WorkerIsLast, Undecided
<1> QED BY <1>1, Invariance, PTL

(* Runs that take over from each other never ask for the recovery of an    *)
(* app a second time.                                                      *)
THEOREM RecoveryOnce == Spec => []RecoveryIsSentOnce
<1>1. Inv => RecoveryIsSentOnce
  BY DEF Inv, Held, SentFits, RecoveryIsSentOnce
<1> QED BY <1>1, Invariance, PTL

(* What a run reports is what became of its release.                       *)
THEOREM ReportsAreTrue == Spec => []ReportIsTrue
<1>1. Inv => ReportIsTrue
  BY DEF Inv, ReportsFit
<1> QED BY <1>1, Invariance, PTL
=============================================================================
