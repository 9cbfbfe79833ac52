------------------------- MODULE ReleaseLeaseProofs -------------------------
(***************************************************************************)
(* Proofs about ReleaseLease, for every set of images, roles and provider  *)
(* writes, and every bound on the fence.                                   *)
(*                                                                         *)
(* The inductive invariant says that the rollback record carries the truth *)
(* from run to run: its origin is the one open release, the newest event   *)
(* of the deployment is the one that recorded it, and everything else that *)
(* names a release (intents, plan) names that one.                         *)
(***************************************************************************)
EXTENDS ReleaseLease, TLAPS

(* The record, when there is one, and the event that goes with it.         *)
RecordIsNewest ==
  /\ \A e \in events : e.fence <= fence
  /\ record # NoRecord =>
       /\ record.origin <= fence
       /\ phase # "RECOVERY_REQUIRED" => record.origin = fence
       /\ [fence |-> record.origin, expected |-> expected, incoming |-> incoming] \in events
       /\ \A e \in events : e.fence <= record.origin

(* The intents are the record's, of a release in recovery.                 *)
IntentsAreRecords ==
  \A role \in Roles :
    intents[role] # NoIntent => /\ phase = "RECOVERY_REQUIRED"
                                /\ record # NoRecord
                                /\ intents[role].origin = record.origin

(* What the history says of each lease ever issued.                        *)
HistoryAgrees ==
  \A f \in Fences :
    /\ outcome[f] = "open" <=> Undecided /\ f = record.origin
    /\ outcome[f] = "reserved" <=> phase = "RESERVED" /\ f = fence
    /\ f > fence => outcome[f] = "none"

(* What the history says the current release is about.                     *)
PlanAgrees ==
  /\ phase = "RESERVED" => plan[fence].baseline = expected
                           /\ plan[fence].target = incoming.image
  /\ record # NoRecord => /\ plan[record.origin].baseline = expected
                          /\ plan[record.origin].target = incoming.image
                          /\ plan[record.origin].recovery = record.recovery

Inv ==
  /\ TypeOK
  /\ ConstraintsHold
  /\ OneLiveLease
  /\ RecordIsNewest
  /\ IntentsAreRecords
  /\ HistoryAgrees
  /\ PlanAgrees

(* A record made by a lease is not the absence of one.                     *)
LEMMA RecordsAreNot0 ==
  ASSUME LeaseAssumption
  PROVE  NoRecord \notin Records /\ NoIntent \notin Intents
BY DEF NoRecord, Records, NoIntent, Intents, Fences

(* The events lead every operation to the lease that made the record.      *)
LEMMA OriginIsRecorded ==
  ASSUME LeaseAssumption, Inv, record # NoRecord
  PROVE  Origin = record.origin /\ record.origin \in Fences
<1>1. record \in Records
  BY DEF Inv, TypeOK
<1>2. record.origin \in Fences
  BY <1>1 DEF Records
<1>3. CASE phase # "RECOVERY_REQUIRED"
  BY <1>2, <1>3 DEF Origin
<1>4. CASE phase = "RECOVERY_REQUIRED"
  <2> DEFINE new == [fence |-> record.origin, expected |-> expected, incoming |-> incoming]
             newest(e) == e \in Matching /\ \A other \in Matching : other.fence <= e.fence
  <2>1. new \in events /\ record.origin <= fence
    BY DEF Inv, RecordIsNewest
  <2>2. new.expected = expected /\ new.incoming = incoming /\ new.fence = record.origin
    OBVIOUS
  <2>3. new \in Matching
    BY <2>1, <2>2 DEF Matching
  <2>4. \A e \in Matching : e.fence <= record.origin /\ e.fence \in Fences
    BY DEF Matching, Inv, RecordIsNewest, TypeOK
  <2>5. newest(new)
    BY <2>2, <2>3, <2>4
  <2>6. PICK e : e = (CHOOSE x \in Matching : \A other \in Matching : other.fence <= x.fence)
    OBVIOUS
  <2>7. newest(e)
    BY <2>5, <2>6
  <2>8. record.origin <= e.fence
    BY <2>2, <2>3, <2>7
  <2>9. e.fence = record.origin
    BY <2>4, <2>7, <2>8, <1>2 DEF Fences
  <2> QED
    BY <2>3, <2>6, <2>9, <1>2, <1>4 DEF Origin
<1> QED
  BY <1>3, <1>4

LEMMA InitInv == LeaseAssumption /\ Init => Inv
<1> SUFFICES ASSUME LeaseAssumption, Init PROVE Inv
  OBVIOUS
<1>1. TypeOK
  BY DEF LeaseAssumption, Init, TypeOK, Fences, Phases, Outcomes, Plans, NoPlan, NoIntents
<1>2. ConstraintsHold /\ OneLiveLease /\ RecordIsNewest /\ IntentsAreRecords /\ PlanAgrees
  BY DEF Init, ConstraintsHold, OneLiveLease, RecordIsNewest, IntentsAreRecords, PlanAgrees,
         Undecided, NoIntents
<1>3. HistoryAgrees
  BY DEF Init, HistoryAgrees, Undecided, Fences
<1> QED
  BY <1>1, <1>2, <1>3 DEF Inv

LEMMA StutterInv == ASSUME Inv, UNCHANGED vars PROVE Inv'
BY DEF vars, lease, Inv, TypeOK, ConstraintsHold, OneLiveLease, RecordIsNewest,
       IntentsAreRecords, HistoryAgrees, PlanAgrees, Undecided

LEMMA RecordReleaseInv ==
  ASSUME Inv, NEW i \in Images, RecordRelease(i)
  PROVE  Inv'
<1> USE DEF RecordRelease, lease
<1>1. TypeOK'
  BY DEF Inv, TypeOK
<1>2. ConstraintsHold'
  BY DEF Inv, ConstraintsHold, Undecided
<1>3. OneLiveLease' /\ RecordIsNewest' /\ IntentsAreRecords' /\ HistoryAgrees' /\ PlanAgrees'
  BY DEF Inv, OneLiveLease, RecordIsNewest, IntentsAreRecords, HistoryAgrees, PlanAgrees, Undecided
<1> QED
  BY <1>1, <1>2, <1>3 DEF Inv

LEMMA ExpireInv ==
  ASSUME Inv, NEW f \in Fences, Expire(f)
  PROVE  Inv'
<1> USE DEF Expire, lease
<1>1. TypeOK'
  BY DEF Inv, TypeOK
<1>2. OneLiveLease'
  BY DEF Inv, OneLiveLease
<1>3. ConstraintsHold' /\ RecordIsNewest' /\ IntentsAreRecords' /\ HistoryAgrees' /\ PlanAgrees'
  BY DEF Inv, ConstraintsHold, RecordIsNewest, IntentsAreRecords, HistoryAgrees, PlanAgrees, Undecided
<1> QED
  BY <1>1, <1>2, <1>3 DEF Inv

LEMMA AcquireInv ==
  ASSUME LeaseAssumption, Inv, NEW target \in Targets, Acquire(target)
  PROVE  Inv'
<1> DEFINE new == [baseline |-> image, target |-> target.image, recovery |-> None]
<1>1. fence \in Nat /\ fence' = fence + 1 /\ fence' \in Fences /\ fence \notin live
  BY DEF Acquire, FreeToAcquire, LeaseAssumption, Inv, TypeOK, Fences, OneLiveLease
<1>2. live = {} /\ ~Undecided
  BY <1>1 DEF Acquire, FreeToAcquire, Inv, OneLiveLease, Undecided
<1>3. target.image \in Images /\ new \in Plans
  BY DEF Targets, Plans, Inv, TypeOK
<1>4. plan' = [plan EXCEPT ![fence'] = new]
  BY DEF Acquire
<1>5. plan'[fence'] = new /\ plan' \in [Fences -> Plans]
  BY <1>1, <1>3, <1>4 DEF Inv, TypeOK
<1>6. new.baseline = image /\ new.target = target.image
  OBVIOUS
<1>7. TypeOK'
  <2>1. intents' \in [Roles -> Intents \cup {NoIntent}]
    BY DEF Acquire, NoIntents
  <2>2. outcome' \in [Fences -> Outcomes]
    BY DEF Acquire, Inv, TypeOK, Outcomes
  <2>3. fence' \in 0 .. MaxFence
    BY <1>1 DEF Fences
  <2> QED
    BY <1>1, <1>2, <1>5, <2>1, <2>2, <2>3 DEF Acquire, Inv, TypeOK, Phases
<1>8. ConstraintsHold'
  BY <1>1 DEF Acquire, Inv, TypeOK, ConstraintsHold, Undecided, Fences
<1>9. OneLiveLease'
  BY <1>2 DEF Acquire, OneLiveLease
<1>10. RecordIsNewest' /\ IntentsAreRecords'
  BY <1>1 DEF Acquire, Inv, TypeOK, RecordIsNewest, IntentsAreRecords, NoIntents, Fences
<1>11. HistoryAgrees'
  BY <1>1, <1>2 DEF Acquire, Inv, TypeOK, HistoryAgrees, Undecided, Fences
<1>12. PlanAgrees'
  BY <1>5, <1>6 DEF Acquire, PlanAgrees
<1> QED
  BY <1>7, <1>8, <1>9, <1>10, <1>11, <1>12 DEF Inv

LEMMA RecordRollbackInv ==
  ASSUME LeaseAssumption, Inv, NEW f \in Fences, NEW recovery \in Images \cup {None},
         RecordRollback(f, recovery)
  PROVE  Inv'
<1> DEFINE r == [origin |-> fence, recovery |-> recovery]
           e == [fence |-> fence, expected |-> expected, incoming |-> incoming]
           p == [baseline |-> plan[f].baseline, target |-> plan[f].target,
                 recovery |-> recovery]
<1>1. f = fence /\ phase = "RESERVED" /\ record = NoRecord /\ ~Undecided
  BY DEF RecordRollback, Owned, OwnedOrExpired, Undecided
<1>2. r \in Records /\ r # NoRecord /\ r.origin = fence /\ r.recovery = recovery
  BY <1>1 DEF Records, NoRecord, Fences
<1>3. expected \in Images /\ incoming \in Targets
  BY <1>1 DEF Inv, TypeOK, ConstraintsHold
<1>4. /\ e \in [fence : Fences, expected : Images, incoming : Targets]
      /\ e.fence = fence
  BY <1>1, <1>3
<1>5. record' = r /\ events' = events \cup {e} /\ plan' = [plan EXCEPT ![f] = p]
  BY DEF RecordRollback
<1>6. plan[f] \in Plans
  BY DEF Inv, TypeOK
<1>7. p \in Plans /\ p.baseline = plan[f].baseline /\ p.target = plan[f].target
      /\ p.recovery = recovery
  BY <1>6 DEF Plans
<1>8. plan' \in [Fences -> Plans] /\ plan'[f] = p
  BY <1>5, <1>7 DEF Inv, TypeOK
<1>9. TypeOK'
  BY <1>2, <1>4, <1>5, <1>8 DEF RecordRollback, Inv, TypeOK
<1>10. ConstraintsHold' /\ OneLiveLease'
  BY <1>1 DEF RecordRollback, Inv, ConstraintsHold, OneLiveLease, Undecided
<1>11. RecordIsNewest'
  <2>1. fence \in Nat
    BY <1>1 DEF Fences
  <2>2. \A x \in events' : x.fence <= fence
    BY <1>4, <1>5, <2>1 DEF Inv, RecordIsNewest
  <2>3. record'.origin = fence /\ e \in events'
    BY <1>2, <1>5
  <2> QED
    BY <2>1, <2>2, <2>3 DEF RecordRollback, RecordIsNewest
<1>12. IntentsAreRecords'
  BY <1>1 DEF RecordRollback, Inv, IntentsAreRecords
<1>13. HistoryAgrees'
  BY <1>1 DEF RecordRollback, Inv, HistoryAgrees, Undecided
<1>14. PlanAgrees'
  BY <1>1, <1>2, <1>5, <1>7, <1>8 DEF RecordRollback, Inv, PlanAgrees
<1> QED
  BY <1>9, <1>10, <1>11, <1>12, <1>13, <1>14 DEF Inv

LEMMA BeginInv ==
  ASSUME LeaseAssumption, Inv, NEW f \in Fences, Begin(f)
  PROVE  Inv'
<1>1. f = fence /\ phase = "RESERVED" /\ record # NoRecord /\ phase' = "MUTATING"
      /\ Undecided' /\ ~Undecided /\ record.origin = fence
  BY DEF Begin, Owned, OwnedOrExpired, Undecided, Inv, RecordIsNewest
<1>2. TypeOK'
  BY DEF Begin, Inv, TypeOK, Phases, Outcomes
<1>3. ConstraintsHold' /\ OneLiveLease'
  BY <1>1 DEF Begin, Inv, ConstraintsHold, OneLiveLease
<1>4. RecordIsNewest' /\ IntentsAreRecords' /\ PlanAgrees'
  BY <1>1 DEF Begin, Inv, RecordIsNewest, IntentsAreRecords, PlanAgrees
<1>5. HistoryAgrees'
  BY <1>1 DEF Begin, Inv, TypeOK, HistoryAgrees, Fences
<1> QED
  BY <1>2, <1>3, <1>4, <1>5 DEF Inv

(* The row without a lease, which Clear leaves.                            *)
LEMMA ClearInv ==
  ASSUME LeaseAssumption, Inv, Clear, NEW f \in Fences, f = fence, phase # "NONE",
         live' = live \ {f}, image' \in Images, UNCHANGED <<fence, events, plan>>,
         outcome' \in [Fences -> Outcomes], HistoryAgrees'
  PROVE  Inv'
<1>1. intents' \in [Roles -> Intents \cup {NoIntent}]
  BY DEF Clear, NoIntents
<1>2. TypeOK'
  BY <1>1 DEF Clear, Inv, TypeOK, Phases
<1>3. ConstraintsHold' /\ OneLiveLease'
  BY DEF Clear, Inv, ConstraintsHold, OneLiveLease, Undecided
<1>4. RecordIsNewest' /\ IntentsAreRecords' /\ PlanAgrees'
  BY DEF Clear, NoIntents, Inv, RecordIsNewest, IntentsAreRecords, PlanAgrees
<1> QED
  BY <1>2, <1>3, <1>4 DEF Inv

LEMMA AbortInv ==
  ASSUME LeaseAssumption, Inv, NEW f \in Fences, Abort(f)
  PROVE  Inv'
<1>1. f = fence /\ phase = "RESERVED" /\ ~Undecided /\ phase' = "NONE" /\ ~Undecided'
  BY DEF Abort, OwnedOrExpired, Undecided, Clear
<1>2. HistoryAgrees'
  BY <1>1 DEF Abort, Inv, TypeOK, HistoryAgrees, Fences
<1>3. outcome' \in [Fences -> Outcomes] /\ image' \in Images
  BY DEF Abort, Inv, TypeOK, Outcomes
<1> QED
  BY <1>1, <1>2, <1>3, ClearInv DEF Abort

LEMMA MarkInv ==
  ASSUME LeaseAssumption, Inv, NEW f \in Fences, MarkRecoveryRequired(f)
  PROVE  Inv'
<1>1. Origin = record.origin /\ record.origin \in Fences /\ record # NoRecord
  BY OriginIsRecorded DEF MarkRecoveryRequired
<1>2. f = fence /\ phase # "NONE" /\ phase' = "RECOVERY_REQUIRED" /\ Undecided'
  BY DEF MarkRecoveryRequired, OwnedOrExpired, Undecided
<1>3. TypeOK'
  BY <1>2 DEF MarkRecoveryRequired, Inv, TypeOK, Phases, Outcomes
<1>4. ConstraintsHold' /\ OneLiveLease'
  BY <1>1, <1>2 DEF MarkRecoveryRequired, Inv, ConstraintsHold, OneLiveLease
<1>5. RecordIsNewest' /\ IntentsAreRecords' /\ PlanAgrees'
  BY <1>2 DEF MarkRecoveryRequired, Inv, RecordIsNewest, IntentsAreRecords, PlanAgrees
<1>6. phase \in {"RESERVED", "MUTATING", "RECOVERY_REQUIRED"}
  BY <1>2 DEF Inv, TypeOK, Phases
<1>7. phase = "RESERVED" => record.origin = fence
  BY <1>1 DEF Inv, RecordIsNewest
<1>8. HistoryAgrees'
  BY <1>1, <1>2, <1>6, <1>7
     DEF MarkRecoveryRequired, Inv, TypeOK, HistoryAgrees, Undecided, RecordIsNewest, Fences
<1> QED
  BY <1>3, <1>4, <1>5, <1>8 DEF Inv

LEMMA RecordIntentInv ==
  ASSUME LeaseAssumption, Inv, NEW f \in Fences, NEW role \in Roles, NEW write \in Writes,
         RecordIntent(f, role, write)
  PROVE  Inv'
<1> DEFINE new == [origin |-> Origin, write |-> write]
<1>1. Origin = record.origin /\ record.origin \in Fences /\ record # NoRecord
  BY OriginIsRecorded DEF RecordIntent
<1>2. f = fence /\ phase' = "RECOVERY_REQUIRED" /\ Undecided' /\ Undecided
  BY DEF RecordIntent, Owned, OwnedOrExpired, Undecided
<1>3. new \in Intents /\ new.origin = record.origin
  BY <1>1 DEF Intents
<1>4. intents' = [intents EXCEPT ![role] = new]
  BY DEF RecordIntent
<1>5. TypeOK'
  BY <1>2, <1>3, <1>4 DEF RecordIntent, Inv, TypeOK, Phases
<1>6. ConstraintsHold' /\ OneLiveLease'
  BY <1>1, <1>2 DEF RecordIntent, Inv, ConstraintsHold, OneLiveLease, Undecided
<1>7. RecordIsNewest' /\ PlanAgrees'
  BY <1>2 DEF RecordIntent, Inv, RecordIsNewest, PlanAgrees
<1>8. IntentsAreRecords'
  BY <1>1, <1>3, <1>4 DEF RecordIntent, Inv, TypeOK, IntentsAreRecords
<1>9. HistoryAgrees'
  BY <1>2 DEF RecordIntent, Inv, HistoryAgrees, Undecided
<1> QED
  BY <1>5, <1>6, <1>7, <1>8, <1>9 DEF Inv

LEMMA ClaimInv ==
  ASSUME LeaseAssumption, Inv, NEW f \in Fences, ClaimRecovery(f)
  PROVE  Inv'
<1> DEFINE r == [origin |-> record.origin, recovery |-> record.recovery]
<1>1. Origin = record.origin /\ record.origin \in Fences /\ record # NoRecord
  BY OriginIsRecorded DEF ClaimRecovery
<1>2. record \in Records
  BY <1>1 DEF Inv, TypeOK
<1>3. record' = r /\ r \in Records /\ r.origin = record.origin
      /\ r.recovery = record.recovery
  BY <1>1, <1>2 DEF ClaimRecovery, Records
<1>4. /\ fence \in Nat /\ fence' = fence + 1 /\ fence' \in Fences
      /\ phase' = "RECOVERY_REQUIRED" /\ Undecided /\ Undecided' /\ phase # "NONE"
      /\ record.origin <= fence
  BY <1>1 DEF ClaimRecovery, LeaseAssumption, Inv, TypeOK, Fences, Undecided, RecordIsNewest
<1>5. live = {}
  BY DEF ClaimRecovery, Inv, OneLiveLease
<1>6. r # NoRecord
  BY <1>1, <1>3 DEF NoRecord, Fences
<1>7. TypeOK'
  BY <1>3, <1>4 DEF ClaimRecovery, Inv, TypeOK, Phases, Fences
<1>8. ConstraintsHold'
  BY <1>3, <1>4, <1>6 DEF ClaimRecovery, Inv, ConstraintsHold, Fences
<1>9. OneLiveLease'
  BY <1>4, <1>5 DEF ClaimRecovery, OneLiveLease
<1>10. RecordIsNewest'
  <2>1. \A e \in events : e.fence \in Nat
    BY DEF Inv, TypeOK, Fences
  <2> QED
    BY <1>1, <1>3, <1>4, <2>1 DEF ClaimRecovery, Inv, RecordIsNewest, Fences
<1>11. IntentsAreRecords' /\ PlanAgrees'
  BY <1>1, <1>3, <1>4, <1>6 DEF ClaimRecovery, Inv, IntentsAreRecords, PlanAgrees
<1>12. HistoryAgrees'
  <2> SUFFICES ASSUME NEW g \in Fences
               PROVE  /\ outcome[g] = "open" <=> g = record.origin
                      /\ outcome[g] # "reserved"
                      /\ g > fence' => outcome[g] = "none"
    BY <1>3, <1>4 DEF ClaimRecovery, HistoryAgrees
  <2>1. /\ outcome[g] = "open" <=> Undecided /\ g = record.origin
        /\ outcome[g] = "reserved" <=> phase = "RESERVED" /\ g = fence
        /\ g > fence => outcome[g] = "none"
    BY DEF Inv, HistoryAgrees
  <2>2. phase # "RESERVED"
    BY <1>4 DEF Undecided
  <2>3. g > fence' => g > fence
    BY <1>4 DEF Fences
  <2> QED
    BY <1>4, <2>1, <2>2, <2>3
<1> QED
  BY <1>7, <1>8, <1>9, <1>10, <1>11, <1>12 DEF Inv

LEMMA DecideInv ==
  ASSUME LeaseAssumption, Inv, NEW f \in Fences, Owned(f), Undecided, record # NoRecord,
         NEW result \in {"succeeded", "recovered", "rolled_back"},
         Decide(f, result), image' \in Images
  PROVE  Inv'
<1>1. Origin = record.origin /\ record.origin \in Fences
  BY OriginIsRecorded
<1>2. f = fence /\ phase # "NONE" /\ phase # "RESERVED" /\ phase' = "NONE" /\ ~Undecided'
  BY DEF Owned, OwnedOrExpired, Undecided, Decide, Clear
<1>3. record.origin <= fence
  BY DEF Inv, RecordIsNewest
<1>4. HistoryAgrees'
  BY <1>1, <1>2, <1>3 DEF Decide, Inv, TypeOK, HistoryAgrees, Fences
<1>5. outcome' \in [Fences -> Outcomes]
  BY DEF Decide, Inv, TypeOK, Outcomes
<1> QED
  BY <1>2, <1>4, <1>5, ClearInv DEF Decide

LEMMA FinalizeInv ==
  ASSUME LeaseAssumption, Inv, NEW f \in Fences,
         FinalizeSuccess(f) \/ FinalizeRecovery(f) \/ FinalizeRollback(f)
  PROVE  Inv'
<1>1. CASE FinalizeSuccess(f)
  <2>1. Owned(f) /\ Undecided /\ record # NoRecord /\ Decide(f, "succeeded")
        /\ image' = incoming.image
    BY <1>1 DEF FinalizeSuccess
  <2>2. incoming \in Targets
    BY <2>1 DEF Inv, ConstraintsHold, Undecided
  <2>3. image' \in Images
    BY <2>1, <2>2 DEF Targets
  <2> QED
    BY <2>1, <2>3, DecideInv
<1>2. CASE FinalizeRecovery(f)
  <2>1. Owned(f) /\ Undecided /\ record # NoRecord /\ Decide(f, "recovered")
        /\ image' = record.recovery /\ record.recovery # None
    BY <1>2 DEF FinalizeRecovery
  <2>2. record \in Records
    BY <2>1 DEF Inv, TypeOK
  <2>3. image' \in Images
    BY <2>1, <2>2 DEF Records
  <2> QED
    BY <2>1, <2>3, DecideInv
<1>3. CASE FinalizeRollback(f)
  <2>1. Owned(f) /\ Undecided /\ record # NoRecord /\ Decide(f, "rolled_back")
        /\ image' \in Images
    BY <1>3 DEF FinalizeRollback, Inv, TypeOK
  <2> QED
    BY <2>1, DecideInv
<1> QED
  BY <1>1, <1>2, <1>3

LEMMA StepInv == LeaseAssumption /\ Inv /\ [Next]_vars => Inv'
<1> SUFFICES ASSUME LeaseAssumption, Inv, [Next]_vars
             PROVE  Inv'
  OBVIOUS
<1>1. CASE UNCHANGED vars
  BY <1>1, StutterInv
<1>2. CASE \E i \in Images : RecordRelease(i)
  BY <1>2, RecordReleaseInv
<1>3. CASE \E target \in Targets : Acquire(target)
  BY <1>3, AcquireInv
<1>4. CASE \E f \in Fences, recovery \in Images \cup {None} : RecordRollback(f, recovery)
  BY <1>4, RecordRollbackInv
<1>5. CASE \E f \in Fences : Begin(f) \/ Abort(f) \/ MarkRecoveryRequired(f)
  BY <1>5, BeginInv, AbortInv, MarkInv
<1>6. CASE \E f \in Fences, role \in Roles, write \in Writes : RecordIntent(f, role, write)
  BY <1>6, RecordIntentInv
<1>7. CASE \E f \in Fences : ClaimRecovery(f) \/ Expire(f)
  BY <1>7, ClaimInv, ExpireInv
<1>8. CASE \E f \in Fences : FinalizeSuccess(f) \/ FinalizeRecovery(f) \/ FinalizeRollback(f)
  BY <1>8, FinalizeInv
<1> QED
  BY <1>1, <1>2, <1>3, <1>4, <1>5, <1>6, <1>7, <1>8 DEF Next

(* The record carries the truth from run to run.                           *)
THEOREM Invariance == Spec => []Inv
<1>1. Init => Inv
  BY LeaseAssumption, InitInv
<1>2. Inv /\ [Next]_vars => Inv'
  BY LeaseAssumption, StepInv
<1> QED
  BY <1>1, <1>2, PTL DEF Spec

-----------------------------------------------------------------------------
(* The types of the row and of its history.                                *)
THEOREM TypeCorrect == Spec => []TypeOK
<1>1. Inv => TypeOK
  BY DEF Inv
<1> QED
  BY <1>1, Invariance, PTL

(* No operation fails on a CHECK constraint of the table.                  *)
THEOREM NoConstraintViolation == Spec => []ConstraintsHold
<1>1. Inv => ConstraintsHold
  BY DEF Inv
<1> QED
  BY <1>1, Invariance, PTL

(* Two runs never both hold a lease in force.                              *)
THEOREM MutualExclusion == Spec => []OneLiveLease
<1>1. Inv => OneLiveLease
  BY DEF Inv
<1> QED
  BY <1>1, Invariance, PTL

(* A release that has begun is the only one, and the one the row is about, *)
(* until it is decided.                                                    *)
THEOREM OneReleaseAtATime == Spec => []OneOpenRelease
<1>1. Inv => OneOpenRelease
  <2> SUFFICES ASSUME Inv PROVE OneOpenRelease
    OBVIOUS
  <2>1. CASE record = NoRecord
    BY <2>1 DEF Inv, ConstraintsHold, HistoryAgrees, OneOpenRelease
  <2>2. CASE record # NoRecord
    BY <2>2, LeaseAssumption, OriginIsRecorded DEF Inv, HistoryAgrees, OneOpenRelease
  <2> QED
    BY <2>1, <2>2
<1> QED
  BY <1>1, Invariance, PTL

(* No sequence of failed runs and takeovers leaves a row that no later     *)
(* operation can read.                                                     *)
THEOREM NeverUnreadable == Spec => []RecoveryIsReadable
<1>1. Inv => RecoveryIsReadable
  <2> SUFFICES ASSUME Inv PROVE RecoveryIsReadable
    OBVIOUS
  <2>1. Admitted
    BY DEF Inv, RecordIsNewest, Admitted, Readable
  <2>2. IntentsReadable
    BY LeaseAssumption, OriginIsRecorded DEF Inv, IntentsAreRecords, IntentsReadable
  <2> QED
    BY <2>1, <2>2 DEF RecoveryIsReadable
<1> QED
  BY <1>1, Invariance, PTL

-----------------------------------------------------------------------------
(* How a release ends, for one lease.                                      *)
Ends(f) ==
  \/ outcome'[f] = "succeeded" /\ image' = plan[f].target
  \/ outcome'[f] = "recovered" /\ image' = plan[f].recovery
  \/ outcome'[f] = "rolled_back" /\ image' = plan[f].baseline

(* An end decides the release that is open, and no other.                  *)
LEMMA DecideStep ==
  ASSUME Inv, NEW f \in Fences, Owned(f), Undecided, record # NoRecord,
         NEW result \in {"succeeded", "recovered", "rolled_back"}, Decide(f, result)
  PROVE  /\ record.origin \in Fences
         /\ outcome[record.origin] = "open"
         /\ outcome'[record.origin] = result
         /\ \A g \in Fences : g # record.origin => outcome'[g] = outcome[g]
         /\ plan[record.origin].baseline = image
         /\ plan[record.origin].target = incoming.image
         /\ plan[record.origin].recovery = record.recovery
<1>1. Origin = record.origin /\ record.origin \in Fences
  BY LeaseAssumption, OriginIsRecorded
<1>2. outcome' = [outcome EXCEPT ![record.origin] = result]
  BY <1>1 DEF Decide
<1>3. image = expected
  BY DEF Owned, OwnedOrExpired, Inv, ConstraintsHold
<1> QED
  BY <1>1, <1>2, <1>3 DEF Inv, TypeOK, HistoryAgrees, PlanAgrees

LEMMA FinalizeStep ==
  ASSUME Inv, NEW f \in Fences,
         FinalizeSuccess(f) \/ FinalizeRecovery(f) \/ FinalizeRollback(f),
         NEW g \in Fences, outcome'[g] # outcome[g]
  PROVE  outcome[g] = "open" /\ Ends(g)
<1>1. CASE FinalizeSuccess(f)
  <2>1. Owned(f) /\ Undecided /\ record # NoRecord /\ Decide(f, "succeeded")
        /\ image' = incoming.image
    BY <1>1 DEF FinalizeSuccess
  <2> QED
    BY <2>1, DecideStep DEF Ends
<1>2. CASE FinalizeRecovery(f)
  <2>1. Owned(f) /\ Undecided /\ record # NoRecord /\ Decide(f, "recovered")
        /\ image' = record.recovery
    BY <1>2 DEF FinalizeRecovery
  <2> QED
    BY <2>1, DecideStep DEF Ends
<1>3. CASE FinalizeRollback(f)
  <2>1. Owned(f) /\ Undecided /\ record # NoRecord /\ Decide(f, "rolled_back")
        /\ image' = image
    BY <1>3 DEF FinalizeRollback
  <2> QED
    BY <2>1, DecideStep DEF Ends
<1> QED
  BY <1>1, <1>2, <1>3

(* What a step may do to what the history says of a lease.                 *)
LEMMA OutcomeStep ==
  ASSUME Inv, Next, NEW g \in Fences, outcome'[g] # outcome[g]
  PROVE  \/ outcome[g] \in {"none", "reserved"}
         \/ outcome[g] = "open" /\ Ends(g)
<1>1. ASSUME NEW i \in Images, RecordRelease(i) PROVE FALSE
  BY <1>1 DEF RecordRelease
<1>2. ASSUME NEW target \in Targets, Acquire(target)
      PROVE  outcome[g] \in {"none", "reserved"}
  <2>1. g = fence' \/ outcome[g] = "reserved"
    BY <1>2 DEF Acquire
  <2>2. g = fence' => g > fence
    BY <1>2 DEF Acquire, Inv, TypeOK
  <2> QED
    BY <2>1, <2>2 DEF Inv, HistoryAgrees
<1>3. ASSUME NEW f \in Fences, NEW recovery \in Images \cup {None}, RecordRollback(f, recovery)
      PROVE  FALSE
  BY <1>3 DEF RecordRollback
<1>4. ASSUME NEW f \in Fences, Begin(f) \/ Abort(f)
      PROVE  outcome[g] \in {"none", "reserved"}
  <2>1. f = fence /\ phase = "RESERVED"
    BY <1>4 DEF Begin, Abort, Owned, OwnedOrExpired
  <2>2. outcome[f] = "reserved"
    BY <2>1 DEF Inv, HistoryAgrees
  <2>3. g = f
    BY <1>4 DEF Begin, Abort, Inv, TypeOK
  <2> QED
    BY <2>2, <2>3
<1>5. ASSUME NEW f \in Fences, MarkRecoveryRequired(f)
      PROVE  outcome[g] \in {"none", "reserved"}
  <2>1. Origin = record.origin /\ record.origin \in Fences /\ record # NoRecord
    BY <1>5, LeaseAssumption, OriginIsRecorded DEF MarkRecoveryRequired
  <2>2. g = record.origin /\ outcome'[g] = "open"
    BY <1>5, <2>1 DEF MarkRecoveryRequired, Inv, TypeOK
  <2>3. phase = "RESERVED" /\ record.origin = fence
    BY <1>5, <2>1, <2>2
       DEF MarkRecoveryRequired, OwnedOrExpired, Inv, TypeOK, Phases, HistoryAgrees,
           RecordIsNewest, Undecided
  <2> QED
    BY <2>2, <2>3 DEF Inv, HistoryAgrees
<1>6. ASSUME NEW f \in Fences, NEW role \in Roles, NEW write \in Writes,
             RecordIntent(f, role, write)
      PROVE  FALSE
  BY <1>6 DEF RecordIntent
<1>7. ASSUME NEW f \in Fences, ClaimRecovery(f) \/ Expire(f) PROVE FALSE
  BY <1>7 DEF ClaimRecovery, Expire
<1>8. ASSUME NEW f \in Fences, FinalizeSuccess(f) \/ FinalizeRecovery(f) \/ FinalizeRollback(f)
      PROVE  outcome[g] = "open" /\ Ends(g)
  BY <1>8, FinalizeStep
<1> QED
  BY <1>1, <1>2, <1>3, <1>4, <1>5, <1>6, <1>7, <1>8 DEF Next

(* Through whatever runs it went, a release ends with an image of its own. *)
THEOREM EndsAsPlanned == Spec => ReleaseEndsAsPlanned
<1> DEFINE A == \A f \in Fences : outcome[f] = "open" /\ outcome'[f] # "open" => Ends(f)
<1>1. Inv /\ [Next]_vars => [A]_vars
  <2> SUFFICES ASSUME Inv, Next, NEW f \in Fences, outcome[f] = "open", outcome'[f] # "open"
               PROVE  Ends(f)
    OBVIOUS
  <2> QED
    BY OutcomeStep
<1> HIDE DEF A
<1>2. Spec => [][A]_vars
  BY <1>1, Invariance, PTL DEF Spec
<1> QED
  BY <1>2 DEF A, Ends, ReleaseEndsAsPlanned

(* A run with an old lease revives nothing.                                *)
THEOREM EndedForGood == Spec => EndedStaysEnded
<1> DEFINE A == \A f \in Fences :
       outcome[f] \in Outcomes \ {"none", "reserved", "open"} => outcome'[f] = outcome[f]
<1>1. Inv /\ [Next]_vars => [A]_vars
  <2> SUFFICES ASSUME Inv, Next, NEW f \in Fences,
                      outcome[f] \in Outcomes \ {"none", "reserved", "open"}
               PROVE  outcome'[f] = outcome[f]
    OBVIOUS
  <2> QED
    BY OutcomeStep
<1> HIDE DEF A
<1>2. Spec => [][A]_vars
  BY <1>1, Invariance, PTL DEF Spec
<1> QED
  BY <1>2 DEF A, EndedStaysEnded

(* A step changes a recorded intent only when it decides the release.      *)
LEMMA IntentStep ==
  ASSUME Inv, Next, NEW role \in Roles,
         intents[role] # NoIntent, intents'[role] # intents[role]
  PROVE  \E f \in Fences : outcome[f] = "open" /\ outcome'[f] # "open"
<1>1. phase = "RECOVERY_REQUIRED" /\ record # NoRecord /\ intents # NoIntents
  BY DEF Inv, IntentsAreRecords, NoIntents
<1>2. ASSUME NEW i \in Images, RecordRelease(i) PROVE FALSE
  BY <1>2 DEF RecordRelease, lease
<1>3. ASSUME NEW target \in Targets, Acquire(target) PROVE FALSE
  BY <1>1, <1>3 DEF Acquire, FreeToAcquire
<1>4. ASSUME NEW f \in Fences, NEW recovery \in Images \cup {None}, RecordRollback(f, recovery)
      PROVE  FALSE
  BY <1>4 DEF RecordRollback
<1>5. ASSUME NEW f \in Fences, Begin(f) \/ Abort(f) \/ MarkRecoveryRequired(f)
      PROVE  FALSE
  BY <1>1, <1>5 DEF Begin, Abort, MarkRecoveryRequired
<1>6. ASSUME NEW f \in Fences, NEW r \in Roles, NEW write \in Writes,
             RecordIntent(f, r, write)
      PROVE  FALSE
  <2> DEFINE new == [origin |-> Origin, write |-> write]
  <2>1. intents' = [intents EXCEPT ![r] = new] /\ intents[r] \in {NoIntent, new}
    BY <1>6 DEF RecordIntent
  <2> HIDE DEF new
  <2> QED
    BY <2>1 DEF Inv, TypeOK
<1>7. ASSUME NEW f \in Fences, ClaimRecovery(f) \/ Expire(f) PROVE FALSE
  BY <1>7 DEF ClaimRecovery, Expire, lease
<1>8. ASSUME NEW f \in Fences, NEW result \in {"succeeded", "recovered", "rolled_back"},
             Owned(f), Undecided, record # NoRecord, Decide(f, result)
      PROVE  record.origin \in Fences /\ outcome[record.origin] = "open"
             /\ outcome'[record.origin] # "open"
  BY <1>8, DecideStep
<1>9. ASSUME NEW f \in Fences, FinalizeSuccess(f) \/ FinalizeRecovery(f) \/ FinalizeRollback(f)
      PROVE  record.origin \in Fences /\ outcome[record.origin] = "open"
             /\ outcome'[record.origin] # "open"
  BY <1>8, <1>9 DEF FinalizeSuccess, FinalizeRecovery, FinalizeRollback
<1> QED
  BY <1>2, <1>3, <1>4, <1>5, <1>6, <1>7, <1>9 DEF Next

(* No takeover hides an announced provider write.                          *)
THEOREM IntentsAreKept == Spec => IntentsStayUntilDecided
<1> DEFINE A == \A role \in Roles :
       intents[role] # NoIntent /\ intents'[role] # intents[role]
         => \E f \in Fences : outcome[f] = "open" /\ outcome'[f] # "open"
<1>1. Inv /\ [Next]_vars => [A]_vars
  BY IntentStep
<1> HIDE DEF A
<1>2. Spec => [][A]_vars
  BY <1>1, Invariance, PTL DEF Spec
<1> QED
  BY <1>2 DEF A, IntentsStayUntilDecided
=============================================================================
