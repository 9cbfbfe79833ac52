------------------------- MODULE WorkflowJobsProofs -------------------------
(***************************************************************************)
(* Theorems about the job queue: the inductive invariant that relates what *)
(* a worker remembers of its claim to the row it claimed, and what follows *)
(* from it for the outcome of a fenced job.                                *)
(***************************************************************************)
EXTENDS WorkflowJobs, FiniteSetTheorems, TLAPS

(* No more handlers run than there are lanes left.                         *)
LaneBound == \A w \in Workers : Cardinality(handling[w]) <= lanes[w]

(* A running row has spent an attempt.                                     *)
RunningWasClaimed == \A j \in Jobs : status[j] = "RUNNING" => attempts[j] > 0

(* A claim in memory is of the past or the present of its row.             *)
SeenIsPast == \A w \in Workers, j \in Jobs : seen[w][j].serial <= serial[j]

(* While a row runs, the claim that the row names is its newest claim, the *)
(* newest claim is the one that the row names, and both agree on attempts. *)
ClaimIdentity ==
  \A w \in Workers, j \in Jobs :
    InMemory(w, j) /\ status[j] = "RUNNING" =>
      /\ lockedBy[j] = w <=> seen[w][j].serial = serial[j]
      /\ lockedBy[j] = w => seen[w][j].attempts = attempts[j]

(* A job of a batch waits for a lane or has one.                           *)
QueuedOrHandled == \A w \in Workers : queued[w] \cap handling[w] = {}

Inv ==
  /\ TypeOK
  /\ LaneBound
  /\ QueuedOrHandled
  /\ RunningWasClaimed
  /\ SeenIsPast
  /\ ClaimIdentity

LEMMA InitInv == Init => Inv
<1> SUFFICES ASSUME Init PROVE Inv
  OBVIOUS
<1> USE JobAssumption, BoundAssumption DEF Init
<1>1. TypeOK
  BY DEF TypeOK, Status, Unclaimed
<1>2. LaneBound
  BY FS_EmptySet DEF LaneBound
<1>3. QueuedOrHandled /\ RunningWasClaimed /\ SeenIsPast /\ ClaimIdentity
  BY DEF QueuedOrHandled, RunningWasClaimed, SeenIsPast, ClaimIdentity, InMemory, Unclaimed
<1> QED BY <1>1, <1>2, <1>3 DEF Inv

LEMMA SettleType ==
  ASSUME TypeOK, NEW w \in Workers, NEW j \in Jobs, NEW outcome \in Status,
         Settle(w, j, outcome)
  PROVE  /\ status' \in [Jobs -> Status]
         /\ lockedBy' \in [Jobs -> Workers \cup {None}]
         /\ expired' \in [Jobs -> BOOLEAN]
         /\ dependsOn' \in [Jobs -> Jobs \cup {None}]
BY DEF Settle, Release, TypeOK

LEMMA LeaveHandlerType ==
  ASSUME TypeOK, NEW w \in Workers, NEW j \in Jobs, LeaveHandler(w, j)
  PROVE  /\ queued' \in [Workers -> SUBSET Jobs]
         /\ handling' \in [Workers -> SUBSET Jobs]
         /\ seen' \in [Workers -> [Jobs -> [attempts : Nat, serial : Nat]]]
         /\ lanes' \in [Workers -> 0 .. Lanes]
         /\ alive' \subseteq Workers
BY DEF LeaveHandler, Unclaimed, TypeOK

LEMMA NextTypeOK == ASSUME Inv, [Next]_vars PROVE TypeOK'
<1> USE JobAssumption, BoundAssumption DEF Inv
<1>1. CASE UNCHANGED vars
  BY <1>1 DEF vars, row, memory, TypeOK
<1>2. ASSUME NEW batch \in SUBSET Jobs, Enqueue(batch) PROVE TypeOK'
  <2>1. \A j \in Jobs : ResolvedDependency(j, batch) \in Jobs \cup {None}
    BY JobAssumption DEF ResolvedDependency
  <2>2. status' \in [Jobs -> Status] /\ dependsOn' \in [Jobs -> Jobs \cup {None}]
    BY <1>2, <2>1 DEF Enqueue, TypeOK, Status
  <2> QED BY <1>2, <2>2 DEF Enqueue, memory, TypeOK
<1>3. ASSUME NEW w \in Workers, NEW batch \in SUBSET Jobs, Claim(w, batch) PROVE TypeOK'
  <2>1. /\ status' \in [Jobs -> Status]
        /\ attempts' \in [Jobs -> Nat]
        /\ lockedBy' \in [Jobs -> Workers \cup {None}]
        /\ expired' \in [Jobs -> BOOLEAN]
        /\ dependsOn' \in [Jobs -> Jobs \cup {None}]
        /\ serial' \in [Jobs -> Nat]
    <3>1. UNCHANGED dependsOn
      BY <1>3 DEF Claim
    <3>2. /\ status' \in [Jobs -> Status]
          /\ lockedBy' \in [Jobs -> Workers \cup {None}]
          /\ expired' \in [Jobs -> BOOLEAN]
      BY <1>3 DEF Claim, TypeOK, Status
    <3>3. attempts' \in [Jobs -> Nat] /\ serial' \in [Jobs -> Nat]
      BY <1>3 DEF Claim, TypeOK
    <3> QED BY <3>1, <3>2, <3>3 DEF TypeOK
  <2>2. seen' \in [Workers -> [Jobs -> [attempts : Nat, serial : Nat]]]
    <3>1. [j \in Jobs |-> IF j \in batch THEN Remembered(j) ELSE Unclaimed]
             \in [Jobs -> [attempts : Nat, serial : Nat]]
      BY DEF Remembered, Unclaimed, TypeOK
    <3> QED BY <1>3, <3>1 DEF Claim, TypeOK
  <2>3. /\ queued' \in [Workers -> SUBSET Jobs]
        /\ lanes' \in [Workers -> 0 .. Lanes]
    BY <1>3 DEF Claim, TypeOK
  <2>4. UNCHANGED <<handling, alive, faults>>
    BY <1>3 DEF Claim
  <2> QED BY <2>1, <2>2, <2>3, <2>4 DEF TypeOK
<1>4. ASSUME NEW w \in Workers, NEW j \in Jobs, StartHandler(w, j) PROVE TypeOK'
  BY <1>4 DEF StartHandler, row, TypeOK
<1>5. ASSUME NEW w \in Workers, NEW j \in Jobs, HandlerSucceeds(w, j) PROVE TypeOK'
  BY <1>5, SettleType, LeaveHandlerType DEF HandlerSucceeds, TypeOK, Status
<1>6. ASSUME NEW w \in Workers, NEW j \in Jobs, NEW revoked \in BOOLEAN,
             HandlerFails(w, j, revoked)
      PROVE  TypeOK'
  BY <1>6, SettleType, LeaveHandlerType DEF HandlerFails, FailureStatus, TypeOK, Status
<1>7. ASSUME NEW w \in Workers, NEW j \in Jobs, HandlerDefers(w, j) PROVE TypeOK'
  <2>1. attempts' \in [Jobs -> Nat]
    BY <1>7 DEF HandlerDefers, MaySettle, HoldsAttempt, HoldsLock, RunningWasClaimed, TypeOK
  <2> QED BY <1>7, <2>1, SettleType, LeaveHandlerType DEF HandlerDefers, Fault, TypeOK, Status
<1>8. ASSUME NEW w \in Workers, NEW j \in Jobs, SettlementThrows(w, j) PROVE TypeOK'
  <2>1. lanes[w] > 0
    <3>1. handling[w] \subseteq Jobs /\ handling[w] # {}
      BY <1>8 DEF SettlementThrows, TypeOK
    <3>2. IsFiniteSet(handling[w])
      BY <3>1, FS_Subset
    <3>3. Cardinality(handling[w]) \in Nat /\ Cardinality(handling[w]) # 0
      BY <3>1, <3>2, FS_EmptySet, FS_CardinalityType
    <3> QED BY <3>3 DEF LaneBound, TypeOK
  <2>2. seen' \in [Workers -> [Jobs -> [attempts : Nat, serial : Nat]]]
    <3>1. [k \in Jobs |-> IF k = j \/ (lanes[w] = 1 /\ k \in queued[w])
                            THEN Unclaimed ELSE seen[w][k]]
             \in [Jobs -> [attempts : Nat, serial : Nat]]
      BY DEF Unclaimed, TypeOK
    <3> QED BY <1>8, <3>1 DEF SettlementThrows, TypeOK
  <2> QED BY <1>8, <2>1, <2>2 DEF SettlementThrows, Fault, row, TypeOK
<1>9. ASSUME NEW j \in Jobs, LockExpires(j) PROVE TypeOK'
  BY <1>9 DEF LockExpires, Fault, memory, TypeOK
<1>10. ASSUME NEW w \in Workers, Crash(w) PROVE TypeOK'
  BY <1>10 DEF Crash, Fault, row, Unclaimed, TypeOK
<1>11. ASSUME NEW j \in Jobs, RequestVariantAgain(j) \/ RetryDiagnostic(j) PROVE TypeOK'
  <2>1. Release(j, "PENDING") /\ Fault /\ UNCHANGED <<attempts, serial, memory>>
    BY <1>11 DEF RequestVariantAgain, RetryDiagnostic
  <2> QED BY <2>1 DEF Release, Fault, memory, TypeOK, Status
<1>12. ASSUME NEW j \in Jobs, Discard(j) PROVE TypeOK'
  BY <1>12 DEF Discard, memory, TypeOK, Status
<1> QED
  BY <1>1, <1>2, <1>3, <1>4, <1>5, <1>6, <1>7, <1>8, <1>9, <1>10, <1>11, <1>12 DEF Next

LEMMA NextLaneBound == ASSUME Inv, [Next]_vars PROVE LaneBound'
<1>1. /\ LaneBound
      /\ handling \in [Workers -> SUBSET Jobs]
      /\ lanes \in [Workers -> Int]
  BY BoundAssumption DEF Inv, TypeOK
<1>2. \A w \in Workers : IsFiniteSet(handling[w]) /\ Cardinality(handling[w]) \in Nat
  <2> SUFFICES ASSUME NEW w \in Workers
               PROVE  IsFiniteSet(handling[w]) /\ Cardinality(handling[w]) \in Nat
    OBVIOUS
  <2>1. handling[w] \in SUBSET Jobs
    BY <1>1
  <2> QED BY <2>1, FS_Subset, FS_CardinalityType, JobAssumption
<1>3. CASE UNCHANGED <<handling, lanes>>
  BY <1>1, <1>3 DEF LaneBound
<1>4. ASSUME NEW w \in Workers, NEW batch \in SUBSET Jobs, Claim(w, batch) PROVE LaneBound'
  <2>1. handling' = handling /\ handling[w] = {} /\ lanes' = [lanes EXCEPT ![w] = Lanes]
    BY <1>4 DEF Claim
  <2>2. Cardinality({}) = 0
    BY FS_EmptySet
  <2>3. Lanes \in Nat
    BY BoundAssumption
  <2> QED BY <1>1, <2>1, <2>2, <2>3 DEF LaneBound
<1>5. ASSUME NEW w \in Workers, NEW j \in Jobs, StartHandler(w, j) PROVE LaneBound'
  <2>1. /\ handling' = [handling EXCEPT ![w] = @ \cup {j}]
        /\ lanes' = lanes
        /\ Cardinality(handling[w]) < lanes[w]
    BY <1>5 DEF StartHandler
  <2>2. IsFiniteSet(handling[w]) /\ Cardinality(handling[w]) \in Nat
    BY <1>2
  <2>3. Cardinality(handling[w] \cup {j}) =
          IF j \in handling[w] THEN Cardinality(handling[w]) ELSE Cardinality(handling[w]) + 1
    BY <2>2, FS_AddElement
  <2>4. Cardinality(handling[w] \cup {j}) <= lanes[w]
    BY <1>1, <2>1, <2>2, <2>3
  <2> QED BY <1>1, <2>1, <2>4 DEF LaneBound
<1>6. ASSUME NEW w \in Workers, NEW j \in handling[w],
             handling' = [handling EXCEPT ![w] = @ \ {j}],
             lanes' = lanes \/ lanes' = [lanes EXCEPT ![w] = @ - 1]
      PROVE  LaneBound'
  <2>1. IsFiniteSet(handling[w]) /\ Cardinality(handling[w]) \in Nat
    BY <1>2
  <2>2. Cardinality(handling[w] \ {j}) = Cardinality(handling[w]) - 1
    BY <2>1, FS_RemoveElement
  <2>3. Cardinality(handling[w] \ {j}) <= lanes[w] - 1
    BY <1>1, <2>1, <2>2 DEF LaneBound
  <2>4. Cardinality(handling[w] \ {j}) \in Int
    BY <2>1, <2>2
  <2> QED BY <1>1, <1>6, <2>3, <2>4 DEF LaneBound
<1>7. ASSUME NEW w \in Workers, Crash(w) PROVE LaneBound'
  <2>1. handling' = [handling EXCEPT ![w] = {}] /\ lanes' = [lanes EXCEPT ![w] = 0]
    BY <1>7 DEF Crash
  <2>2. Cardinality({}) = 0
    BY FS_EmptySet
  <2> QED BY <1>1, <2>1, <2>2 DEF LaneBound
<1>8. ASSUME NEW w \in Workers, NEW j \in Jobs,
             \/ HandlerSucceeds(w, j) \/ HandlerDefers(w, j) \/ SettlementThrows(w, j)
             \/ \E revoked \in BOOLEAN : HandlerFails(w, j, revoked)
      PROVE  LaneBound'
  <2>1. /\ j \in handling[w]
        /\ handling' = [handling EXCEPT ![w] = @ \ {j}]
        /\ lanes' = lanes \/ lanes' = [lanes EXCEPT ![w] = @ - 1]
    BY <1>8 DEF HandlerSucceeds, HandlerFails, HandlerDefers, SettlementThrows, LeaveHandler
  <2> QED BY <1>6, <2>1
<1>9. ASSUME NEW j \in Jobs,
             \/ LockExpires(j) \/ RequestVariantAgain(j)
             \/ RetryDiagnostic(j) \/ Discard(j)
      PROVE  UNCHANGED <<handling, lanes>>
  BY <1>9 DEF LockExpires, RequestVariantAgain, RetryDiagnostic, Discard, memory
<1>10. ASSUME NEW batch \in SUBSET Jobs, Enqueue(batch)
       PROVE  UNCHANGED <<handling, lanes>>
  BY <1>10 DEF Enqueue, memory
<1>11. UNCHANGED vars => UNCHANGED <<handling, lanes>>
  BY DEF vars, memory
<1> QED BY <1>3, <1>4, <1>5, <1>7, <1>8, <1>9, <1>10, <1>11 DEF Next

(* What a handler leaves of the row it was running for.                    *)
LEMMA SettleEffect ==
  ASSUME Inv, NEW w \in Workers, NEW j \in Jobs, NEW outcome \in Status,
         Settle(w, j, outcome), NEW k \in Jobs
  PROVE  \/ status'[k] = status[k] /\ lockedBy'[k] = lockedBy[k]
         \/ k = j /\ MaySettle(w, j) /\ status'[k] = outcome
BY DEF Settle, Release, Inv, TypeOK

LEMMA NextRunningWasClaimed == ASSUME Inv, [Next]_vars PROVE RunningWasClaimed'
<1> USE DEF Inv
<1>1. CASE UNCHANGED <<status, attempts>>
  BY <1>1 DEF RunningWasClaimed
<1>2. ASSUME NEW batch \in SUBSET Jobs, Enqueue(batch) PROVE RunningWasClaimed'
  BY <1>2 DEF Enqueue, RunningWasClaimed, TypeOK
<1>3. ASSUME NEW w \in Workers, NEW batch \in SUBSET Jobs, Claim(w, batch)
      PROVE  RunningWasClaimed'
  <2>1. /\ status' = [j \in Jobs |-> IF j \in batch THEN "RUNNING" ELSE status[j]]
        /\ attempts' = [j \in Jobs |-> IF j \in batch THEN attempts[j] + 1 ELSE attempts[j]]
    BY <1>3 DEF Claim
  <2> QED BY <2>1 DEF RunningWasClaimed, TypeOK
<1>4. ASSUME NEW w \in Workers, NEW j \in Jobs, NEW outcome \in Status \ {"RUNNING"},
             Settle(w, j, outcome), attempts' = attempts
      PROVE  RunningWasClaimed'
  BY <1>4, SettleEffect DEF RunningWasClaimed
<1>5. ASSUME NEW w \in Workers, NEW j \in Jobs, HandlerDefers(w, j) PROVE RunningWasClaimed'
  <2>1. "PENDING" \in Status
    BY DEF Status
  <2>2. Settle(w, j, "PENDING")
    BY <1>5 DEF HandlerDefers
  <2>3. attempts' = [attempts EXCEPT ![j] = IF MaySettle(w, j) THEN @ - 1 ELSE @]
    BY <1>5 DEF HandlerDefers
  <2>4. CASE MaySettle(w, j)
    <3>1. status' = [status EXCEPT ![j] = "PENDING"]
      BY <2>2, <2>4 DEF Settle, Release
    <3> QED BY <2>3, <2>4, <3>1 DEF RunningWasClaimed, TypeOK
  <2>5. CASE ~MaySettle(w, j)
    BY <2>2, <2>3, <2>5 DEF Settle, RunningWasClaimed, TypeOK
  <2> QED BY <2>4, <2>5
<1>6. ASSUME NEW j \in Jobs, RequestVariantAgain(j) \/ RetryDiagnostic(j) \/ Discard(j)
      PROVE  RunningWasClaimed'
  BY <1>6 DEF RequestVariantAgain, RetryDiagnostic, Discard, Release, RunningWasClaimed, TypeOK
<1>7. ASSUME NEW w \in Workers, NEW j \in Jobs, HandlerSucceeds(w, j) PROVE RunningWasClaimed'
  BY <1>4, <1>7 DEF HandlerSucceeds, Status
<1>8. ASSUME NEW w \in Workers, NEW j \in Jobs, NEW revoked \in BOOLEAN,
             HandlerFails(w, j, revoked)
      PROVE  RunningWasClaimed'
  BY <1>4, <1>8 DEF HandlerFails, FailureStatus, Status
<1>9. ASSUME NEW w \in Workers, NEW j \in Jobs,
             \/ StartHandler(w, j) \/ SettlementThrows(w, j) \/ LockExpires(j)
             \/ Crash(w)
      PROVE  UNCHANGED <<status, attempts>>
  BY <1>9 DEF StartHandler, SettlementThrows, LockExpires, Crash, row
<1>10. UNCHANGED vars => UNCHANGED <<status, attempts>>
  BY DEF vars, row
<1>11. ASSUME NEW w \in Workers, Crash(w) PROVE UNCHANGED <<status, attempts>>
  BY <1>11 DEF Crash, row
<1>12. ASSUME NEW j \in Jobs, LockExpires(j) PROVE UNCHANGED <<status, attempts>>
  BY <1>12 DEF LockExpires
<1> QED
  BY <1>1, <1>2, <1>3, <1>5, <1>6, <1>7, <1>8, <1>9, <1>10, <1>11, <1>12 DEF Next

(* What every step but a claim does: a row that runs was running under the *)
(* same claim, and a worker remembers no more than it did.                 *)
RunningRowKept ==
  \A k \in Jobs : status'[k] = "RUNNING" =>
    /\ status[k] = "RUNNING"
    /\ lockedBy'[k] = lockedBy[k]
    /\ attempts'[k] = attempts[k]

MemoryKept ==
  /\ \A v \in Workers, k \in Jobs :
       /\ k \in queued'[v] \cup handling'[v] =>
            k \in queued[v] \cup handling[v] /\ seen'[v][k] = seen[v][k]
       /\ seen'[v][k] \in {seen[v][k], Unclaimed}
  /\ \A v \in Workers : queued'[v] \cap handling'[v] = {}

NoClaim == RunningRowKept /\ MemoryKept /\ serial' = serial

LEMMA SettleKeepsRunning ==
  ASSUME Inv, NEW w \in Workers, NEW j \in Jobs, NEW outcome,
         outcome # "RUNNING", Settle(w, j, outcome),
         \A k \in Jobs : k # j \/ ~MaySettle(w, j) => attempts'[k] = attempts[k]
  PROVE  RunningRowKept
BY DEF Settle, Release, RunningRowKept, Inv, TypeOK

LEMMA LeaveKeepsMemory ==
  ASSUME Inv, NEW w \in Workers, NEW j \in Jobs, LeaveHandler(w, j), j \in handling[w]
  PROVE  MemoryKept
BY DEF LeaveHandler, MemoryKept, QueuedOrHandled, Inv, TypeOK

LEMMA ClaimOrNoClaim ==
  ASSUME Inv, [Next]_vars
  PROVE  (\E w \in Workers, batch \in SUBSET Jobs : Claim(w, batch)) \/ NoClaim
<1>1. QueuedOrHandled
  BY DEF Inv
<1>2. UNCHANGED memory => MemoryKept
  BY <1>1 DEF memory, MemoryKept, QueuedOrHandled
<1>3. UNCHANGED row => RunningRowKept
  BY DEF row, RunningRowKept
<1>4. CASE UNCHANGED vars
  BY <1>2, <1>3, <1>4 DEF vars, NoClaim
<1>5. ASSUME NEW batch \in SUBSET Jobs, Enqueue(batch) PROVE NoClaim
  <2>1. RunningRowKept
    BY <1>5 DEF Enqueue, RunningRowKept, Inv, TypeOK
  <2> QED BY <1>2, <1>5, <2>1 DEF Enqueue, NoClaim
<1>6. ASSUME NEW w \in Workers, NEW j \in Jobs, StartHandler(w, j) PROVE NoClaim
  <2>1. MemoryKept
    BY <1>1, <1>6 DEF StartHandler, MemoryKept, QueuedOrHandled, Inv, TypeOK
  <2> QED BY <1>3, <1>6, <2>1 DEF StartHandler, NoClaim
<1>7. ASSUME NEW w \in Workers, NEW j \in Jobs, HandlerSucceeds(w, j) PROVE NoClaim
  <2>1. RunningRowKept
    BY <1>7, SettleKeepsRunning DEF HandlerSucceeds
  <2> QED BY <1>7, <2>1, LeaveKeepsMemory DEF HandlerSucceeds, NoClaim
<1>8. ASSUME NEW w \in Workers, NEW j \in Jobs, NEW revoked \in BOOLEAN,
             HandlerFails(w, j, revoked)
      PROVE  NoClaim
  <2>1. FailureStatus(w, j, revoked) # "RUNNING"
    BY DEF FailureStatus
  <2>2. RunningRowKept
    BY <1>8, <2>1, SettleKeepsRunning DEF HandlerFails
  <2> QED BY <1>8, <2>2, LeaveKeepsMemory DEF HandlerFails, NoClaim
<1>9. ASSUME NEW w \in Workers, NEW j \in Jobs, HandlerDefers(w, j) PROVE NoClaim
  <2>1. \A k \in Jobs : k # j \/ ~MaySettle(w, j) => attempts'[k] = attempts[k]
    BY <1>9 DEF HandlerDefers, Inv, TypeOK
  <2>2. RunningRowKept
    BY <1>9, <2>1, SettleKeepsRunning DEF HandlerDefers
  <2> QED BY <1>9, <2>2, LeaveKeepsMemory DEF HandlerDefers, NoClaim
<1>10. ASSUME NEW w \in Workers, NEW j \in Jobs, SettlementThrows(w, j) PROVE NoClaim
  <2>1. MemoryKept
    BY <1>1, <1>10 DEF SettlementThrows, MemoryKept, QueuedOrHandled, Inv, TypeOK
  <2> QED BY <1>3, <1>10, <2>1 DEF SettlementThrows, NoClaim
<1>11. ASSUME NEW j \in Jobs, LockExpires(j) PROVE NoClaim
  <2>1. RunningRowKept
    BY <1>11 DEF LockExpires, RunningRowKept
  <2> QED BY <1>2, <1>11, <2>1 DEF LockExpires, NoClaim
<1>12. ASSUME NEW w \in Workers, Crash(w) PROVE NoClaim
  <2>1. MemoryKept
    BY <1>1, <1>12 DEF Crash, MemoryKept, QueuedOrHandled, Inv, TypeOK
  <2> QED BY <1>3, <1>12, <2>1 DEF Crash, NoClaim
<1>13. ASSUME NEW j \in Jobs, RequestVariantAgain(j) \/ RetryDiagnostic(j) PROVE NoClaim
  <2>1. Release(j, "PENDING") /\ UNCHANGED <<attempts, serial, memory>>
    BY <1>13 DEF RequestVariantAgain, RetryDiagnostic
  <2>2. RunningRowKept
    BY <2>1 DEF Release, RunningRowKept, Inv, TypeOK
  <2> QED BY <1>2, <2>1, <2>2 DEF NoClaim
<1>14. ASSUME NEW j \in Jobs, Discard(j) PROVE NoClaim
  <2>1. RunningRowKept
    BY <1>14 DEF Discard, RunningRowKept, Inv, TypeOK
  <2> QED BY <1>2, <1>14, <2>1 DEF Discard, NoClaim
<1> QED
  BY <1>4, <1>5, <1>6, <1>7, <1>8, <1>9, <1>10, <1>11, <1>12, <1>13, <1>14 DEF Next

(* What a claim does to the identity of the jobs of its batch.             *)
LEMMA ClaimEffect ==
  ASSUME Inv, NEW w \in Workers, NEW batch \in SUBSET Jobs, Claim(w, batch)
  PROVE  /\ queued'[w] = batch /\ handling' = handling /\ handling[w] = {}
         /\ \A v \in Workers \ {w} : queued'[v] = queued[v] /\ seen'[v] = seen[v]
         /\ \A k \in batch :
              /\ status'[k] = "RUNNING" /\ lockedBy'[k] = w
              /\ attempts'[k] = attempts[k] + 1
              /\ serial'[k] = serial[k] + 1
              /\ seen'[w][k] = [attempts |-> attempts[k] + 1, serial |-> serial[k] + 1]
         /\ \A k \in Jobs \ batch :
              /\ status'[k] = status[k] /\ lockedBy'[k] = lockedBy[k]
              /\ attempts'[k] = attempts[k] /\ serial'[k] = serial[k]
              /\ seen'[w][k] = Unclaimed
<1>1. queued' = [queued EXCEPT ![w] = batch] /\ handling' = handling /\ handling[w] = {}
  BY DEF Claim
<1>2. seen' = [seen EXCEPT ![w] = [k \in Jobs |->
                 IF k \in batch THEN Remembered(k) ELSE Unclaimed]]
  BY DEF Claim
<1>3. /\ status' = [k \in Jobs |-> IF k \in batch THEN "RUNNING" ELSE status[k]]
      /\ lockedBy' = [k \in Jobs |-> IF k \in batch THEN w ELSE lockedBy[k]]
      /\ attempts' = [k \in Jobs |-> IF k \in batch THEN attempts[k] + 1 ELSE attempts[k]]
      /\ serial' = [k \in Jobs |-> IF k \in batch THEN serial[k] + 1 ELSE serial[k]]
  BY DEF Claim
<1>4. seen'[w] = [k \in Jobs |-> IF k \in batch THEN Remembered(k) ELSE Unclaimed]
  BY <1>2 DEF Inv, TypeOK
<1>5. \A v \in Workers \ {w} : queued'[v] = queued[v] /\ seen'[v] = seen[v]
  BY <1>1, <1>2 DEF Inv, TypeOK
<1> QED BY <1>1, <1>3, <1>4, <1>5 DEF Remembered, Inv, TypeOK

LEMMA NextIdentity ==
  ASSUME Inv, [Next]_vars
  PROVE  QueuedOrHandled' /\ SeenIsPast' /\ ClaimIdentity'
<1>1. /\ QueuedOrHandled /\ SeenIsPast /\ ClaimIdentity
      /\ \A k \in Jobs : serial[k] \in Nat
      /\ Unclaimed.serial = 0
  BY DEF Inv, TypeOK, Unclaimed
<1>2. CASE NoClaim
  <2>1. QueuedOrHandled'
    BY <1>2 DEF NoClaim, MemoryKept, QueuedOrHandled
  <2>2. SeenIsPast'
    <3> SUFFICES ASSUME NEW v \in Workers, NEW k \in Jobs
                 PROVE  seen'[v][k].serial <= serial'[k]
      BY DEF SeenIsPast
    <3>1. seen'[v][k] \in {seen[v][k], Unclaimed} /\ serial' = serial
      BY <1>2 DEF NoClaim, MemoryKept
    <3> QED BY <1>1, <3>1 DEF SeenIsPast
  <2>3. ClaimIdentity'
    <3> SUFFICES ASSUME NEW v \in Workers, NEW k \in Jobs,
                        k \in queued'[v] \cup handling'[v], status'[k] = "RUNNING"
                 PROVE  /\ lockedBy'[k] = v <=> seen'[v][k].serial = serial'[k]
                        /\ lockedBy'[k] = v => seen'[v][k].attempts = attempts'[k]
      BY DEF ClaimIdentity, InMemory
    <3>1. /\ status[k] = "RUNNING" /\ lockedBy'[k] = lockedBy[k]
          /\ attempts'[k] = attempts[k] /\ serial' = serial
      BY <1>2 DEF NoClaim, RunningRowKept
    <3>2. InMemory(v, k) /\ seen'[v][k] = seen[v][k]
      BY <1>2 DEF NoClaim, MemoryKept, InMemory
    <3> QED BY <1>1, <3>1, <3>2 DEF ClaimIdentity
  <2> QED BY <2>1, <2>2, <2>3
<1>3. ASSUME NEW w \in Workers, NEW batch \in SUBSET Jobs, Claim(w, batch)
      PROVE  QueuedOrHandled' /\ SeenIsPast' /\ ClaimIdentity'
  <2>1. /\ queued'[w] = batch /\ handling' = handling /\ handling[w] = {}
        /\ \A v \in Workers \ {w} : queued'[v] = queued[v] /\ seen'[v] = seen[v]
    BY <1>3, ClaimEffect
  <2>2. ASSUME NEW k \in batch
        PROVE  /\ lockedBy'[k] = w
               /\ attempts'[k] = attempts[k] + 1
               /\ serial'[k] = serial[k] + 1
               /\ seen'[w][k] = [attempts |-> attempts[k] + 1, serial |-> serial[k] + 1]
    BY <1>3, ClaimEffect
  <2>3. ASSUME NEW k \in Jobs \ batch
        PROVE  /\ status'[k] = status[k] /\ lockedBy'[k] = lockedBy[k]
               /\ attempts'[k] = attempts[k] /\ serial'[k] = serial[k]
               /\ seen'[w][k] = Unclaimed
    BY <1>3, ClaimEffect
  <2>4. QueuedOrHandled'
    BY <1>1, <2>1 DEF QueuedOrHandled
  <2>5. SeenIsPast'
    <3> SUFFICES ASSUME NEW v \in Workers, NEW k \in Jobs
                 PROVE  seen'[v][k].serial <= serial'[k]
      BY DEF SeenIsPast
    <3>1. serial'[k] \in {serial[k], serial[k] + 1}
      BY <2>2, <2>3
    <3>2. CASE v = w
      <4>1. CASE k \in batch
        <5>1. /\ serial'[k] = serial[k] + 1
              /\ seen'[w][k] = [attempts |-> attempts[k] + 1, serial |-> serial[k] + 1]
          BY <4>1, <2>2
        <5> QED BY <1>1, <3>2, <5>1
      <4>2. CASE k \notin batch
        BY <1>1, <3>1, <3>2, <4>2, <2>3
      <4> QED BY <4>1, <4>2
    <3>3. CASE v # w
      <4>1. seen'[v][k] = seen[v][k]
        BY <3>3, <2>1
      <4>2. seen[v][k].serial <= serial[k] /\ seen[v][k].serial \in Nat
        BY <1>1 DEF SeenIsPast, Inv, TypeOK
      <4> QED BY <1>1, <3>1, <4>1, <4>2
    <3> QED BY <3>2, <3>3
  <2>6. ClaimIdentity'
    <3> SUFFICES ASSUME NEW v \in Workers, NEW k \in Jobs,
                        k \in queued'[v] \cup handling'[v], status'[k] = "RUNNING"
                 PROVE  /\ lockedBy'[k] = v <=> seen'[v][k].serial = serial'[k]
                        /\ lockedBy'[k] = v => seen'[v][k].attempts = attempts'[k]
      BY DEF ClaimIdentity, InMemory
    <3>1. CASE v = w
      <4>1. k \in batch
        BY <3>1, <2>1
      <4>2. /\ lockedBy'[k] = w /\ attempts'[k] = attempts[k] + 1
            /\ serial'[k] = serial[k] + 1
            /\ seen'[w][k] = [attempts |-> attempts[k] + 1, serial |-> serial[k] + 1]
        BY <4>1, <2>2
      <4> QED BY <3>1, <4>2
    <3>2. CASE v # w
      <4>1. InMemory(v, k) /\ seen'[v][k] = seen[v][k]
        BY <3>2, <2>1 DEF InMemory
      <4>2. CASE k \in batch
        <5>1. lockedBy'[k] = w /\ serial'[k] = serial[k] + 1
          BY <4>2, <2>2
        <5>2. seen[v][k].serial <= serial[k] /\ seen[v][k].serial \in Nat
          BY <1>1 DEF SeenIsPast, Inv, TypeOK
        <5> QED BY <1>1, <3>2, <4>1, <5>1, <5>2
      <4>3. CASE k \notin batch
        <5>1. /\ status'[k] = status[k] /\ lockedBy'[k] = lockedBy[k]
              /\ attempts'[k] = attempts[k] /\ serial'[k] = serial[k]
          BY <4>3, <2>3
        <5> QED BY <1>1, <4>1, <5>1 DEF ClaimIdentity
      <4> QED BY <4>2, <4>3
    <3> QED BY <3>1, <3>2
  <2> QED BY <2>4, <2>5, <2>6
<1> QED BY <1>2, <1>3, ClaimOrNoClaim

(* The relation between rows and claims is an invariant of the queue.      *)
THEOREM Invariance == Spec => []Inv
<1>1. Inv /\ [Next]_vars => Inv'
  BY NextTypeOK, NextLaneBound, NextRunningWasClaimed, NextIdentity DEF Inv
<1> QED BY InitInv, <1>1, PTL DEF Spec

-----------------------------------------------------------------------------
(* Every column, batch and counter keeps its type; in particular the       *)
(* attempts of a row stay natural numbers, although a deferral takes one   *)
(* back, and no lane of a batch stops twice.                               *)
THEOREM TypeCorrect == Spec => []TypeOK
<1>1. Inv => TypeOK
  BY DEF Inv
<1> QED BY Invariance, <1>1, PTL

(* The newest claim of a running job can settle it while its lock is       *)
(* fresh, whatever was claimed, deferred, retried or lost before.          *)
THEOREM NewestClaimSettles == Spec => []NewestClaimCanSettle
<1>1. Inv => NewestClaimCanSettle
  <2> SUFFICES ASSUME Inv, NEW w \in Workers, NEW j \in Jobs,
                      IsNewest(w, j), status[j] = "RUNNING", ~expired[j]
               PROVE  MaySettle(w, j)
    BY DEF NewestClaimCanSettle
  <2>1. lockedBy[j] = w /\ seen[w][j].attempts = attempts[j]
    BY DEF Inv, ClaimIdentity, IsNewest
  <2>2. Kind[j] \in Kinds
    BY JobAssumption
  <2> QED BY <2>1, <2>2 DEF MaySettle, HoldsAttempt, HoldsLock, Kinds
<1> QED BY Invariance, <1>1, PTL

(* A handler that changes the row of a fenced job is of its newest claim.  *)
LEMMA SettledByNewest ==
  ASSUME Inv, NEW w \in Workers, NEW j \in Jobs, NEW outcome \in Status,
         j \in handling[w], Settle(w, j, outcome), LeaveHandler(w, j),
         NEW k \in Jobs, Fenced(k), status'[k] # status[k]
  PROVE  k \in handling[w] \ handling'[w] /\ IsNewest(w, k)
<1>1. k = j /\ MaySettle(w, j)
  BY SettleEffect
<1>2. status[j] = "RUNNING" /\ lockedBy[j] = w
  BY <1>1 DEF Fenced, MaySettle, HoldsAttempt, HoldsLock
<1>3. InMemory(w, j)
  BY DEF InMemory
<1>4. seen[w][j].serial = serial[j]
  BY <1>2, <1>3 DEF Inv, ClaimIdentity
<1>5. j \notin handling'[w]
  BY DEF LeaveHandler, Inv, TypeOK
<1> QED BY <1>1, <1>3, <1>4, <1>5 DEF IsNewest

LEMMA NextOutcomeIsOfNewest ==
  ASSUME Inv, [Next]_vars, NEW k \in Jobs, Fenced(k),
         status'[k] \in {"COMPLETED", "FAILED"}, status'[k] # status[k]
  PROVE  \E w \in Workers : k \in handling[w] \ handling'[w] /\ IsNewest(w, k)
<1>1. ASSUME NEW batch \in SUBSET Jobs, Enqueue(batch) PROVE FALSE
  BY <1>1 DEF Enqueue, Inv, TypeOK
<1>2. ASSUME NEW w \in Workers, NEW batch \in SUBSET Jobs, Claim(w, batch) PROVE FALSE
  BY <1>2 DEF Claim
<1>3. ASSUME NEW w \in Workers, NEW j \in Jobs, HandlerSucceeds(w, j)
      PROVE  k \in handling[w] \ handling'[w] /\ IsNewest(w, k)
  BY <1>3, SettledByNewest DEF HandlerSucceeds, Status
<1>4. ASSUME NEW w \in Workers, NEW j \in Jobs, NEW revoked \in BOOLEAN,
             HandlerFails(w, j, revoked)
      PROVE  k \in handling[w] \ handling'[w] /\ IsNewest(w, k)
  <2>1. FailureStatus(w, j, revoked) \in Status
    BY DEF FailureStatus, Status
  <2> QED BY <1>4, <2>1, SettledByNewest DEF HandlerFails
<1>5. ASSUME NEW w \in Workers, NEW j \in Jobs, HandlerDefers(w, j)
      PROVE  k \in handling[w] \ handling'[w] /\ IsNewest(w, k)
  BY <1>5, SettledByNewest DEF HandlerDefers, Status
<1>6. ASSUME NEW j \in Jobs, RequestVariantAgain(j) \/ RetryDiagnostic(j) \/ Discard(j)
      PROVE  FALSE
  BY <1>6 DEF RequestVariantAgain, RetryDiagnostic, Discard, Release, Inv, TypeOK
<1>7. ASSUME NEW w \in Workers, NEW j \in Jobs,
             StartHandler(w, j) \/ SettlementThrows(w, j) \/ LockExpires(j) \/ Crash(w)
      PROVE  FALSE
  BY <1>7 DEF StartHandler, SettlementThrows, LockExpires, Crash, row
<1>8. ASSUME NEW w \in Workers, Crash(w) PROVE FALSE
  BY <1>8 DEF Crash, row
<1>9. ASSUME NEW j \in Jobs, LockExpires(j) PROVE FALSE
  BY <1>9 DEF LockExpires
<1>10. CASE UNCHANGED vars
  BY <1>10 DEF vars, row
<1> QED BY <1>1, <1>2, <1>3, <1>4, <1>5, <1>6, <1>7, <1>8, <1>9, <1>10 DEF Next

(* A fenced job gets its outcome from its newest claim only.               *)
THEOREM OutcomeByNewestClaim == Spec => OutcomeIsOfNewestClaim
<1> DEFINE A == \A j \in Jobs :
                  /\ Fenced(j)
                  /\ status'[j] \in {"COMPLETED", "FAILED"}
                  /\ status'[j] # status[j]
                  => \E w \in Workers : /\ j \in handling[w] \ handling'[w]
                                         /\ IsNewest(w, j)
<1>1. Inv /\ [Next]_vars => [A]_vars
  BY NextOutcomeIsOfNewest
<1> HIDE DEF A
<1>2. Spec => [][A]_vars
  BY Invariance, <1>1, PTL DEF Spec
<1> QED BY <1>2 DEF A, OutcomeIsOfNewestClaim

(* What a step may do to a job that has its outcome.                       *)
LEMMA SettledStays ==
  ASSUME Inv, [Next]_vars, NEW k \in Jobs, Once(k), status[k] \in Terminal
  PROVE  status'[k] = status[k] \/ (status[k] = "FAILED" /\ status'[k] = "CANCELLED")
<1> USE DEF Terminal
<1>1. ASSUME NEW batch \in SUBSET Jobs, Enqueue(batch) PROVE status'[k] = status[k]
  BY <1>1 DEF Enqueue, Inv, TypeOK
<1>2. ASSUME NEW w \in Workers, NEW batch \in SUBSET Jobs, Claim(w, batch)
      PROVE  status'[k] = status[k]
  BY <1>2 DEF Claim, Claimable
<1>3. ASSUME NEW w \in Workers, NEW j \in Jobs, NEW outcome \in Status,
             Settle(w, j, outcome)
      PROVE  status'[k] = status[k]
  BY <1>3, SettleEffect DEF Once, MaySettle, HoldsAttempt, HoldsLock
<1>4. ASSUME NEW w \in Workers, NEW j \in Jobs, NEW revoked \in BOOLEAN,
             HandlerFails(w, j, revoked)
      PROVE  status'[k] = status[k]
  <2>1. FailureStatus(w, j, revoked) \in Status
    BY DEF FailureStatus, Status
  <2> QED BY <1>3, <1>4, <2>1 DEF HandlerFails
<1>5. ASSUME NEW w \in Workers, NEW j \in Jobs, HandlerSucceeds(w, j) \/ HandlerDefers(w, j)
      PROVE  status'[k] = status[k]
  BY <1>3, <1>5 DEF HandlerSucceeds, HandlerDefers, Status
<1>6. ASSUME NEW j \in Jobs, RequestVariantAgain(j) \/ RetryDiagnostic(j)
      PROVE  status'[k] = status[k]
  BY <1>6 DEF RequestVariantAgain, RetryDiagnostic, Release, Once, Inv, TypeOK
<1>7. ASSUME NEW j \in Jobs, Discard(j)
      PROVE  status'[k] = status[k] \/ (status[k] = "FAILED" /\ status'[k] = "CANCELLED")
  BY <1>7 DEF Discard, Inv, TypeOK
<1>8. ASSUME NEW w \in Workers, NEW j \in Jobs, StartHandler(w, j) \/ SettlementThrows(w, j)
      PROVE  status'[k] = status[k]
  BY <1>8 DEF StartHandler, SettlementThrows, row
<1>9. ASSUME NEW w \in Workers, Crash(w) PROVE status'[k] = status[k]
  BY <1>9 DEF Crash, row
<1>10. ASSUME NEW j \in Jobs, LockExpires(j) PROVE status'[k] = status[k]
  BY <1>10 DEF LockExpires
<1>11. CASE UNCHANGED vars
  BY <1>11 DEF vars, row
<1> QED
  BY <1>1, <1>2, <1>4, <1>5, <1>6, <1>7, <1>8, <1>9, <1>10, <1>11 DEF Next

(* A fenced job that has its outcome keeps it.                             *)
THEOREM OutcomeStays == Spec => OutcomeIsFinal
<1> DEFINE A == \A j \in Jobs : Once(j) =>
                  /\ status[j] = "COMPLETED" => status'[j] = "COMPLETED"
                  /\ status[j] = "FAILED" => status'[j] \in {"FAILED", "CANCELLED"}
                  /\ status[j] = "CANCELLED" => status'[j] = "CANCELLED"
<1>1. Inv /\ [Next]_vars => [A]_vars
  BY SettledStays DEF Terminal
<1> HIDE DEF A
<1>2. Spec => [][A]_vars
  BY Invariance, <1>1, PTL DEF Spec
<1> QED BY <1>2 DEF A, OutcomeIsFinal

(* A row that was never enqueued was never claimed.                        *)
AbsentWasNotClaimed == \A j \in Jobs : status[j] = "ABSENT" => serial[j] = 0

LEMMA NextPrerequisite ==
  ASSUME Inv, AbsentWasNotClaimed, RanAfterItsPrerequisite, [Next]_vars
  PROVE  AbsentWasNotClaimed' /\ RanAfterItsPrerequisite'
<1>1. ASSUME NEW k \in Jobs, Once(k), status[k] = "COMPLETED" PROVE status'[k] = "COMPLETED"
  BY <1>1, SettledStays DEF Terminal
<1>2. CASE UNCHANGED <<dependsOn, serial>> /\ (\A j \in Jobs : status'[j] = "ABSENT" => status[j] = "ABSENT")
  <2>1. AbsentWasNotClaimed'
    BY <1>2 DEF AbsentWasNotClaimed
  <2>2. \A j \in Jobs : dependsOn[j] # None => dependsOn[j] \in Jobs
    BY DEF Inv, TypeOK
  <2> QED BY <1>1, <1>2, <2>1, <2>2 DEF RanAfterItsPrerequisite
<1>3. ASSUME NEW batch \in SUBSET Jobs, Enqueue(batch) PROVE AbsentWasNotClaimed' /\ RanAfterItsPrerequisite'
  <2> DEFINE new == {j \in batch : status[j] = "ABSENT"}
  <2>1. serial' = serial
    BY <1>3 DEF Enqueue
  <2>2. \A k \in Jobs : status'[k] = "ABSENT" => status[k] = "ABSENT"
    BY <1>3 DEF Enqueue
  <2>3. AbsentWasNotClaimed' /\ \A k \in new : serial[k] = 0
    BY <2>1, <2>2 DEF AbsentWasNotClaimed
  <2>4. \A k \in Jobs \ new : dependsOn'[k] = dependsOn[k]
    BY <1>3 DEF Enqueue
  <2>5. \A k \in Jobs : dependsOn[k] # None => dependsOn[k] \in Jobs
    BY DEF Inv, TypeOK
  <2> HIDE DEF new
  <2>6. \A k \in Jobs : serial'[k] > 0 => k \notin new
    BY <2>1, <2>3
  <2> QED BY <1>1, <2>1, <2>3, <2>4, <2>5, <2>6 DEF RanAfterItsPrerequisite
<1>4. ASSUME NEW w \in Workers, NEW batch \in SUBSET Jobs, Claim(w, batch)
      PROVE  AbsentWasNotClaimed' /\ RanAfterItsPrerequisite'
  <2>1. /\ dependsOn' = dependsOn
        /\ \A k \in batch : Claimable(k) /\ status'[k] = "RUNNING"
        /\ \A k \in Jobs \ batch : status'[k] = status[k] /\ serial'[k] = serial[k]
    BY <1>4 DEF Claim
  <2>2. AbsentWasNotClaimed'
    BY <2>1 DEF AbsentWasNotClaimed
  <2>3. \A k \in Jobs : dependsOn[k] # None => dependsOn[k] \in Jobs
    BY DEF Inv, TypeOK
  <2> QED BY <1>1, <2>1, <2>2, <2>3 DEF RanAfterItsPrerequisite, Claimable
<1>5. ASSUME NEW j \in Jobs,
             RequestVariantAgain(j) \/ RetryDiagnostic(j) \/ Discard(j) \/ LockExpires(j)
      PROVE  /\ UNCHANGED <<dependsOn, serial>>
             /\ \A k \in Jobs : status'[k] = "ABSENT" => status[k] = "ABSENT"
  BY <1>5 DEF RequestVariantAgain, RetryDiagnostic, Discard, LockExpires, Release, Inv, TypeOK
<1>6. ASSUME NEW w \in Workers, NEW j \in Jobs,
             NEW outcome \in {"PENDING", "COMPLETED", "FAILED"}, Settle(w, j, outcome)
      PROVE  /\ UNCHANGED dependsOn
             /\ \A k \in Jobs : status'[k] = "ABSENT" => status[k] = "ABSENT"
  BY <1>6 DEF Settle, Release, Inv, TypeOK
<1>7. ASSUME NEW w \in Workers, NEW j \in Jobs,
             \/ HandlerSucceeds(w, j) \/ HandlerDefers(w, j)
             \/ \E revoked \in BOOLEAN : HandlerFails(w, j, revoked)
      PROVE  /\ UNCHANGED <<dependsOn, serial>>
             /\ \A k \in Jobs : status'[k] = "ABSENT" => status[k] = "ABSENT"
  <2>1. PICK outcome \in {"PENDING", "COMPLETED", "FAILED"} :
          Settle(w, j, outcome) /\ serial' = serial
    BY <1>7 DEF HandlerSucceeds, HandlerFails, HandlerDefers, FailureStatus
  <2> QED BY <1>6, <2>1
<1>8. ASSUME NEW w \in Workers, NEW j \in Jobs, StartHandler(w, j) \/ SettlementThrows(w, j)
      PROVE  UNCHANGED <<row, serial>>
  BY <1>8 DEF StartHandler, SettlementThrows
<1>9. ASSUME NEW w \in Workers, Crash(w) PROVE UNCHANGED <<row, serial>>
  BY <1>9 DEF Crash
<1>10. UNCHANGED vars => UNCHANGED <<row, serial>>
  BY DEF vars
<1>11. UNCHANGED <<row, serial>> => /\ UNCHANGED <<dependsOn, serial>>
                                   /\ \A k \in Jobs : status'[k] = "ABSENT" => status[k] = "ABSENT"
  BY DEF row
<1> QED
  BY <1>2, <1>3, <1>4, <1>5, <1>7, <1>8, <1>9, <1>10, <1>11 DEF Next

(* A job has run only after its prerequisite, which stays completed.       *)
THEOREM ChainOrder == Spec => []RanAfterItsPrerequisite
<1>1. Init => AbsentWasNotClaimed /\ RanAfterItsPrerequisite
  BY DEF Init, AbsentWasNotClaimed, RanAfterItsPrerequisite
<1>2. /\ Inv /\ AbsentWasNotClaimed /\ RanAfterItsPrerequisite /\ [Next]_vars
      => AbsentWasNotClaimed' /\ RanAfterItsPrerequisite'
  BY NextPrerequisite
<1> QED BY Invariance, <1>1, <1>2, PTL DEF Spec

-----------------------------------------------------------------------------
(* The retry limit.  The worker that the row names holds the last attempt  *)
(* that was spent, so if it puts the row back there is one left.  Any      *)
(* other worker that has the job in memory is late, and became so by a     *)
(* fault; a late worker of a plain job may put the row back as well, and   *)
(* each of them is counted against the faults, as is a row that is         *)
(* claimable or will be since nobody holds it.                             *)
Current(w, j) == status[j] = "RUNNING" /\ lockedBy[j] = w /\ ~expired[j]

Late(j) ==
  {w \in Workers : /\ InMemory(w, j)
                   /\ seen[w][j].attempts < MaxAttempts
                   /\ ~Current(w, j)}

Owed(j) ==
  IF \/ status[j] \in {"ABSENT", "PENDING"}
     \/ status[j] = "RUNNING" /\ (expired[j] \/ Abandoned(j))
    THEN 1
    ELSE 0

RetryBudget(j) ==
  /\ IsFiniteSet(Late(j))
  /\ Cardinality(Late(j)) <= faults
  /\ attempts[j] + Cardinality(Late(j)) + Owed(j) <= MaxAttempts + faults

(* A plain job is never refunded an attempt, so no claim of it remembers   *)
(* more than the row shows.                                                *)
SeenIsSpent ==
  \A w \in Workers, j \in Jobs :
    Kind[j] = "plain" /\ InMemory(w, j) => seen[w][j].attempts <= attempts[j]

(* A set from which one element is taken, to which one is added, or both.  *)
LEMMA OneMoreOrLess ==
  ASSUME NEW S, NEW T, IsFiniteSet(S)
  PROVE  /\ Cardinality(S) \in Nat
         /\ T \subseteq S => IsFiniteSet(T) /\ Cardinality(T) \in Nat /\ Cardinality(T) <= Cardinality(S)
         /\ \A x \in S : T \subseteq S \ {x} =>
              IsFiniteSet(T) /\ Cardinality(T) \in Nat /\ Cardinality(T) <= Cardinality(S) - 1
         /\ \A x : T \subseteq S \cup {x} =>
              IsFiniteSet(T) /\ Cardinality(T) \in Nat /\ Cardinality(T) <= Cardinality(S) + 1
         /\ \A x \in S : \A y : T \subseteq (S \ {x}) \cup {y} =>
              IsFiniteSet(T) /\ Cardinality(T) \in Nat /\ Cardinality(T) <= Cardinality(S)
<1>1. Cardinality(S) \in Nat
  BY FS_CardinalityType
<1>2. ASSUME NEW U, IsFiniteSet(U), T \subseteq U
      PROVE  IsFiniteSet(T) /\ Cardinality(T) \in Nat /\ Cardinality(T) <= Cardinality(U)
  BY <1>2, FS_Subset, FS_CardinalityType
<1>3. ASSUME NEW x \in S
      PROVE  IsFiniteSet(S \ {x}) /\ Cardinality(S \ {x}) = Cardinality(S) - 1
  BY <1>3, FS_RemoveElement
<1>4. ASSUME NEW U, IsFiniteSet(U), NEW y
      PROVE  /\ IsFiniteSet(U \cup {y}) /\ Cardinality(U \cup {y}) \in Nat /\ Cardinality(U) \in Nat
             /\ Cardinality(U \cup {y}) <= Cardinality(U) + 1
  <2>1. Cardinality(U) \in Nat
    BY <1>4, FS_CardinalityType
  <2>2. /\ IsFiniteSet(U \cup {y})
        /\ Cardinality(U \cup {y}) = IF y \in U THEN Cardinality(U) ELSE Cardinality(U) + 1
    BY <1>4, FS_AddElement
  <2> QED BY <2>1, <2>2
<1>5. ASSUME NEW x \in S, T \subseteq S \ {x}
      PROVE  IsFiniteSet(T) /\ Cardinality(T) \in Nat /\ Cardinality(T) <= Cardinality(S) - 1
  BY <1>2, <1>3, <1>5
<1>6. ASSUME NEW y, T \subseteq S \cup {y}
      PROVE  IsFiniteSet(T) /\ Cardinality(T) \in Nat /\ Cardinality(T) <= Cardinality(S) + 1
  <2>1. IsFiniteSet(T) /\ Cardinality(T) \in Nat /\ Cardinality(T) <= Cardinality(S \cup {y})
    BY <1>2, <1>4, <1>6
  <2>2. Cardinality(S \cup {y}) \in Nat /\ Cardinality(S \cup {y}) <= Cardinality(S) + 1
    BY <1>4
  <2> QED BY <1>1, <2>1, <2>2
<1>7. ASSUME NEW x \in S, NEW y, T \subseteq (S \ {x}) \cup {y}
      PROVE  IsFiniteSet(T) /\ Cardinality(T) \in Nat /\ Cardinality(T) <= Cardinality(S)
  <2>1. /\ IsFiniteSet((S \ {x}) \cup {y}) /\ Cardinality((S \ {x}) \cup {y}) \in Nat
        /\ Cardinality((S \ {x}) \cup {y}) <= Cardinality(S \ {x}) + 1
    BY <1>3, <1>4
  <2>2. IsFiniteSet(T) /\ Cardinality(T) \in Nat /\ Cardinality(T) <= Cardinality((S \ {x}) \cup {y})
    BY <1>2, <1>7, <2>1
  <2> QED BY <1>1, <1>3, <2>1, <2>2
<1> QED BY <1>1, <1>2, <1>5, <1>6, <1>7

(* The arithmetic of the budget: limit M, and before and after a step the  *)
(* attempts a and b, late workers n and m, what is owed o and p, and the   *)
(* faults f and g.                                                         *)
LEMMA RetryArithmetic ==
  ASSUME NEW M \in Nat \ {0}, NEW a \in Nat, NEW b \in Nat, NEW n \in Nat, NEW m \in Nat,
         NEW o \in {0, 1}, NEW p \in {0, 1}, NEW f \in Nat, NEW g \in Nat,
         n <= f, a + n + o <= M + f,
         \/ g = f /\ b = a /\ p <= o /\ m <= n
         \/ g = f + 1 /\ b <= a /\ m <= n
         \/ g = f + 1 /\ b = a /\ a < M /\ m <= n + 1
         \/ g = f /\ b = a /\ a < M /\ m <= n
         \/ g = f /\ b = a /\ m <= n - 1
         \/ g = f /\ b = a + 1 /\ o = 1 /\ p = 0 /\ m <= n
  PROVE  m <= g /\ b + m + p <= M + g
OBVIOUS

(* The ways in which a step keeps the budget of a job.                     *)
LEMMA RetryBalance ==
  ASSUME Inv, Inv', NEW k \in Jobs, RetryBudget(k),
         \/ /\ faults' = faults /\ attempts'[k] = attempts[k]
            /\ Owed(k)' <= Owed(k) /\ Late(k)' \subseteq Late(k)
         \/ /\ faults' = faults + 1 /\ attempts'[k] <= attempts[k]
            /\ Late(k)' \subseteq Late(k)
         \/ /\ faults' = faults + 1 /\ attempts'[k] = attempts[k] /\ attempts[k] < MaxAttempts
            /\ \E w : Late(k)' \subseteq Late(k) \cup {w}
         \/ /\ faults' = faults /\ attempts'[k] = attempts[k] /\ attempts[k] < MaxAttempts
            /\ Late(k)' \subseteq Late(k)
         \/ /\ faults' = faults /\ attempts'[k] = attempts[k]
            /\ \E w \in Late(k) :
                 \/ Late(k)' \subseteq Late(k) \ {w}
                 \/ /\ attempts[k] < MaxAttempts \/ Owed(k)' <= Owed(k)
                    /\ \E u : Late(k)' \subseteq (Late(k) \ {w}) \cup {u}
         \/ /\ faults' = faults /\ attempts'[k] = attempts[k] + 1
            /\ Owed(k) = 1 /\ Owed(k)' = 0 /\ Late(k)' \subseteq Late(k)
  PROVE  RetryBudget(k)'
<1> DEFINE n == Cardinality(Late(k))
           o == Owed(k)
           a == attempts[k]
<1>1. /\ IsFiniteSet(Late(k)) /\ n <= faults /\ a + n + o <= MaxAttempts + faults
  BY DEF RetryBudget
<1>2. /\ n \in Nat /\ o \in {0, 1} /\ o' \in {0, 1} /\ a \in Nat /\ a' \in Nat
      /\ faults \in Nat /\ faults' \in Nat /\ MaxAttempts \in Nat \ {0}
  BY <1>1, FS_CardinalityType, BoundAssumption DEF Inv, TypeOK, Owed
<1>3. /\ Late(k)' \subseteq Late(k) => IsFiniteSet(Late(k)') /\ n' \in Nat /\ n' <= n
      /\ \A w \in Late(k) : Late(k)' \subseteq Late(k) \ {w} =>
           IsFiniteSet(Late(k)') /\ n' \in Nat /\ n' <= n - 1
      /\ \A w : Late(k)' \subseteq Late(k) \cup {w} =>
           IsFiniteSet(Late(k)') /\ n' \in Nat /\ n' <= n + 1
      /\ \A w \in Late(k) : \A u : Late(k)' \subseteq (Late(k) \ {w}) \cup {u} =>
           IsFiniteSet(Late(k)') /\ n' \in Nat /\ n' <= n
  BY <1>1, OneMoreOrLess
<1>4. /\ IsFiniteSet(Late(k)') /\ n' \in Nat
      /\ \/ faults' = faults /\ a' = a /\ o' <= o /\ n' <= n
         \/ faults' = faults + 1 /\ a' <= a /\ n' <= n
         \/ faults' = faults + 1 /\ a' = a /\ a < MaxAttempts /\ n' <= n + 1
         \/ faults' = faults /\ a' = a /\ a < MaxAttempts /\ n' <= n
         \/ faults' = faults /\ a' = a /\ n' <= n - 1
         \/ faults' = faults /\ a' = a + 1 /\ o = 1 /\ o' = 0 /\ n' <= n
  BY <1>3
<1>5. n' <= faults' /\ a' + n' + o' <= MaxAttempts + faults'
  BY <1>1, <1>2, <1>4, RetryArithmetic
<1> QED BY <1>4, <1>5 DEF RetryBudget

(* A step that leaves the row of a job alone, and drops it from no memory  *)
(* unless that is a fault.                                                 *)
LEMMA RetryElsewhere ==
  ASSUME Inv, Inv', NEW k \in Jobs, RetryBudget(k),
         status'[k] = status[k], attempts'[k] = attempts[k],
         lockedBy'[k] = lockedBy[k], expired'[k] = expired[k],
         \A v \in Workers :
           k \in queued'[v] \cup handling'[v] =>
             k \in queued[v] \cup handling[v] /\ seen'[v][k] = seen[v][k],
         \/ faults' = faults + 1
         \/ /\ faults' = faults
            /\ \A v \in Workers :
                 k \in queued[v] \cup handling[v] => k \in queued'[v] \cup handling'[v]
  PROVE  RetryBudget(k)'
<1>1. Late(k)' \subseteq Late(k)
  BY DEF Late, InMemory, Current
<1>2. attempts'[k] <= attempts[k]
  BY DEF Inv, TypeOK
<1>3. CASE faults' = faults + 1
  BY <1>1, <1>2, <1>3, RetryBalance
<1>4. CASE /\ faults' = faults
           /\ \A v \in Workers :
                k \in queued[v] \cup handling[v] => k \in queued'[v] \cup handling'[v]
  <2>1. Abandoned(k)' <=> Abandoned(k)
    BY <1>4 DEF Abandoned, InMemory
  <2>2. Owed(k)' <= Owed(k)
    BY <2>1 DEF Owed
  <2> QED BY <1>1, <1>4, <2>2, RetryBalance
<1> QED BY <1>3, <1>4

(* The row as its current worker left it.                                  *)
LEMMA CurrentAttempts ==
  ASSUME Inv, NEW u \in Workers, NEW k \in Jobs, InMemory(u, k), Current(u, k)
  PROVE  seen[u][k].attempts = attempts[k] /\ attempts[k] \in Nat
BY DEF Inv, TypeOK, ClaimIdentity, Current

(* A claim is settled by whoever may.                                      *)
LEMMA RetrySettled ==
  ASSUME Inv, Inv', SeenIsSpent, NEW w \in Workers, NEW k \in Jobs, RetryBudget(k),
         k \in handling[w], NEW outcome \in {"PENDING", "COMPLETED", "FAILED"},
         outcome = "PENDING" => seen[w][k].attempts < MaxAttempts,
         Settle(w, k, outcome), LeaveHandler(w, k), UNCHANGED <<attempts, faults>>
  PROVE  RetryBudget(k)'
<1>t. TypeOK
  BY DEF Inv
<1>1. /\ InMemory(w, k)
      /\ \A v \in Workers \ {w} : /\ InMemory(v, k)' <=> InMemory(v, k)
                                  /\ seen'[v][k] = seen[v][k]
      /\ ~ InMemory(w, k)'
  BY <1>t DEF LeaveHandler, InMemory, TypeOK, Inv, QueuedOrHandled
<1>2. CASE ~ MaySettle(w, k)
  <2>1. UNCHANGED <<status, lockedBy, expired>>
    BY <1>2 DEF Settle
  <2>2. ~ Current(w, k)
    <3> SUFFICES ASSUME Current(w, k) PROVE MaySettle(w, k)
      BY <1>2
    <3>1. seen[w][k].attempts = attempts[k]
      BY <1>1, CurrentAttempts
    <3>2. Kind[k] \in Kinds
      BY JobAssumption
    <3> QED BY <3>1, <3>2 DEF MaySettle, HoldsAttempt, HoldsLock, Current, Kinds
  <2>3. Late(k)' \subseteq Late(k)
    BY <1>1, <2>1 DEF Late, Current
  <2>4. Owed(k)' <= Owed(k)
    <3>1. status[k] = "RUNNING" /\ ~expired[k] => (Abandoned(k)' <=> Abandoned(k))
      BY <1>1, <2>1, <2>2 DEF Abandoned, Current
    <3> QED BY <2>1, <3>1 DEF Owed
  <2> QED BY <2>3, <2>4, RetryBalance
<1>3. CASE MaySettle(w, k)
  <2>1. status'[k] = outcome
    BY <1>3, <1>t DEF Settle, Release, TypeOK
  <2>2. outcome # "PENDING" => Owed(k)' <= Owed(k)
    BY <2>1 DEF Owed
  <2>3. Late(k)' \subseteq Late(k) \cup {v \in Workers : Current(v, k)}
    BY <1>1 DEF Late
  <2>4. w \notin Late(k)'
    BY <1>1 DEF Late
  <2>5. CASE Current(w, k)
    <3>1. Late(k)' \subseteq Late(k)
      BY <2>3, <2>4, <2>5 DEF Current
    <3>2. outcome = "PENDING" => attempts[k] < MaxAttempts
      BY <1>1, <2>5, CurrentAttempts
    <3> QED BY <2>2, <3>1, <3>2, RetryBalance
  <2>6. ASSUME NEW u \in Workers \ {w}, InMemory(u, k), Current(u, k),
               seen[u][k].attempts < MaxAttempts
        PROVE  RetryBudget(k)'
    <3>1. Kind[k] = "plain"
      BY <1>3, <2>6 DEF MaySettle, HoldsAttempt, HoldsLock, Current
    <3>2. seen[w][k].attempts <= attempts[k] /\ attempts[k] < MaxAttempts
      BY <1>1, <2>6, <3>1, CurrentAttempts DEF SeenIsSpent
    <3>3. seen[w][k].attempts \in Nat /\ attempts[k] \in Nat /\ MaxAttempts \in Nat
      BY <1>t, BoundAssumption DEF TypeOK
    <3>4. w \in Late(k)
      BY <1>1, <2>6, <3>2, <3>3 DEF Late, Current
    <3>5. Late(k)' \subseteq (Late(k) \ {w}) \cup {u}
      BY <2>3, <2>4, <2>6 DEF Current
    <3> QED BY <3>2, <3>4, <3>5, RetryBalance
  <2>7. CASE /\ ~ Current(w, k)
             /\ \A u \in Workers \ {w} :
                  InMemory(u, k) /\ Current(u, k) => ~(seen[u][k].attempts < MaxAttempts)
    <3>1. Late(k)' \subseteq Late(k) \ {w}
      BY <1>1, <2>4, <2>7 DEF Late
    <3>2. CASE outcome = "PENDING"
      <4>1. w \in Late(k)
        BY <1>1, <2>7, <3>2 DEF Late
      <4> QED BY <3>1, <4>1, RetryBalance
    <3>3. CASE outcome # "PENDING"
      BY <2>2, <3>1, <3>3, RetryBalance
    <3> QED BY <3>2, <3>3
  <2> QED BY <2>5, <2>6, <2>7
<1> QED BY <1>2, <1>3

LEMMA RetryStep ==
  ASSUME Inv, Inv', SeenIsSpent, [Next]_vars, NEW k \in Jobs, RetryBudget(k)
  PROVE  RetryBudget(k)'
<1>t. TypeOK
  BY DEF Inv
<1>1. CASE UNCHANGED vars
  BY <1>1, RetryElsewhere DEF vars, row, memory
<1>2. ASSUME NEW batch \in SUBSET Jobs, Enqueue(batch) PROVE RetryBudget(k)'
  <2>1. /\ UNCHANGED <<attempts, lockedBy, expired, queued, handling, seen, faults>>
        /\ status'[k] = status[k] \/ (status[k] = "ABSENT" /\ status'[k] = "PENDING")
    BY <1>2, <1>t DEF Enqueue, memory, TypeOK
  <2>2. Late(k)' \subseteq Late(k)
    BY <2>1 DEF Late, InMemory, Current
  <2>3. Owed(k)' <= Owed(k)
    BY <2>1 DEF Owed, Abandoned, InMemory
  <2> QED BY <2>1, <2>2, <2>3, RetryBalance
<1>3. ASSUME NEW w \in Workers, NEW batch \in SUBSET Jobs, Claim(w, batch)
      PROVE  RetryBudget(k)'
  <2>1. /\ queued[w] = {} /\ handling[w] = {}
        /\ queued'[w] = batch /\ handling' = handling
        /\ \A v \in Workers \ {w} : queued'[v] = queued[v] /\ seen'[v] = seen[v]
    BY <1>3, <1>t DEF Claim, TypeOK
  <2>2. faults' = faults
    BY <1>3 DEF Claim
  <2>3. CASE k \in batch
    <3>1. /\ status'[k] = "RUNNING" /\ lockedBy'[k] = w
          /\ attempts'[k] = attempts[k] + 1
      BY <1>3, <2>3 DEF Claim
    <3>2. ~ expired'[k]
      BY <1>3, <1>t, <2>3 DEF Claim, TypeOK
    <3>3. status[k] = "PENDING" \/ (status[k] = "RUNNING" /\ expired[k])
      BY <1>3, <2>3 DEF Claim, Claimable
    <3>4. Owed(k) = 1
      BY <3>3 DEF Owed
    <3>5. ~ Abandoned(k)'
      BY <2>1, <2>3, <3>1 DEF Abandoned, InMemory
    <3>6. Owed(k)' = 0
      BY <3>1, <3>2, <3>5 DEF Owed
    <3>7. Late(k)' \subseteq Late(k)
      BY <2>1, <3>1, <3>2, <3>3 DEF Late, Current, InMemory
    <3> QED BY <2>2, <3>1, <3>4, <3>6, <3>7, RetryBalance
  <2>4. CASE k \notin batch
    <3>1. status'[k] = status[k] /\ lockedBy'[k] = lockedBy[k] /\ attempts'[k] = attempts[k]
      BY <1>3, <2>4, ClaimEffect
    <3>2. expired'[k] = expired[k]
      BY <1>3, <1>t, <2>4 DEF Claim, TypeOK
    <3>3. \A v \in Workers : /\ k \in queued'[v] \cup handling'[v]
                                 <=> k \in queued[v] \cup handling[v]
                             /\ v # w => seen'[v] = seen[v]
      BY <2>1, <2>4
    <3>4. k \notin queued[w] \cup handling[w]
      BY <2>1
    <3> QED BY <2>2, <3>1, <3>2, <3>3, <3>4, RetryElsewhere
  <2> QED BY <2>3, <2>4
<1>4. ASSUME NEW w \in Workers, NEW j \in Jobs, StartHandler(w, j) PROVE RetryBudget(k)'
  <2>1. /\ UNCHANGED <<status, attempts, lockedBy, expired, seen, faults>>
        /\ \A v \in Workers : k \in queued'[v] \cup handling'[v]
                                <=> k \in queued[v] \cup handling[v]
    BY <1>4, <1>t DEF StartHandler, row, TypeOK
  <2> QED BY <2>1, RetryElsewhere
<1>5. ASSUME NEW w \in Workers, NEW j \in Jobs, j \in handling[w],
             NEW outcome \in {"PENDING", "COMPLETED", "FAILED"},
             outcome = "PENDING" => seen[w][j].attempts < MaxAttempts,
             Settle(w, j, outcome), LeaveHandler(w, j), UNCHANGED <<attempts, faults>>
      PROVE  RetryBudget(k)'
  <2>1. CASE j = k
    BY <1>5, <2>1, RetrySettled
  <2>2. CASE j # k
    <3>1. status'[k] = status[k] /\ lockedBy'[k] = lockedBy[k] /\ expired'[k] = expired[k]
      BY <1>5, <1>t, <2>2 DEF Settle, Release, TypeOK
    <3>2. \A v \in Workers : /\ k \in queued'[v] \cup handling'[v]
                                 <=> k \in queued[v] \cup handling[v]
                             /\ seen'[v][k] = seen[v][k]
      BY <1>5, <1>t, <2>2 DEF LeaveHandler, TypeOK
    <3> QED BY <1>5, <3>1, <3>2, RetryElsewhere
  <2> QED BY <2>1, <2>2
<1>6. ASSUME NEW w \in Workers, NEW j \in Jobs, HandlerSucceeds(w, j) PROVE RetryBudget(k)'
  BY <1>5, <1>6 DEF HandlerSucceeds
<1>7. ASSUME NEW w \in Workers, NEW j \in Jobs, NEW revoked \in BOOLEAN,
             HandlerFails(w, j, revoked)
      PROVE  RetryBudget(k)'
  <2>1. /\ FailureStatus(w, j, revoked) \in {"PENDING", "COMPLETED", "FAILED"}
        /\ FailureStatus(w, j, revoked) = "PENDING" => ~(seen[w][j].attempts >= MaxAttempts)
    BY DEF FailureStatus
  <2>2. seen[w][j].attempts \in Nat /\ MaxAttempts \in Nat
    BY <1>t, BoundAssumption DEF TypeOK
  <2>3. FailureStatus(w, j, revoked) = "PENDING" => seen[w][j].attempts < MaxAttempts
    BY <2>1, <2>2
  <2> QED BY <1>5, <1>7, <2>1, <2>3 DEF HandlerFails
<1>8. ASSUME NEW w \in Workers, NEW j \in Jobs, HandlerDefers(w, j) PROVE RetryBudget(k)'
  <2>1. /\ j \in handling[w] /\ Settle(w, j, "PENDING") /\ LeaveHandler(w, j)
        /\ faults' = faults + 1
        /\ attempts' = [attempts EXCEPT ![j] = IF MaySettle(w, j) THEN @ - 1 ELSE @]
        /\ Kind[j] = "maintenance"
    BY <1>8 DEF HandlerDefers, Fault
  <2>2. attempts'[k] <= attempts[k]
    BY <1>t, <2>1 DEF TypeOK
  <2>3. \A v \in Workers : InMemory(v, k)' => InMemory(v, k) /\ seen'[v][k] = seen[v][k]
    BY <1>t, <2>1 DEF LeaveHandler, InMemory, TypeOK, Inv, QueuedOrHandled
  <2>4. CASE j = k /\ MaySettle(w, j)
    <3>1. Current(w, k) /\ ~ InMemory(w, k)'
      BY <1>t, <2>1, <2>4
         DEF MaySettle, HoldsAttempt, HoldsLock, Current, LeaveHandler, InMemory, TypeOK,
             Inv, QueuedOrHandled
    <3>2. Late(k)' \subseteq Late(k)
      BY <2>3, <3>1 DEF Late, Current
    <3> QED BY <2>1, <2>2, <3>2, RetryBalance
  <2>5. CASE j # k \/ ~ MaySettle(w, j)
    <3>1. status'[k] = status[k] /\ lockedBy'[k] = lockedBy[k] /\ expired'[k] = expired[k]
      BY <1>t, <2>1, <2>5 DEF Settle, Release, TypeOK
    <3>2. Late(k)' \subseteq Late(k)
      BY <2>3, <3>1 DEF Late, Current
    <3> QED BY <2>1, <2>2, <3>2, RetryBalance
  <2> QED BY <2>4, <2>5
<1>9. ASSUME NEW w \in Workers, NEW j \in Jobs, SettlementThrows(w, j) PROVE RetryBudget(k)'
  <2>1. UNCHANGED <<status, attempts, lockedBy, expired>> /\ faults' = faults + 1
    BY <1>9 DEF SettlementThrows, row, Fault
  <2>2. \A v \in Workers :
          k \in queued'[v] \cup handling'[v] =>
            k \in queued[v] \cup handling[v] /\ seen'[v][k] = seen[v][k]
    BY <1>9, <1>t DEF SettlementThrows, TypeOK, Inv, QueuedOrHandled
  <2> QED BY <2>1, <2>2, RetryElsewhere
<1>10. ASSUME NEW w \in Workers, Crash(w) PROVE RetryBudget(k)'
  <2>1. UNCHANGED <<status, attempts, lockedBy, expired>> /\ faults' = faults + 1
    BY <1>10 DEF Crash, row, Fault
  <2>2. \A v \in Workers :
          k \in queued'[v] \cup handling'[v] =>
            k \in queued[v] \cup handling[v] /\ seen'[v][k] = seen[v][k]
    BY <1>10, <1>t DEF Crash, TypeOK
  <2> QED BY <2>1, <2>2, RetryElsewhere
<1>11. ASSUME NEW j \in Jobs, LockExpires(j) PROVE RetryBudget(k)'
  <2>1. /\ UNCHANGED <<status, attempts, lockedBy, queued, handling, seen>>
        /\ status[j] = "RUNNING" /\ ~expired[j] /\ expired' = [expired EXCEPT ![j] = TRUE]
    BY <1>11 DEF LockExpires, memory
  <2>2. CASE j # k
    <3>1. expired'[k] = expired[k] /\ (faults' = faults \/ faults' = faults + 1)
      BY <1>11, <1>t, <2>1, <2>2 DEF LockExpires, Fault, TypeOK
    <3> QED BY <2>1, <3>1, RetryElsewhere
  <2>3. CASE j = k /\ Abandoned(j) /\ faults' = faults
    <3>1. Late(k)' \subseteq Late(k)
      BY <2>1, <2>3 DEF Late, Current, InMemory, Abandoned
    <3>2. Owed(k) = 1 /\ Owed(k)' <= Owed(k)
      BY <2>1, <2>3 DEF Owed
    <3> QED BY <2>1, <2>3, <3>1, <3>2, RetryBalance
  <2>4. CASE j = k /\ faults' = faults + 1
    <3>1. ASSUME NEW u \in Workers, InMemory(u, k), Current(u, k),
                 seen[u][k].attempts < MaxAttempts
          PROVE  RetryBudget(k)'
      <4>1. attempts[k] < MaxAttempts
        BY <3>1, CurrentAttempts
      <4>2. Late(k)' \subseteq Late(k) \cup {u}
        BY <2>1, <3>1 DEF Late, Current, InMemory
      <4> QED BY <2>1, <2>4, <4>1, <4>2, RetryBalance
    <3>2. CASE \A u \in Workers : InMemory(u, k) /\ Current(u, k)
                 => ~(seen[u][k].attempts < MaxAttempts)
      <4>1. Late(k)' \subseteq Late(k)
        BY <2>1, <3>2 DEF Late, InMemory
      <4>2. attempts'[k] <= attempts[k]
        BY <1>t, <2>1 DEF TypeOK
      <4> QED BY <2>4, <4>1, <4>2, RetryBalance
    <3> QED BY <3>1, <3>2
  <2> QED BY <1>11, <2>2, <2>3, <2>4 DEF LockExpires, Fault
<1>12. ASSUME NEW j \in Jobs, RequestVariantAgain(j) \/ RetryDiagnostic(j)
       PROVE  RetryBudget(k)'
  <2>1. /\ UNCHANGED <<attempts, queued, handling, seen>> /\ faults' = faults + 1
        /\ Release(j, "PENDING")
    BY <1>12 DEF RequestVariantAgain, RetryDiagnostic, Fault, memory
  <2>2. attempts'[k] <= attempts[k]
    BY <1>t, <2>1 DEF TypeOK
  <2>3. CASE j # k
    <3>1. status'[k] = status[k] /\ lockedBy'[k] = lockedBy[k] /\ expired'[k] = expired[k]
      BY <1>t, <2>1, <2>3 DEF Release, TypeOK
    <3> QED BY <2>1, <3>1, RetryElsewhere
  <2>4. CASE j = k
    <3>1. ASSUME NEW u \in Workers, InMemory(u, k), Current(u, k),
                 seen[u][k].attempts < MaxAttempts
          PROVE  RetryBudget(k)'
      <4>1. attempts[k] < MaxAttempts
        BY <3>1, CurrentAttempts
      <4>2. Late(k)' \subseteq Late(k) \cup {u}
        BY <2>1, <3>1 DEF Late, Current, InMemory
      <4> QED BY <2>1, <4>1, <4>2, RetryBalance
    <3>2. CASE \A u \in Workers : InMemory(u, k) /\ Current(u, k)
                 => ~(seen[u][k].attempts < MaxAttempts)
      <4>1. Late(k)' \subseteq Late(k)
        BY <2>1, <3>2 DEF Late, InMemory
      <4> QED BY <2>1, <2>2, <4>1, RetryBalance
    <3> QED BY <3>1, <3>2
  <2> QED BY <2>3, <2>4
<1>13. ASSUME NEW j \in Jobs, Discard(j) PROVE RetryBudget(k)'
  <2>1. /\ UNCHANGED <<attempts, lockedBy, expired, queued, handling, seen, faults>>
        /\ status'[k] = status[k] \/ (status[k] = "FAILED" /\ status'[k] = "CANCELLED")
    BY <1>13, <1>t DEF Discard, memory, TypeOK
  <2>2. Late(k)' \subseteq Late(k)
    BY <2>1 DEF Late, InMemory, Current
  <2>3. Owed(k)' <= Owed(k)
    BY <2>1 DEF Owed, Abandoned, InMemory
  <2> QED BY <2>1, <2>2, <2>3, RetryBalance
<1> QED
  BY <1>1, <1>2, <1>3, <1>4, <1>6, <1>7, <1>8, <1>9, <1>10, <1>11, <1>12, <1>13 DEF Next

LEMMA SeenIsSpentStep ==
  ASSUME Inv, SeenIsSpent, [Next]_vars PROVE SeenIsSpent'
<1>t. TypeOK
  BY DEF Inv
<1> SUFFICES ASSUME NEW v \in Workers, NEW k \in Jobs, Kind[k] = "plain", InMemory(v, k)'
             PROVE  seen'[v][k].attempts <= attempts'[k]
  BY DEF SeenIsSpent
<1>1. ASSUME NEW w \in Workers, NEW batch \in SUBSET Jobs, Claim(w, batch)
      PROVE  seen'[v][k].attempts <= attempts'[k]
  <2>1. /\ queued'[w] = batch /\ handling' = handling /\ handling[w] = {}
        /\ \A u \in Workers \ {w} : queued'[u] = queued[u] /\ seen'[u] = seen[u]
    BY <1>1, ClaimEffect
  <2>2. CASE v = w
    <3>1. k \in batch
      BY <2>1, <2>2 DEF InMemory
    <3>2. /\ attempts'[k] = attempts[k] + 1
          /\ seen'[w][k] = [attempts |-> attempts[k] + 1, serial |-> serial[k] + 1]
      BY <1>1, <3>1, ClaimEffect
    <3> QED BY <1>t, <2>2, <3>2 DEF TypeOK
  <2>3. CASE v # w
    <3>1. InMemory(v, k) /\ seen'[v] = seen[v]
      BY <2>1, <2>3 DEF InMemory
    <3>2. seen[v][k].attempts <= attempts[k]
      BY <3>1 DEF SeenIsSpent
    <3>3. attempts'[k] \in {attempts[k], attempts[k] + 1}
      BY <1>1, ClaimEffect
    <3> QED BY <1>t, <3>1, <3>2, <3>3 DEF TypeOK
  <2> QED BY <2>2, <2>3
<1>2. CASE NoClaim
  <2>1. InMemory(v, k) /\ seen'[v][k] = seen[v][k]
    BY <1>2 DEF NoClaim, MemoryKept, InMemory
  <2>2. (\E w \in Workers, batch \in SUBSET Jobs : Claim(w, batch)) \/ attempts'[k] = attempts[k]
    BY <1>t DEF Next, vars, row, memory, Enqueue, StartHandler, HandlerSucceeds, HandlerFails,
       HandlerDefers, SettlementThrows, LockExpires, Crash, RequestVariantAgain,
       RetryDiagnostic, Discard, TypeOK
  <2> QED BY <1>1, <2>1, <2>2 DEF SeenIsSpent
<1> QED BY <1>1, <1>2, ClaimOrNoClaim

(* No job is claimed more often than MAX_ATTEMPTS times, and once more for *)
(* each fault.                                                             *)
THEOREM RetryLimit == Spec => []ExtraAttemptsHaveAFault
<1> DEFINE I == SeenIsSpent /\ \A j \in Jobs : RetryBudget(j)
<1>1. Init => I
  <2> SUFFICES ASSUME Init PROVE I
    OBVIOUS
  <2>1. SeenIsSpent
    BY DEF Init, SeenIsSpent, InMemory
  <2>2. ASSUME NEW j \in Jobs PROVE RetryBudget(j)
    <3>1. Late(j) = {}
      BY <2>2 DEF Init, Late, InMemory
    <3>2. IsFiniteSet(Late(j)) /\ Cardinality(Late(j)) = 0
      BY <3>1, FS_EmptySet
    <3>3. Owed(j) = 1 /\ attempts[j] = 0 /\ faults = 0
      BY <2>2 DEF Init, Owed
    <3> QED BY <3>2, <3>3, BoundAssumption DEF RetryBudget
  <2> QED BY <2>1, <2>2
<1>2. I /\ Inv /\ Inv' /\ [Next]_vars => I'
  BY SeenIsSpentStep, RetryStep
<1>3. I /\ Inv => ExtraAttemptsHaveAFault
  <2> SUFFICES ASSUME Inv, NEW j \in Jobs, RetryBudget(j)
               PROVE  attempts[j] <= MaxAttempts + faults
    BY DEF ExtraAttemptsHaveAFault
  <2>1. Cardinality(Late(j)) \in Nat /\ Owed(j) \in {0, 1}
    BY FS_CardinalityType DEF RetryBudget, Owed
  <2>2. attempts[j] \in Nat /\ faults \in Nat /\ MaxAttempts \in Nat
    BY BoundAssumption DEF Inv, TypeOK
  <2> QED BY <2>1, <2>2 DEF RetryBudget
<1> QED BY <1>1, <1>2, <1>3, Invariance, PTL DEF Spec

-----------------------------------------------------------------------------
(* For the composition: until it is enqueued a job leaves no trace in the  *)
(* table or in the memory of a worker, and its dependency is settled then. *)
Known(k) ==
  \/ status[k] # "ABSENT"
  \/ serial[k] > 0
  \/ \E w \in Workers : InMemory(w, k)

LEMMA KnownStep ==
  ASSUME Inv, NEW k \in Jobs,
         \/ \E w \in Workers, batch \in SUBSET Jobs : Claim(w, batch)
         \/ \E w \in Workers, j \in Jobs :
              \/ StartHandler(w, j) \/ HandlerSucceeds(w, j) \/ SettlementThrows(w, j)
              \/ \E revoked \in BOOLEAN : HandlerFails(w, j, revoked)
         \/ \E j \in Jobs : LockExpires(j) \/ Discard(j)
         \/ \E w \in Workers : Crash(w)
         \/ UNCHANGED vars
  PROVE  /\ dependsOn'[k] = dependsOn[k]
         /\ Known(k)' => Known(k)
         /\ status[k] # "ABSENT" => status'[k] # "ABSENT"
<1>t. TypeOK
  BY DEF Inv
<1> USE DEF Known, InMemory
<1>1. ASSUME NEW w \in Workers, NEW batch \in SUBSET Jobs, Claim(w, batch)
      PROVE  /\ dependsOn' = dependsOn
             /\ Known(k)' => Known(k)
             /\ status[k] # "ABSENT" => status'[k] # "ABSENT"
  <2>1. CASE k \in batch
    BY <1>1, <2>1 DEF Claim, Claimable
  <2>2. CASE k \notin batch
    <3>1. status'[k] = status[k] /\ serial'[k] = serial[k] /\ dependsOn' = dependsOn
      BY <1>1, <2>2 DEF Claim
    <3>2. \A v \in Workers : InMemory(v, k)' => InMemory(v, k)
      BY <1>1, <1>t, <2>2 DEF Claim, TypeOK
    <3> QED BY <3>1, <3>2
  <2> QED BY <2>1, <2>2
<1>2. ASSUME NEW w \in Workers, NEW j \in Jobs,
             \/ StartHandler(w, j) \/ HandlerSucceeds(w, j) \/ SettlementThrows(w, j)
             \/ \E revoked \in BOOLEAN : HandlerFails(w, j, revoked)
      PROVE  /\ dependsOn' = dependsOn
             /\ Known(k)' => Known(k)
             /\ status[k] # "ABSENT" => status'[k] # "ABSENT"
  <2>1. dependsOn' = dependsOn /\ serial' = serial
    BY <1>2 DEF StartHandler, HandlerSucceeds, HandlerFails, SettlementThrows, Settle,
                Release, row
  <2>2. \/ status' = status
        \/ /\ j \in handling[w]
           /\ \E outcome \in {"PENDING", "COMPLETED", "FAILED"} :
                status' = [status EXCEPT ![j] = outcome]
    BY <1>2 DEF StartHandler, HandlerSucceeds, HandlerFails, SettlementThrows, Settle,
                Release, FailureStatus, row
  <2>3. \A v \in Workers : InMemory(v, k)' => InMemory(v, k)
    BY <1>2, <1>t DEF StartHandler, HandlerSucceeds, HandlerFails, SettlementThrows,
                      LeaveHandler, TypeOK
  <2>4. status[k] # "ABSENT" => status'[k] # "ABSENT"
    BY <1>t, <2>2 DEF TypeOK
  <2>5. status'[k] # "ABSENT" => Known(k)
    BY <1>t, <2>2 DEF TypeOK
  <2> QED BY <2>1, <2>3, <2>4, <2>5
<1>3. ASSUME NEW j \in Jobs, LockExpires(j) \/ Discard(j)
      PROVE  /\ dependsOn' = dependsOn
             /\ Known(k)' => Known(k)
             /\ status[k] # "ABSENT" => status'[k] # "ABSENT"
  BY <1>3, <1>t DEF LockExpires, Discard, memory, TypeOK
<1>4. ASSUME NEW w \in Workers, Crash(w)
      PROVE  /\ dependsOn' = dependsOn
             /\ Known(k)' => Known(k)
             /\ status[k] # "ABSENT" => status'[k] # "ABSENT"
  BY <1>4, <1>t DEF Crash, row, TypeOK
<1>5. UNCHANGED vars => /\ dependsOn' = dependsOn
                        /\ Known(k)' => Known(k)
                        /\ status[k] # "ABSENT" => status'[k] # "ABSENT"
  BY DEF vars, row, memory
<1> QED BY <1>1, <1>2, <1>3, <1>4, <1>5
=============================================================================
