---------------------- MODULE ProposalDecisionsProofs ----------------------
(***************************************************************************)
(* Proofs about ProposalDecisions, for every set of reviewers.             *)
(***************************************************************************)
EXTENDS ProposalDecisions, TLAPS

-----------------------------------------------------------------------------
(* A resolved proposal never has an active flow, whatever the outcome.     *)
LEMMA DecidedIsClosed ==
  ASSUME NEW o \in Outcome
  PROVE  Decided[o] \in {"APPROVED", "REJECTED", "WITHDRAWN"}
BY DEF Decided, Outcome

(* The rows a review leaves are review rows.                               *)
LEMMA WithType ==
  ASSUME NEW m \in Members, task \in [Members -> Task], NEW S \in SUBSET Row
  PROVE  With(m, S) \subseteq Row
<1>1. task[m].row \in Row
  BY DEF Task
<1> QED
  BY <1>1 DEF With

(* Every variable keeps its type.                                          *)
THEOREM TypeCorrect == Spec => []TypeOK
<1>1. Init => TypeOK
  <2> SUFFICES ASSUME Init PROVE TypeOK
    OBVIOUS
  <2>1. \A m \in Members : [settles |-> FALSE, row |-> <<"decision", m>>] \in Task
    BY DEF Task, Row
  <2>2. task \in [Members -> Task]
    BY <2>1 DEF Init
  <2> QED
    BY <2>2 DEF Init, TypeOK
<1>2. TypeOK /\ [Next]_vars => TypeOK'
  <2> SUFFICES ASSUME TypeOK, [Next]_vars PROVE TypeOK'
    OBVIOUS
  <2>1. CASE Submit
    BY <2>1 DEF TypeOK, Submit, reviewVars, resetVars
  <2>2. CASE Publish
    BY <2>2 DEF TypeOK, Publish, flowVars, reviewVars, resetVars
  <2>3. CASE Archive
    BY <2>3 DEF TypeOK, Archive, flowVars, reviewVars, resetVars
  <2>4. CASE Restore
    BY <2>4 DEF TypeOK, Restore, flowVars, reviewVars, resetVars
  <2>5. CASE FinishReset
    BY <2>5 DEF TypeOK, FinishReset, reviewVars
  <2>6. CASE AbortReset
    BY <2>6 DEF TypeOK, AbortReset, proposalVars, flowVars, reviewVars
  <2>7. ASSUME NEW o \in Outcome, Resolve(o) PROVE TypeOK'
    BY <2>7, DecidedIsClosed DEF TypeOK, Resolve, flowVars, reviewVars, resetVars
  <2>8. ASSUME NEW target \in {"DRAFT", "OPEN"}, BeginReset(target) PROVE TypeOK'
    BY <2>8 DEF TypeOK, BeginReset, proposalVars, flowVars, reviewVars
  <2>9. ASSUME NEW m \in Members, Count(m) PROVE TypeOK'
    <3>1. With(m, rows) \subseteq Row
      BY WithType DEF TypeOK
    <3> QED
      BY <2>9, <3>1 DEF TypeOK, Count, Goes, proposalVars, flowVars, resetVars
  <2>10. ASSUME NEW m \in Members, Commit(m) PROVE TypeOK'
    <3>1. With(m, rows) \subseteq Row
      BY WithType DEF TypeOK
    <3> QED
      BY <2>10, <3>1 DEF TypeOK, Commit, Goes, Forgets, proposalVars, resetVars
  <2>11. ASSUME NEW m \in Members, Abort(m) PROVE TypeOK'
    BY <2>11 DEF TypeOK, Abort, Goes, Forgets, proposalVars, flowVars, resetVars
  <2>12. ASSUME NEW m \in Members, NEW t \in Task, Admit(m, t) PROVE TypeOK'
    BY <2>12 DEF TypeOK, Admit, Goes, proposalVars, flowVars, resetVars
  <2>13. CASE UNCHANGED vars
    BY <2>13 DEF TypeOK, vars, proposalVars, flowVars, reviewVars, resetVars
  <2> QED
    BY <2>1, <2>2, <2>3, <2>4, <2>5, <2>6, <2>7, <2>8, <2>9, <2>10, <2>11, <2>12,
       <2>13 DEF Next
<1> QED
  BY <1>1, <1>2, PTL DEF Spec

-----------------------------------------------------------------------------
(* A reset holds the advisory lock: the proposal is as it found it.        *)
ResetIsLegal ==
  /\ reset # "none" => ~archived
  /\ reset = "DRAFT" => status \in {"OPEN", "RESOLVED"}
  /\ reset = "OPEN" => status = "RESOLVED"

(* Only a draft is private, and an open proposal, archived or not, keeps   *)
(* its flow.                                                               *)
OpenHasFlow ==
  /\ private => status = "DRAFT"
  /\ status = "OPEN" =>
       flow = "ACTIVE" \/ (flow = "WITHDRAWN" /\ result = "cleanup" /\ ~known)

(* The flow of an open proposal is not withdrawn under a review.           *)
ReviewedIsActive == InFlight # {} /\ status = "OPEN" => flow = "ACTIVE"

DecisionInv ==
  /\ PolicyIsAdopted /\ DecisionStands /\ ActiveFlowIsOpen
  /\ ReviewsAreVisible /\ ResetIsLegal /\ OpenHasFlow /\ ReviewedIsActive

(* Every step keeps the invariant.  A review in flight shares the epoch,   *)
(* which is what the cases of Archive and FinishReset rest on.             *)
LEMMA DecisionStep ==
  ASSUME TypeOK, DecisionInv, [Next]_vars
  PROVE  DecisionInv'
<1> USE DEF DecisionInv, PolicyIsAdopted, DecisionStands, ActiveFlowIsOpen,
            ReviewsAreVisible, ResetIsLegal, OpenHasFlow, ReviewedIsActive
<1>1. CASE Submit
  BY <1>1 DEF TypeOK, Submit, LockFree, MayWrite, InFlight, reviewVars, resetVars
<1>2. CASE Publish
  BY <1>2 DEF TypeOK, Publish, LockFree, MayWrite, InFlight, flowVars, reviewVars,
     resetVars
<1>3. CASE Archive
  <2>1. InFlight = {} /\ InFlight' = {}
    BY <1>3 DEF TypeOK, Archive, MayWrite, InFlight, reviewVars
  <2>2. reset' = "none"
    BY <1>3 DEF Archive, LockFree, resetVars
  <2>3. CASE flow = "ACTIVE"
    BY <1>3, <2>1, <2>2, <2>3 DEF TypeOK, Archive
  <2>4. CASE flow # "ACTIVE"
    BY <1>3, <2>1, <2>2, <2>4 DEF TypeOK, Archive, flowVars
  <2> QED
    BY <2>3, <2>4
<1>4. CASE Restore
  BY <1>4 DEF TypeOK, Restore, LockFree, MayWrite, InFlight, flowVars, reviewVars,
     resetVars
<1>5. CASE FinishReset
  BY <1>5 DEF TypeOK, FinishReset, MayWrite, InFlight, reviewVars
<1>6. CASE AbortReset
  BY <1>6 DEF TypeOK, AbortReset, InFlight, proposalVars, flowVars, reviewVars
<1>7. ASSUME NEW o \in Outcome, Resolve(o) PROVE DecisionInv'
  <2>1. o # "none" /\ Decided[o] # "ACTIVE" /\ Decided[o] # "NONE"
    BY DecidedIsClosed DEF Outcome
  <2> QED
    BY <1>7, <2>1 DEF TypeOK, Resolve, LockFree, MayWrite, InFlight, flowVars,
       reviewVars, resetVars
<1>8. ASSUME NEW target \in {"DRAFT", "OPEN"}, BeginReset(target) PROVE DecisionInv'
  BY <1>8 DEF TypeOK, BeginReset, LockFree, InFlight, proposalVars, flowVars, reviewVars
<1>9. ASSUME NEW m \in Members, Count(m) PROVE DecisionInv'
  <2>1. InFlight # {}
    BY <1>9 DEF Count, InFlight
  <2> QED
    BY <1>9, <2>1 DEF TypeOK, Count, proposalVars, flowVars, resetVars
<1>10. ASSUME NEW m \in Members, Commit(m) PROVE DecisionInv'
  <2>1. InFlight # {}
    BY <1>10 DEF Commit, InFlight
  <2> QED
    BY <1>10, <2>1 DEF TypeOK, Commit, proposalVars, resetVars
<1>11. ASSUME NEW m \in Members, Abort(m) PROVE DecisionInv'
  <2>1. InFlight # {}
    BY <1>11 DEF Abort, InFlight
  <2> QED
    BY <1>11, <2>1 DEF TypeOK, Abort, proposalVars, flowVars, resetVars
<1>12. ASSUME NEW m \in Members, NEW t \in Task, Admit(m, t) PROVE DecisionInv'
  BY <1>12 DEF TypeOK, Admit, proposalVars, flowVars, resetVars
<1>13. CASE UNCHANGED vars
  BY <1>13 DEF vars, InFlight, proposalVars, flowVars, reviewVars, resetVars
<1> QED
  BY <1>1, <1>2, <1>3, <1>4, <1>5, <1>6, <1>7, <1>8, <1>9, <1>10, <1>11, <1>12,
     <1>13 DEF Next

(* The invariant holds from the creation of the proposal on.               *)
LEMMA DecisionInvariant == Spec => []DecisionInv
<1>1. Init => DecisionInv
  BY DEF Init, DecisionInv, PolicyIsAdopted, DecisionStands, ActiveFlowIsOpen,
     ReviewsAreVisible, ResetIsLegal, OpenHasFlow, ReviewedIsActive, InFlight
<1>2. TypeOK /\ DecisionInv /\ [Next]_vars => DecisionInv'
  BY DecisionStep
<1> QED
  BY <1>1, <1>2, TypeCorrect, PTL DEF Spec

(* The policy corpus holds exactly the adopted.                            *)
THEOREM PolicyFollowsDecision == Spec => []PolicyIsAdopted
<1>1. DecisionInv => PolicyIsAdopted
  BY DEF DecisionInv
<1> QED
  BY <1>1, DecisionInvariant, PTL

(* A late review never changes what a flow says was decided.               *)
THEOREM DecisionsStand == Spec => []DecisionStands
<1>1. DecisionInv => DecisionStands
  BY DEF DecisionInv
<1> QED
  BY <1>1, DecisionInvariant, PTL

(* Only open, unarchived proposals have an active flow.                    *)
THEOREM ActiveFlowsAreOpen == Spec => []ActiveFlowIsOpen
<1>1. DecisionInv => ActiveFlowIsOpen
  BY DEF DecisionInv
<1> QED
  BY <1>1, DecisionInvariant, PTL

(* An open proposal is reviewed, unless an archive withdrew its flow.      *)
THEOREM OpenProposalsAreReviewed == Spec => []OpenIsReviewed
<1>1. DecisionInv => OpenIsReviewed
  BY DEF DecisionInv, OpenHasFlow, OpenIsReviewed
<1> QED
  BY <1>1, DecisionInvariant, PTL

(* The share lock on the permission epoch is enough: a review in flight    *)
(* never finds its proposal archived, private or back in draft.            *)
THEOREM ReviewsStayVisible == Spec => []ReviewsAreVisible
<1>1. DecisionInv => ReviewsAreVisible
  BY DEF DecisionInv
<1> QED
  BY <1>1, DecisionInvariant, PTL

-----------------------------------------------------------------------------
(* Reviews one at a time: the only one in flight counts what is committed, *)
(* and a reset has deleted every row.                                      *)
SerialInv ==
  ~overlapped =>
    /\ \A m, n \in Members : stage[m] # "idle" /\ stage[n] # "idle" => m = n
    /\ InFlight # {} => reset = "none" /\ flow = "ACTIVE"
    /\ \A m \in Members : stage[m] = "counted" => seen[m] = With(m, rows)
    /\ reset # "none" => doomed = rows
    /\ result = "outcome" => counted = rows
    /\ flow \in {"NONE", "DRAFT"} => rows = {}

(* Every step keeps it: what begins beside a review is an overlap.         *)
LEMMA SerialStep ==
  ASSUME TypeOK, DecisionInv, SerialInv, [Next]_vars
  PROVE  SerialInv'
<1> USE DEF SerialInv
<1>1. CASE Submit
  BY <1>1 DEF TypeOK, Submit, With, InFlight, reviewVars, resetVars, DecisionInv,
     ReviewsAreVisible
<1>2. CASE Publish
  BY <1>2 DEF Publish, With, InFlight, flowVars, reviewVars, resetVars
<1>3. CASE Archive
  <2>1. InFlight = {} /\ InFlight' = {}
    BY <1>3 DEF TypeOK, Archive, MayWrite, InFlight, reviewVars
  <2>2. \A m \in Members : stage'[m] = "idle"
    BY <1>3, <2>1 DEF InFlight
  <2>3. reset' = "none"
    BY <1>3 DEF Archive, LockFree, resetVars
  <2> QED
    BY <1>3, <2>1, <2>2, <2>3 DEF Archive, flowVars
<1>4. CASE Restore
  BY <1>4 DEF Restore, With, InFlight, flowVars, reviewVars, resetVars
<1>5. CASE FinishReset
  <2>1. CASE overlapped
    BY <1>5, <2>1 DEF FinishReset
  <2>2. CASE ~overlapped
    <3>1. InFlight = {} /\ doomed = rows
      BY <1>5, <2>2 DEF FinishReset
    <3>2. InFlight' = {} /\ rows' = {}
      BY <1>5, <3>1 DEF FinishReset, InFlight, reviewVars
    <3>3. \A m \in Members : stage'[m] = "idle"
      BY <3>2 DEF InFlight
    <3> QED
      BY <1>5, <3>2, <3>3 DEF FinishReset
  <2> QED
    BY <2>1, <2>2 DEF TypeOK
<1>6. CASE AbortReset
  BY <1>6 DEF AbortReset, With, InFlight, proposalVars, flowVars, reviewVars
<1>7. ASSUME NEW o \in Outcome, Resolve(o) PROVE SerialInv'
  <2>1. CASE overlapped'
    BY <2>1
  <2>2. CASE ~overlapped'
    <3>1. ~overlapped /\ InFlight = {}
      BY <1>7, <2>2 DEF Resolve
    <3>2. InFlight' = {} /\ \A m \in Members : stage'[m] = "idle"
      BY <1>7, <3>1 DEF Resolve, InFlight, reviewVars
    <3>3. reset' = "none"
      BY <1>7 DEF Resolve, LockFree, resetVars
    <3>4. Decided[o] \notin {"NONE", "DRAFT"}
      BY DecidedIsClosed
    <3> QED
      BY <1>7, <3>1, <3>2, <3>3, <3>4 DEF Resolve, flowVars
  <2> QED
    BY <2>1, <2>2
<1>8. ASSUME NEW target \in {"DRAFT", "OPEN"}, BeginReset(target) PROVE SerialInv'
  <2>1. CASE overlapped'
    BY <2>1
  <2>2. CASE ~overlapped'
    <3>1. ~overlapped /\ InFlight = {}
      BY <1>8, <2>2 DEF BeginReset
    <3>2. InFlight' = {} /\ \A m \in Members : stage'[m] = "idle"
      BY <1>8, <3>1 DEF BeginReset, InFlight, reviewVars
    <3> QED
      BY <1>8, <3>1, <3>2 DEF BeginReset, flowVars
  <2> QED
    BY <2>1, <2>2
<1>9. ASSUME NEW m \in Members, Count(m) PROVE SerialInv'
  BY <1>9 DEF TypeOK, Count, Goes, With, InFlight, proposalVars, flowVars, resetVars
<1>10. ASSUME NEW m \in Members, Commit(m) PROVE SerialInv'
  <2>1. CASE overlapped
    BY <1>10, <2>1 DEF Commit
  <2>2. CASE ~overlapped
    <3>1. seen[m] = With(m, rows) /\ reset = "none" /\ flow = "ACTIVE"
      BY <1>10, <2>2 DEF Commit, InFlight
    <3>2. \A n \in Members : stage'[n] = "idle"
      BY <1>10, <2>2 DEF Commit, Goes, TypeOK
    <3>3. InFlight' = {}
      BY <3>2 DEF InFlight
    <3> QED
      BY <1>10, <3>1, <3>2, <3>3 DEF Commit, resetVars
  <2> QED
    BY <2>1, <2>2
<1>11. ASSUME NEW m \in Members, Abort(m) PROVE SerialInv'
  BY <1>11 DEF TypeOK, Abort, Goes, Forgets, With, InFlight, proposalVars, flowVars,
     resetVars
<1>12. ASSUME NEW m \in Members, NEW t \in Task, Admit(m, t) PROVE SerialInv'
  <2>1. CASE overlapped'
    BY <2>1
  <2>2. CASE ~overlapped'
    <3>1. ~overlapped /\ InFlight = {} /\ reset = "none" /\ flow = "ACTIVE"
      BY <1>12, <2>2 DEF Admit, LockFree
    <3>2. \A n \in Members : stage'[n] # "idle" => n = m
      BY <1>12, <3>1 DEF Admit, Goes, InFlight, TypeOK
    <3>3. \A n \in Members : stage'[n] # "counted"
      BY <1>12, <3>1 DEF Admit, Goes, InFlight, TypeOK
    <3> QED
      BY <1>12, <3>1, <3>2, <3>3 DEF Admit, flowVars, resetVars
  <2> QED
    BY <2>1, <2>2
<1>13. CASE UNCHANGED vars
  BY <1>13 DEF vars, With, InFlight, proposalVars, flowVars, reviewVars, resetVars
<1> QED
  BY <1>1, <1>2, <1>3, <1>4, <1>5, <1>6, <1>7, <1>8, <1>9, <1>10, <1>11, <1>12,
     <1>13 DEF Next

(* Without an overlap every review is counted and every reset is complete: *)
(* only the interleaving of reviews with others can break either.          *)
THEOREM SerialReviewsAreCounted == Spec => []SerialReviewsCount
<1>1. Init => SerialInv
  BY DEF Init, SerialInv, InFlight
<1>2. TypeOK /\ DecisionInv /\ SerialInv /\ [Next]_vars => SerialInv'
  BY SerialStep
<1>3. SerialInv => SerialReviewsCount
  BY DEF SerialInv, SerialReviewsCount
<1> QED
  BY <1>1, <1>2, <1>3, TypeCorrect, DecisionInvariant, PTL DEF Spec
=============================================================================
