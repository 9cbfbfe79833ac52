------------------------- MODULE ProposalDecisions -------------------------
(***************************************************************************)
(* One proposal, its approval flow and its reviews: proposals.ts,          *)
(* approvals.ts and archive.ts of packages/domain/src.                     *)
(*                                                                         *)
(* Opening, resolving, resetting, archiving and restoring a proposal take  *)
(* one advisory lock and so exclude each other.  A review -- a decision,   *)
(* an objection, the settlement of an objection -- does not take it: it is *)
(* a READ COMMITTED transaction of three steps, and it reads the flow      *)
(* twice before it writes.  What keeps it from an archived or private      *)
(* proposal is a share lock on the permission epoch of the proposal.       *)
(*                                                                         *)
(* A reset is two steps, for a review may commit between its delete and    *)
(* its update; every other operation takes effect at its commit.  An       *)
(* operation that a lock holds back is not enabled; of two transactions    *)
(* that wait for each other the database aborts one.                       *)
(***************************************************************************)
EXTENDS FiniteSets

CONSTANT Members        \* the eligible reviewers

ASSUME MembersAssumption == IsFiniteSet(Members)

VARIABLES
  status, outcome, archived, private,  \* Proposal: status, resolutionOutcome,
                                       \*   archivedAt, isPrivate
  flow,      \* ApprovalFlow.status, or "NONE" while the proposal has no flow
  known,     \* whether the latest receipt of the flow proves its content
  result,    \* resultJson: its kind,
  counted,   \*   and the review rows an outcome was calculated from
  policy,    \* whether PolicyCorpus holds a row of the proposal
  rows,      \* decisions and unresolved objections, as committed
  stage, task, seen,  \* the review of each member: how far it is, the row it
                      \*   writes, the rows it has counted
  reset, doomed,      \* the reset in progress, and the rows it has deleted
  overlapped          \* history: a review ran beside another transaction

proposalVars == <<status, outcome, archived, private>>
flowVars == <<flow, known, result, counted>>
reviewVars == <<stage, task, seen>>
resetVars == <<reset, doomed>>
vars == <<proposalVars, flowVars, policy, rows, reviewVars, resetVars, overlapped>>

Outcome == {"ADOPTED", "NOT_ADOPTED", "WITHDRAWN"}
Row == {"decision", "objection"} \X Members
Task == [settles : BOOLEAN, row : Row]

(* The flow status of a resolved proposal.                                 *)
Decided == [o \in Outcome |->
  IF o = "ADOPTED" THEN "APPROVED" ELSE IF o = "WITHDRAWN" THEN o ELSE "REJECTED"]

InFlight == {m \in Members : stage[m] # "idle"}

(* The advisory lock of the proposal; only a reset holds it across steps.  *)
LockFree == reset = "none"

(* Faulty variant: reviews do not share the permission epoch.              *)
MayWriteUnshared(nextArchived, nextPrivate) == TRUE

(* The row of the permission epoch: a review shares it until it ends, and  *)
(* a change of visibility must update it.                                  *)
MayWrite(nextArchived, nextPrivate) ==
  archived # nextArchived \/ private # nextPrivate => InFlight = {}

-----------------------------------------------------------------------------
(* createProposal: public and open with an active flow, or a private draft *)
Init ==
  /\ private \in BOOLEAN
  /\ status = IF private THEN "DRAFT" ELSE "OPEN"
  /\ flow = IF private THEN "NONE" ELSE "ACTIVE"
  /\ outcome = "none" /\ archived = FALSE
  /\ known = ~private /\ result = "none" /\ counted = {}
  /\ policy = FALSE /\ rows = {}
  /\ stage = [m \in Members |-> "idle"]
  /\ task = [m \in Members |-> [settles |-> FALSE, row |-> <<"decision", m>>]]
  /\ seen = [m \in Members |-> {}]
  /\ reset = "none" /\ doomed = {}
  /\ overlapped = FALSE

(* Faulty variant: the flow of a new round is left as it is.               *)
SubmitWithoutActivation ==
  /\ LockFree /\ ~archived /\ status = "DRAFT" /\ MayWrite(archived, FALSE)
  /\ status' = "OPEN" /\ private' = FALSE
  /\ UNCHANGED <<outcome, archived, flowVars, policy, rows, reviewVars,
                 resetVars, overlapped>>

(* submitProposal.  The flow of an earlier round is taken up as it is: a   *)
(* receipt that was made unknown stays so.                                 *)
Submit ==
  /\ LockFree /\ ~archived /\ status = "DRAFT" /\ MayWrite(archived, FALSE)
  /\ status' = "OPEN" /\ private' = FALSE
  /\ flow' = "ACTIVE"
  /\ known' = (known \/ flow = "NONE")
  /\ UNCHANGED <<outcome, archived, result, counted, policy, rows, reviewVars,
                 resetVars, overlapped>>

(* publishProposal                                                         *)
Publish ==
  /\ LockFree /\ ~archived /\ private /\ MayWrite(archived, FALSE)
  /\ private' = FALSE
  /\ UNCHANGED <<status, outcome, archived, flowVars, policy, rows, reviewVars,
                 resetVars, overlapped>>

(* resolveProposal: the flow, when there is one, must be proved.  It is    *)
(* found by its proposal and written whatever its status is.               *)
Resolve(o) ==
  /\ LockFree /\ ~archived /\ status \in {"DRAFT", "OPEN"} /\ MayWrite(archived, FALSE)
  /\ flow # "NONE" => known
  /\ status' = "RESOLVED" /\ outcome' = o /\ private' = FALSE
  /\ policy' = (policy \/ o = "ADOPTED")
  /\ \/ flow = "NONE" /\ UNCHANGED flowVars
     \/ flow # "NONE" /\ flow' = Decided[o] /\ result' = "manual"
        /\ counted' = {} /\ UNCHANGED known
  /\ overlapped' = (overlapped \/ InFlight # {})
  /\ UNCHANGED <<archived, rows, reviewVars, resetVars>>

-----------------------------------------------------------------------------
(* Faulty variant: the reviews are not deleted.                            *)
BeginResetKeepingReviews(target) ==
  /\ LockFree /\ ~archived
  /\ \/ status = "RESOLVED"
     \/ status = "OPEN" /\ target = "DRAFT"
  /\ reset' = target /\ doomed' = {}
  /\ overlapped' = (overlapped \/ InFlight # {})
  /\ UNCHANGED <<proposalVars, flowVars, policy, rows, reviewVars>>

(* returnProposalToDraft ("DRAFT"), reopenProposal and                     *)
(* supportReopenResolvedProposals ("OPEN"): the committed review rows are  *)
(* deleted, and a row that a review has locked is waited for.              *)
BeginReset(target) ==
  /\ LockFree /\ ~archived
  /\ \/ status = "RESOLVED"
     \/ status = "OPEN" /\ target = "DRAFT"
  /\ \A m \in Members : stage[m] = "counted" => task[m].row \notin rows
  /\ reset' = target /\ doomed' = rows
  /\ overlapped' = (overlapped \/ InFlight # {})
  /\ UNCHANGED <<proposalVars, flowVars, policy, rows, reviewVars>>

(* Faulty variant: the corpus keeps the policy.                            *)
FinishResetKeepingPolicy ==
  /\ reset # "none" /\ MayWrite(archived, reset = "DRAFT")
  /\ rows' = rows \ doomed
  /\ flow' = IF reset = "OPEN" THEN "ACTIVE"
             ELSE IF flow = "NONE" THEN "NONE" ELSE "DRAFT"
  /\ known' = FALSE /\ result' = "none" /\ counted' = {}
  /\ status' = reset /\ outcome' = "none" /\ private' = (reset = "DRAFT")
  /\ reset' = "none" /\ doomed' = {}
  /\ UNCHANGED <<archived, policy, reviewVars, overlapped>>

(* The rest of the reset and its commit: the result is cleared and the     *)
(* receipt of the flow is made unknown; a reopened proposal without a flow *)
(* gets one first.                                                         *)
FinishReset ==
  /\ reset # "none" /\ MayWrite(archived, reset = "DRAFT")
  /\ rows' = rows \ doomed
  /\ flow' = IF reset = "OPEN" THEN "ACTIVE"
             ELSE IF flow = "NONE" THEN "NONE" ELSE "DRAFT"
  /\ known' = FALSE /\ result' = "none" /\ counted' = {}
  /\ policy' = FALSE
  /\ status' = reset /\ outcome' = "none" /\ private' = (reset = "DRAFT")
  /\ reset' = "none" /\ doomed' = {}
  /\ UNCHANGED <<archived, reviewVars, overlapped>>

(* The reset is refused, times out or is the victim of a deadlock.         *)
AbortReset ==
  /\ reset # "none"
  /\ reset' = "none" /\ doomed' = {}
  /\ UNCHANGED <<proposalVars, flowVars, policy, rows, reviewVars, overlapped>>

(* Faulty variant: the flow stays active.                                  *)
ArchiveAlone ==
  /\ LockFree /\ ~archived /\ MayWrite(TRUE, private)
  /\ archived' = TRUE
  /\ UNCHANGED <<status, outcome, private, flowVars, policy, rows, reviewVars,
                 resetVars, overlapped>>

(* archiveProposalArtifactWithLock and archiveWorkspaceArtifact, with      *)
(* withdrawActiveApprovalFlowForSubject: an active flow is withdrawn.      *)
Archive ==
  /\ LockFree /\ ~archived /\ MayWrite(TRUE, private)
  /\ archived' = TRUE
  /\ \/ flow = "ACTIVE" /\ flow' = "WITHDRAWN" /\ known' = FALSE
        /\ result' = "cleanup" /\ counted' = {}
     \/ flow # "ACTIVE" /\ UNCHANGED flowVars
  /\ UNCHANGED <<status, outcome, private, policy, rows, reviewVars, resetVars,
                 overlapped>>

(* restoreWorkspaceArtifact: the status is that of the archive record, and *)
(* a withdrawn flow stays withdrawn.                                       *)
Restore ==
  /\ LockFree /\ archived /\ MayWrite(FALSE, private)
  /\ archived' = FALSE
  /\ UNCHANGED <<status, outcome, private, flowVars, policy, rows, reviewVars,
                 resetVars, overlapped>>

-----------------------------------------------------------------------------
Goes(m, next) == stage' = [stage EXCEPT ![m] = next]
Forgets(m) == seen' = [seen EXCEPT ![m] = {}]

(* The unresolved rows once the review of m has committed.                 *)
With(m, committed) ==
  IF task[m].settles THEN committed \ {task[m].row} ELSE committed \cup {task[m].row}

(* The first part of recordApprovalDecision, createObjection and           *)
(* resolveObjection: the flow is active, proved and readable.              *)
Admit(m, t) ==
  /\ stage[m] = "idle" /\ flow = "ACTIVE" /\ known
  /\ IF t.settles THEN t.row[1] = "objection" /\ t.row \in rows
     ELSE t.row[2] = m /\ (t.row[1] = "objection" => t.row \notin rows)
  /\ task' = [task EXCEPT ![m] = t]
  /\ Goes(m, "admitted")
  /\ overlapped' = (overlapped \/ InFlight # {} \/ ~LockFree)
  /\ UNCHANGED <<proposalVars, flowVars, policy, rows, seen, resetVars>>

(* The row is written, and the outcome is calculated from what is          *)
(* committed by now; the receipt of the flow must still prove it, and its  *)
(* status is not looked at again.  Rows of others are locked.              *)
Count(m) ==
  /\ stage[m] = "admitted" /\ known
  /\ task[m].row \notin doomed
  /\ task[m].settles => task[m].row \in rows
  /\ \A n \in Members \ {m} : stage[n] = "counted" => task[n].row # task[m].row
  /\ seen' = [seen EXCEPT ![m] = With(m, rows)]
  /\ Goes(m, "counted")
  /\ UNCHANGED <<proposalVars, flowVars, policy, rows, task, resetVars, overlapped>>

(* Faulty variant: the flow is written back as it was read.                *)
CommitWholeFlow(m) ==
  /\ stage[m] = "counted"
  /\ rows' = With(m, rows)
  /\ flow' = "ACTIVE"
  /\ result' = "outcome" /\ counted' = seen[m] /\ known' = TRUE
  /\ Goes(m, "idle") /\ Forgets(m)
  /\ UNCHANGED <<proposalVars, policy, task, resetVars, overlapped>>

(* writeFlowOutcome and the commit: resultJson is replaced, under a new    *)
(* receipt, and the status of the flow is left alone.                      *)
Commit(m) ==
  /\ stage[m] = "counted"
  /\ rows' = With(m, rows)
  /\ result' = "outcome" /\ counted' = seen[m] /\ known' = TRUE
  /\ Goes(m, "idle") /\ Forgets(m)
  /\ UNCHANGED <<proposalVars, flow, policy, task, resetVars, overlapped>>

(* A later check refuses the review, or it is the victim of a deadlock.    *)
Abort(m) ==
  /\ stage[m] # "idle"
  /\ Goes(m, "idle") /\ Forgets(m)
  /\ UNCHANGED <<proposalVars, flowVars, policy, rows, task, resetVars, overlapped>>

Next ==
  \/ Submit \/ Publish \/ Archive \/ Restore \/ FinishReset \/ AbortReset
  \/ \E o \in Outcome : Resolve(o)
  \/ \E target \in {"DRAFT", "OPEN"} : BeginReset(target)
  \/ \E m \in Members : Count(m) \/ Commit(m) \/ Abort(m)
  \/ \E m \in Members, t \in Task : Admit(m, t)

Spec == Init /\ [][Next]_vars

-----------------------------------------------------------------------------
TypeOK ==
  /\ status \in {"DRAFT", "OPEN", "RESOLVED"} /\ outcome \in Outcome \cup {"none"}
  /\ archived \in BOOLEAN /\ private \in BOOLEAN
  /\ flow \in {"NONE", "DRAFT", "ACTIVE", "APPROVED", "REJECTED", "WITHDRAWN"}
  /\ known \in BOOLEAN /\ result \in {"none", "outcome", "manual", "cleanup"}
  /\ counted \subseteq Row /\ policy \in BOOLEAN /\ rows \subseteq Row
  /\ stage \in [Members -> {"idle", "admitted", "counted"}]
  /\ task \in [Members -> Task] /\ seen \in [Members -> SUBSET Row]
  /\ reset \in {"none", "DRAFT", "OPEN"} /\ doomed \subseteq Row
  /\ overlapped \in BOOLEAN

(* The policy corpus holds the proposal exactly as long as it stands       *)
(* adopted, through every reset, archive and restore.                      *)
PolicyIsAdopted == policy <=> (status = "RESOLVED" /\ outcome = "ADOPTED")

(* The flow of a resolved proposal says what was decided, whatever reviews *)
(* admitted before the decision commit after it.                           *)
DecisionStands == status = "RESOLVED" /\ flow # "NONE" => flow = Decided[outcome]

(* An active flow belongs to an open proposal that is not archived.        *)
ActiveFlowIsOpen == flow = "ACTIVE" => status = "OPEN" /\ ~archived

(* An open proposal can be reviewed, except one that was archived and      *)
(* restored: its flow stays withdrawn, and no late review hides why.       *)
OpenIsReviewed ==
  status = "OPEN" /\ ~archived =>
    flow = "ACTIVE" \/ (flow = "WITHDRAWN" /\ result = "cleanup" /\ ~known)

(* No review is in flight, and so none commits, on a proposal that is      *)
(* archived, private or a draft, although reviews take no lock of it.      *)
ReviewsAreVisible ==
  InFlight # {} => ~archived /\ ~private /\ status # "DRAFT" /\ flow # "NONE"

(* As long as no review ran beside another transaction, an outcome counts  *)
(* every unresolved row and a reset leaves none behind.                    *)
SerialReviewsCount ==
  ~overlapped => /\ result = "outcome" => counted = rows
                 /\ flow \in {"NONE", "DRAFT"} => rows = {}

(* A proposal returned to draft holds no review: the test "returns an open *)
(* proposal to draft and clears stale approval state".                     *)
DraftHoldsNoReview == status = "DRAFT" => rows = {}
=============================================================================
