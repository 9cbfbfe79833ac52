--------------------------- MODULE MCOutboxSystem ---------------------------
(***************************************************************************)
(* Instances of OutboxSystem for TLC.                                      *)
(***************************************************************************)
EXTENDS OutboxSystem, TLC

CONSTANTS e1, summary, insights, post

(* A meeting: agent.meeting-summary, meeting.insights.extract, and         *)
(* meeting.summary.post in place of the rest of the chain.                 *)
MeetingKind == (summary :> "fresh") @@ (insights :> "fresh") @@ (post :> "plain")
MeetingChain == (summary :> None) @@ (insights :> summary) @@ (post :> insights)
MeetingJobs == (e1 :> {summary, insights, post})
=============================================================================
