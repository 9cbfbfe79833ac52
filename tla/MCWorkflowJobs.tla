--------------------------- MODULE MCWorkflowJobs ---------------------------
(***************************************************************************)
(* Instances of WorkflowJobs for TLC: which kinds of job share the queue.  *)
(***************************************************************************)
EXTENDS WorkflowJobs, TLC

CONSTANTS j1, j2, j3

Symmetry == Permutations(Workers)

(* A meeting's insights with the post that waits for them, and a SQL       *)
(* synchronisation.                                                        *)
ChainKind == (j1 :> "fresh") @@ (j2 :> "plain") @@ (j3 :> "sql")
ChainPrerequisite == (j1 :> None) @@ (j2 :> j1) @@ (j3 :> None)

(* The kinds that can be deferred or asked for again.                      *)
RearmedKind == (j1 :> "maintenance") @@ (j2 :> "variant") @@ (j3 :> "diagnostic")
NoPrerequisite == [j \in Jobs |-> None]

DiagnosticKind == [j \in Jobs |-> "diagnostic"]
=============================================================================
