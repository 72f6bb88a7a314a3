-------------------------- MODULE DatasetLifecycle --------------------------
(***************************************************************************)
(* What the governance workflow promises about one thing only: the status  *)
(* an outside observer sees on each dataset.  A dataset is created as a    *)
(* draft, goes round review and changes as often as the reviewers want,    *)
(* is then decided once, and a decision is final except that what was      *)
(* published may be archived.  GovernanceWorkflow, run by one request at a *)
(* time and without embargoes, is shown to implement it.                   *)
(***************************************************************************)
CONSTANT Datasets

VARIABLE status

Undecided == {"draft", "pending_review", "changes_requested", "pending_approval"}
Awaiting  == {"pending_review", "pending_approval"}

Move(d, from, to) ==
  /\ status[d] \in from
  /\ status' = [status EXCEPT ![d] = to]

Create(d)         == Move(d, {"absent"}, "draft")
Submit(d)         == Move(d, {"draft", "changes_requested"}, "pending_review")
RequestChanges(d) == Move(d, {"pending_review"}, "changes_requested")
Escalate(d)       == Move(d, {"pending_review"}, "pending_approval")
Publish(d)        == Move(d, Awaiting, "published")
Reject(d)         == Move(d, Awaiting, "rejected")
Archive(d)        == Move(d, {"published"}, "archived")

Init == status = [d \in Datasets |-> "absent"]

Next ==
  \E d \in Datasets :
    \/ Create(d)
    \/ Submit(d)
    \/ RequestChanges(d)
    \/ Escalate(d)
    \/ Publish(d)
    \/ Reject(d)
    \/ Archive(d)

Spec == Init /\ [][Next]_status
=============================================================================
