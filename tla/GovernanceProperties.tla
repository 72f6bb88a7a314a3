------------------------ MODULE GovernanceProperties ------------------------
(***************************************************************************)
(* What the governance workflow is checked for.  Properties of every       *)
(* interleaving come first, then those that need the handlers of one       *)
(* dataset not to overlap, then what the repository's documents say and    *)
(* the code does not do.                                                   *)
(***************************************************************************)
EXTENDS GovernanceWorkflow

DatasetRows ==
  [status : Statuses \cup {"absent"}, publisher : Users \cup {None}, hasData : BOOLEAN,
   embargo : Embargoes \cup {None}, revision : 0..MaxRevision]

Rows ==
  [status : SubmissionStatuses, dataset : Datasets, maker : Users,
   checker : Users \cup {None}, approver : Users \cup {None},
   due : Nat, slaBreached : BOOLEAN, approved : BOOLEAN]

Typed ==
  /\ dataset \in [Datasets -> DatasetRows]
  /\ submission \in [Submissions -> Rows \cup {NoSubmission}]
  /\ journal \in [Datasets -> Statuses \cup {"absent"}]
  /\ txn \in [Sessions -> Transactions]
  /\ now \in 0..MaxTime

\* An open transaction writes only to submissions that are in the table.
TxnRefersToRows ==
  \A w \in Sessions :
    /\ txn[w].op \in {"review", "approve"} => Exists(txn[w].submission)
    /\ txn[w].op = "flag" => \A s \in txn[w].submissions : Exists(s)

\* The tables, the event store and the open transactions hold values the
\* columns and the handlers' locals can hold; a submission that exists is a
\* complete row, and no UPDATE by primary key misses its row.
TypeOK == Typed /\ TxnRefersToRows

-----------------------------------------------------------------------------
(* Every interleaving *)

Signed(s) ==
  /\ submission[s].approved
  /\ IF submission[s].dataset \in HighSensitivity
     THEN submission[s].approver # None
     ELSE submission[s].checker # None \/ submission[s].approver # None

\* A DatasetPublished event is always backed by a submission of that dataset that
\* one reviewer signed: a steward or the senior approver for a standard dataset,
\* the senior approver for a high-sensitivity one, whatever else happened to that
\* submission or to others since (review, approve).  That a steward signed the
\* latter as well is ThreeHumans, which the code does not keep.
PublicationSigned ==
  \A d \in Datasets :
    journal[d] = "published" =>
      \E s \in Submissions : submission[s].dataset = d /\ Signed(s)

\* Strengthening of PublicationSigned: a review that is about to publish is of a
\* submission of a standard dataset.
PublishingReviews ==
  \A w \in Sessions :
    txn[w].op = "review" /\ txn[w].target = "published" =>
      submission[txn[w].submission].dataset \notin HighSensitivity

\* What the event store tells last of a dataset may be out of date in two ways
\* only: a release published it without an event (check_embargo_releases), or an
\* edit that another handler overtook told the draft it had loaded
\* (update_dataset).  A submission, a decision, an embargo or a retirement it tells
\* last is what the table holds, or was released since.
JournalLag ==
  \A d \in Datasets :
    dataset[d].status # journal[d] => dataset[d].status = "published" \/ journal[d] \in Editable

-----------------------------------------------------------------------------
(* One handler at a time, of each dataset *)

\* The datasets whose status or metadata a session's open transaction writes.
Writes(w) ==
  CASE txn[w].op \in {"edit", "submit", "archive", "schedule"} -> {txn[w].dataset}
    [] txn[w].op \in {"review", "approve"} -> {submission[txn[w].submission].dataset}
    [] txn[w].op = "release" -> txn[w].datasets
    [] txn[w].op \in {"idle", "flag"} -> {}

\* What a lock on the dataset from a handler's first read to its commit would give,
\* and the code does not take; a single session gives it too.
DatasetsLocked == \A v, w \in Sessions : v # w => Writes(v) \cap Writes(w) = {}

\* Nobody asks for an embargo.
Unscheduled == \A w \in Sessions : txn[w].op # "schedule"

Open(s) == submission[s].status \in Pending

\* While nobody else writes the dataset a handler is at work on, a dataset is under
\* review exactly when one submission of it is, at the same gate; no second
\* submission waits in a queue behind it (submit, review).
OneOpenSubmission ==
  /\ \A s, t \in Submissions :
       Open(s) /\ Open(t) /\ submission[s].dataset = submission[t].dataset => s = t
  /\ \A s \in Submissions :
       Open(s) => dataset[submission[s].dataset].status = submission[s].status
  /\ \A d \in Datasets :
       dataset[d].status \in Pending => \E s \in Submissions : submission[s].dataset = d /\ Open(s)

\* Strengthening of OneOpenSubmission: what a handler checked when it read the
\* rows is still so when it writes them, and nothing is scheduled.
GuardsStillHold ==
  /\ \A d \in Datasets : dataset[d].status # "scheduled"
  /\ \A w \in Sessions :
        /\ txn[w].op = "edit" => dataset[txn[w].dataset].status \in Editable
        /\ txn[w].op = "submit" => CanMove(dataset[txn[w].dataset].status, "pending_review")
        /\ txn[w].op = "archive" => CanMove(dataset[txn[w].dataset].status, "archived")
        /\ txn[w].op = "review" => CanMove(submission[txn[w].submission].status, txn[w].target)
        /\ txn[w].op = "approve" => CanMove(submission[txn[w].submission].status, "published")
        /\ txn[w].op \notin {"schedule", "release"}

\* While nobody else writes the dataset a handler is at work on, the metadata a
\* steward reviews, or that is published, does not change under them: an edit lands
\* only on a draft or on a dataset sent back for changes (update_dataset).
ReviewedMetadataFrozen ==
  [][\A d \in Datasets :
       dataset'[d].revision # dataset[d].revision =>
         dataset[d].status \in {"draft", "changes_requested"}]_vars

Lifecycle ==
  INSTANCE DatasetLifecycle WITH status <- [d \in Datasets |-> dataset[d].status]

\* Under the same condition and without embargoes the workflow shows on each
\* dataset only the lifecycle the TRANSITIONS table describes, with every decision
\* taken once.
ImplementsLifecycle == Lifecycle!Spec

\* The embargo job never publishes a dataset before the instant its steward
\* asked for; the job's step is the one that publishes without an event.
NoEarlyRelease ==
  [][\A d \in Datasets :
       /\ dataset[d].status = "scheduled"
       /\ dataset'[d].status = "published"
       /\ journal'[d] = journal[d]
       => now >= Instant(dataset[d].embargo)]_vars

\* A scheduled dataset does not stay scheduled for ever.
ScheduledIsReleased ==
  \A d \in Datasets : dataset[d].status = "scheduled" ~> dataset[d].status # "scheduled"

\* A submission that waits beyond its review deadline is decided or flagged as
\* an SLA breach, at whichever gate it waits (flag_sla_breaches).
OverdueIsSettled ==
  \A s \in Submissions :
    submission[s].status \in Pending /\ submission[s].due < now
      ~> submission[s].slaBreached \/ submission[s].status \notin Pending

-----------------------------------------------------------------------------
(* Said of the program, and not so *)

\* OPENCIVIC_PLATFORM_SPEC.md:991 "Maker -> steward -> senior approver -> published.
\* Three different humans", of a high-sensitivity dataset.
ThreeHumans ==
  \A s \in Submissions :
    LET row == submission[s]
    IN  row.approved /\ row.dataset \in HighSensitivity =>
          /\ None \notin {row.checker, row.approver}
          /\ row.checker # row.maker /\ row.approver \notin {row.maker, row.checker}

\* OPENCIVIC_PLATFORM_SPEC.md:1000 "rejected: permanently rejected, documented
\* reason, new draft required".
RejectedIsPermanent ==
  [][\A d \in Datasets :
       dataset[d].status = "rejected" => dataset'[d].status = "rejected"]_vars
=============================================================================
