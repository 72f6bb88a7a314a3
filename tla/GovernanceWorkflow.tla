------------------------- MODULE GovernanceWorkflow -------------------------
(***************************************************************************)
(* The maker-checker workflow of one tenant: the handlers that call        *)
(* WorkflowService (services/governance/workflow_service.py), the metadata *)
(* edit of the datasets endpoint, and the two beat jobs that call the same *)
(* service, all running in database sessions that overlap.                 *)
(*                                                                         *)
(* A handler reads the rows it needs once, decides, and issues its UPDATEs *)
(* with no condition other than the primary key; Postgres runs at READ     *)
(* COMMITTED.  So a handler is two steps here.  Begin evaluates every      *)
(* guard of the handler on the committed rows and keeps what it decided in *)
(* txn; Commit applies those writes, column by column, to whatever the     *)
(* rows have become.  Every writer but the SLA job holds the dataset's row *)
(* lock from its first UPDATE to its commit, so the writes of one          *)
(* transaction appear together.  With a single session handlers do not     *)
(* overlap, which is the program under light load.                         *)
(***************************************************************************)
EXTENDS Integers

CONSTANTS
  Datasets,         \* dataset ids
  Submissions,      \* ids for workflow_submissions rows; bounds their number
  Users,
  DataPublishers,   \* users whose token carries data_publisher
  DataStewards,     \* users whose token carries data_steward
  OrgAdmins,        \* users whose token carries org_admin
  HighSensitivity,  \* datasets whose workflow_variant is "high_sensitivity"
  Embargoes,        \* embargo datetimes stewards may ask for: wall clock, offset
  Sessions,         \* database sessions that may be open at the same time
  ReviewSLA,        \* settings.WORKFLOW_REVIEW_SLA_HOURS
  MaxTime,          \* the clock stops here
  MaxRevision,      \* metadata edits per dataset
  None

ASSUME RolesAssumption ==
  /\ DataPublishers \subseteq Users
  /\ DataStewards \subseteq Users
  /\ OrgAdmins \subseteq Users
  /\ HighSensitivity \subseteq Datasets

ASSUME NoneAssumption == None \notin Users \union Embargoes

ASSUME TimeAssumption ==
  /\ ReviewSLA \in Nat
  /\ MaxTime \in Nat
  /\ MaxRevision \in Nat
  /\ Embargoes \subseteq [wall : Nat, offset : Int]

VARIABLES
  dataset,     \* the datasets table
  submission,  \* the workflow_submissions table
  journal,     \* per dataset, the status its latest event in the event store tells
  txn,         \* per session, what the open transaction is going to write
  now          \* wall clock, UTC

vars == <<dataset, submission, journal, txn, now>>

-----------------------------------------------------------------------------
(* Statuses, roles and rows *)

Transitions ==
  {<<"draft", "pending_review">>,
   <<"pending_review", "changes_requested">>,
   <<"pending_review", "pending_approval">>,
   <<"pending_review", "published">>,
   <<"pending_review", "rejected">>,
   <<"changes_requested", "pending_review">>,
   <<"pending_approval", "published">>,
   <<"pending_approval", "rejected">>,
   <<"scheduled", "published">>,
   <<"published", "archived">>}

\* Mutants of the table: a submitted dataset may be submitted again; the senior
\* approver may send a dataset back.
CanMove_Resubmit(from, to) ==
  <<from, to>> \in Transitions \cup {<<"pending_review", "pending_review">>}

CanMove_Rework(from, to) ==
  <<from, to>> \in Transitions \cup {<<"pending_approval", "changes_requested">>}

CanMove(from, to) == <<from, to>> \in Transitions

Statuses ==
  {"draft", "pending_review", "changes_requested", "pending_approval",
   "scheduled", "published", "rejected", "archived"}

\* What a submission's own status can be: a dataset's draft, scheduled and
\* archived have no counterpart there.
SubmissionStatuses ==
  {"pending_review", "changes_requested", "pending_approval", "published", "rejected"}

\* Where a review can lead.
Verdicts == SubmissionStatuses \ {"pending_review"}

PublisherRequired == DataPublishers \union OrgAdmins
StewardRequired   == DataStewards \union OrgAdmins
ApproverRequired  == OrgAdmins

\* Mutant: an edit does not look at the status.
Editable_Always == Statuses

\* The statuses in which the publisher may still edit the metadata.
Editable == {"draft", "changes_requested"}

Pending == {"pending_review", "pending_approval"}

NoDataset ==
  [status |-> "absent", publisher |-> None, hasData |-> FALSE,
   embargo |-> None, revision |-> 0]

NoSubmission ==
  [status |-> "absent", dataset |-> None, maker |-> None, checker |-> None,
   approver |-> None, due |-> 0, slaBreached |-> FALSE, approved |-> FALSE]

Exists(s) == submission[s].status # "absent"

\* The three CHECK constraints of the workflow_submissions table.
ChecksHold(row) ==
  /\ row.checker = None \/ row.checker # row.maker
  /\ row.approver = None \/ row.approver # row.maker
  /\ row.approver = None \/ row.checker = None \/ row.approver # row.checker

\* An embargo's true instant, and what check_embargo_releases compares with
\* now: the wall clock, its offset replaced by UTC.
Instant(e)        == e.wall - e.offset
ComparedInstant(e) == e.wall

-----------------------------------------------------------------------------
(* Sessions *)

Idle == [op |-> "idle"]

Transactions ==
       [op : {"idle"}]
  \cup [op : {"submit"}, dataset : Datasets, maker : Users, due : Nat]
  \cup [op : {"review"}, submission : Submissions, checker : Users,
        target : Verdicts, overdue : BOOLEAN]
  \cup [op : {"approve"}, submission : Submissions, approver : Users]
  \cup [op : {"archive"}, dataset : Datasets]
  \cup [op : {"edit"}, dataset : Datasets, loaded : Editable]
  \cup [op : {"schedule"}, dataset : Datasets, embargo : Embargoes]
  \cup [op : {"release"}, datasets : SUBSET Datasets]
  \cup [op : {"flag"}, submissions : SUBSET Submissions]

Begin(w, t) ==
  /\ txn[w].op = "idle"
  /\ txn' = [txn EXCEPT ![w] = t]
  /\ UNCHANGED <<dataset, submission, journal, now>>

Close(w) ==
  /\ txn' = [txn EXCEPT ![w] = Idle]
  /\ UNCHANGED now

\* An exception, a violated constraint or a killed worker: nothing is written.
Rollback(w) ==
  /\ txn[w].op # "idle"
  /\ Close(w)
  /\ UNCHANGED <<dataset, submission, journal>>

\* UPDATE datasets SET status = to WHERE id = d, and its event in the store.
Record(d, to) ==
  /\ dataset' = [dataset EXCEPT ![d].status = to]
  /\ journal' = [journal EXCEPT ![d] = to]

-----------------------------------------------------------------------------
(* Publisher *)

CreateDataset(u, d) ==
  /\ u \in PublisherRequired
  /\ dataset[d].status = "absent"
  /\ dataset' = [dataset EXCEPT ![d].status = "draft", ![d].publisher = u]
  /\ journal' = [journal EXCEPT ![d] = "draft"]
  /\ UNCHANGED <<submission, txn, now>>

\* The ingest worker stores a first version: row_count is no longer null.
IngestData(d) ==
  /\ dataset[d].status # "absent"
  /\ ~dataset[d].hasData
  /\ dataset' = [dataset EXCEPT ![d].hasData = TRUE]
  /\ UNCHANGED <<submission, journal, txn, now>>

BeginEdit(w, u, d) ==
  /\ u \in PublisherRequired
  /\ dataset[d].publisher = u
  /\ dataset[d].status \in Editable
  /\ dataset[d].revision < MaxRevision
  /\ Begin(w, [op |-> "edit", dataset |-> d, loaded |-> dataset[d].status])

\* The columns edited, and DatasetMetadataUpdated with the status as it was loaded.
CommitEdit(w) ==
  LET d == txn[w].dataset
  IN  /\ txn[w].op = "edit"
      /\ dataset[d].revision < MaxRevision
      /\ dataset' = [dataset EXCEPT ![d].revision = @ + 1]
      /\ journal' = [journal EXCEPT ![d] = txn[w].loaded]
      /\ Close(w)
      /\ UNCHANGED submission

BeginSubmit(w, u, d) ==
  /\ u \in PublisherRequired
  /\ dataset[d].publisher = u
  /\ dataset[d].hasData
  /\ CanMove(dataset[d].status, "pending_review")
  /\ Begin(w, [op |-> "submit", dataset |-> d, maker |-> u, due |-> now + ReviewSLA])

CommitSubmit(w) ==
  /\ txn[w].op = "submit"
  /\ \E s \in Submissions :
       /\ ~Exists(s)
       /\ submission' = [submission EXCEPT ![s] =
            [NoSubmission EXCEPT !.status = "pending_review",
                                 !.dataset = txn[w].dataset,
                                 !.maker = txn[w].maker,
                                 !.due = txn[w].due]]
  /\ Record(txn[w].dataset, "pending_review")
  /\ Close(w)

BeginArchive(w, u, d) ==
  /\ u \in PublisherRequired
  /\ dataset[d].publisher = u
  /\ CanMove(dataset[d].status, "archived")
  /\ Begin(w, [op |-> "archive", dataset |-> d])

\* Mutant: the status is written and the event forgotten.
CommitArchive_Silent(w) ==
  /\ txn[w].op = "archive"
  /\ dataset' = [dataset EXCEPT ![txn[w].dataset].status = "archived"]
  /\ Close(w)
  /\ UNCHANGED <<submission, journal>>

CommitArchive(w) ==
  /\ txn[w].op = "archive"
  /\ Record(txn[w].dataset, "archived")
  /\ Close(w)
  /\ UNCHANGED submission

-----------------------------------------------------------------------------
(* Steward and senior approver *)

\* Mutant: the workflow variant is ignored.
ReviewTarget_OneGate(d, action) ==
  CASE action = "approve" -> "published"
    [] action = "reject" -> "rejected"
    [] action = "request_changes" -> "changes_requested"

\* The status an action leads to: action_map, but a high-sensitivity approval
\* goes to the second gate.
ReviewTarget(d, action) ==
  CASE action = "approve" /\ d \in HighSensitivity -> "pending_approval"
    [] action = "approve" /\ d \notin HighSensitivity -> "published"
    [] action = "reject" -> "rejected"
    [] action = "request_changes" -> "changes_requested"

ReviewActions == {"approve", "reject", "request_changes"}

\* Only the submission's status is checked, never the dataset's.
BeginReview(w, u, s, action) ==
  LET target == ReviewTarget(submission[s].dataset, action)
  IN  /\ u \in StewardRequired
      /\ Exists(s)
      /\ submission[s].maker # u
      /\ CanMove(submission[s].status, target)
      /\ Begin(w, [op |-> "review", submission |-> s, checker |-> u,
                   target |-> target, overdue |-> now > submission[s].due])

Reviewed(row, t) ==
  [row EXCEPT !.checker = t.checker,
              !.status = t.target,
              !.slaBreached = @ \/ t.overdue,
              !.approved = @ \/ t.target = "published"]

CommitReview(w) ==
  LET t   == txn[w]
      row == Reviewed(submission[t.submission], t)
  IN  /\ t.op = "review"
      /\ ChecksHold(row)
      /\ submission' = [submission EXCEPT ![t.submission] = row]
      /\ Record(row.dataset, t.target)
      /\ Close(w)

BeginApprove(w, u, s) ==
  /\ u \in ApproverRequired
  /\ Exists(s)
  /\ submission[s].maker # u
  /\ submission[s].checker # u
  /\ CanMove(submission[s].status, "published")
  /\ Begin(w, [op |-> "approve", submission |-> s, approver |-> u])

Approved(row, t) ==
  [row EXCEPT !.approver = t.approver, !.status = "published", !.approved = TRUE]

CommitApprove(w) ==
  LET t   == txn[w]
      row == Approved(submission[t.submission], t)
  IN  /\ t.op = "approve"
      /\ ChecksHold(row)
      /\ submission' = [submission EXCEPT ![t.submission] = row]
      /\ Record(row.dataset, "published")
      /\ Close(w)

\* The endpoint checks the dataset's status; the service writes it and leaves
\* the submission as it is.
BeginSchedule(w, u, d, e) ==
  /\ u \in StewardRequired
  /\ dataset[d].status \in Pending
  /\ Instant(e) > now
  /\ Begin(w, [op |-> "schedule", dataset |-> d, embargo |-> e])

CommitSchedule(w) ==
  LET t == txn[w]
  IN  /\ t.op = "schedule"
      /\ dataset' = [dataset EXCEPT ![t.dataset].status = "scheduled",
                                    ![t.dataset].embargo = t.embargo]
      /\ journal' = [journal EXCEPT ![t.dataset] = "scheduled"]
      /\ Close(w)
      /\ UNCHANGED submission

-----------------------------------------------------------------------------
(* Beat jobs *)

\* Mutants: the job runs one tick ahead; the job releases only on the dot.
Releasable_Ahead ==
  {d \in Datasets : /\ dataset[d].status = "scheduled"
                    /\ dataset[d].embargo # None
                    /\ now + 1 >= ComparedInstant(dataset[d].embargo)}

Releasable_OnTheDot ==
  {d \in Datasets : /\ dataset[d].status = "scheduled"
                    /\ dataset[d].embargo # None
                    /\ now = ComparedInstant(dataset[d].embargo)}

Releasable ==
  {d \in Datasets : /\ dataset[d].status = "scheduled"
                    /\ dataset[d].embargo # None
                    /\ now >= ComparedInstant(dataset[d].embargo)}

BeginRelease(w) ==
  /\ Releasable # {}
  /\ Begin(w, [op |-> "release", datasets |-> Releasable])

\* One UPDATE per dataset, and no event: the store still says "scheduled".
CommitRelease(w) ==
  /\ txn[w].op = "release"
  /\ dataset' = [d \in Datasets |->
       IF d \in txn[w].datasets
       THEN [dataset[d] EXCEPT !.status = "published", !.embargo = None]
       ELSE dataset[d]]
  /\ Close(w)
  /\ UNCHANGED <<submission, journal>>

\* Mutant: only the steward's queue is watched.
Overdue_FirstGate ==
  {s \in Submissions : /\ submission[s].status = "pending_review"
                       /\ ~submission[s].slaBreached
                       /\ submission[s].due < now}

Overdue ==
  {s \in Submissions : /\ submission[s].status \in Pending
                       /\ ~submission[s].slaBreached
                       /\ submission[s].due < now}

BeginFlag(w) ==
  /\ Overdue # {}
  /\ Begin(w, [op |-> "flag", submissions |-> Overdue])

CommitFlag(w) ==
  /\ txn[w].op = "flag"
  /\ submission' = [s \in Submissions |->
       IF s \in txn[w].submissions
       THEN [submission[s] EXCEPT !.slaBreached = TRUE]
       ELSE submission[s]]
  /\ Close(w)
  /\ UNCHANGED <<dataset, journal>>

Tick ==
  /\ now < MaxTime
  /\ now' = now + 1
  /\ UNCHANGED <<dataset, submission, journal, txn>>

-----------------------------------------------------------------------------
Init ==
  /\ dataset = [d \in Datasets |-> NoDataset]
  /\ submission = [s \in Submissions |-> NoSubmission]
  /\ journal = [d \in Datasets |-> "absent"]
  /\ txn = [w \in Sessions |-> Idle]
  /\ now = 0

Publisher(w) ==
  \E u \in Users, d \in Datasets :
    \/ BeginEdit(w, u, d)
    \/ BeginSubmit(w, u, d)
    \/ BeginArchive(w, u, d)

Steward(w) ==
  \E u \in Users :
    \/ \E s \in Submissions, action \in ReviewActions : BeginReview(w, u, s, action)
    \/ \E d \in Datasets, e \in Embargoes : BeginSchedule(w, u, d, e)

Approver(w) ==
  \E u \in Users, s \in Submissions : BeginApprove(w, u, s)

Commit(w) ==
  \/ CommitEdit(w)
  \/ CommitSubmit(w)
  \/ CommitArchive(w)
  \/ CommitReview(w)
  \/ CommitApprove(w)
  \/ CommitSchedule(w)
  \/ CommitRelease(w)
  \/ CommitFlag(w)

Next ==
  \/ \E u \in Users, d \in Datasets : CreateDataset(u, d)
  \/ \E d \in Datasets : IngestData(d)
  \/ \E w \in Sessions :
       \/ Publisher(w)
       \/ Steward(w)
       \/ Approver(w)
       \/ BeginRelease(w)
       \/ BeginFlag(w)
       \/ Commit(w)
       \/ Rollback(w)
  \/ Tick

Spec == Init /\ [][Next]_vars

\* The clock advances and every open transaction ends.  Beat starts each job
\* again and again, so one that could start infinitely often does, although it
\* competes for a session; and a job tried infinitely often does not fail every
\* time.
BeatFairness ==
  /\ WF_vars(Tick)
  /\ \A w \in Sessions : WF_vars(Commit(w) \/ Rollback(w))
  /\ SF_vars(\E w \in Sessions : BeginRelease(w))
  /\ SF_vars(\E w \in Sessions : BeginFlag(w))
  /\ \A w \in Sessions : SF_vars(CommitRelease(w)) /\ SF_vars(CommitFlag(w))

FairSpec == Spec /\ BeatFairness
=============================================================================
