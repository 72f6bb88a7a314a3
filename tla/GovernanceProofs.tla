-------------------------- MODULE GovernanceProofs --------------------------
(***************************************************************************)
(* Proofs about the governance workflow, for any datasets, users, roles,   *)
(* sessions and clock.                                                     *)
(***************************************************************************)
EXTENDS GovernanceProperties, TLAPS

-----------------------------------------------------------------------------
(* Type correctness *)

\* Opening a transaction disturbs nothing but the session's slot.
LEMMA BeginTyped ==
  ASSUME Typed, NEW w \in Sessions, NEW t \in Transactions, Begin(w, t)
  PROVE  Typed'
BY DEF Begin, Typed

\* Neither does closing one.
LEMMA CloseTyped ==
  ASSUME Typed, NEW w \in Sessions, Close(w)
  PROVE  txn' \in [Sessions -> Transactions] /\ now' \in 0..MaxTime
<1>1. Idle \in Transactions
  BY DEF Idle, Transactions
<1>. QED
  BY <1>1 DEF Close, Typed

\* A status change and its event keep both tables well typed.
LEMMA RecordTyped ==
  ASSUME Typed, NEW d \in Datasets, NEW to \in Statuses, Record(d, to)
  PROVE  /\ dataset' \in [Datasets -> DatasetRows]
         /\ journal' \in [Datasets -> Statuses \cup {"absent"}]
BY DEF Record, Typed, DatasetRows

\* A row that exists is complete; its dataset and its maker are real.
LEMMA ExistsIsRow ==
  ASSUME Typed, NEW s \in Submissions, Exists(s)
  PROVE  submission[s] \in Rows
BY DEF Typed, Exists, NoSubmission

\* What each open transaction holds, by the operation it runs.
LEMMA TxnShape ==
  ASSUME Typed, NEW w \in Sessions
  PROVE  /\ txn[w].op \in {"edit", "archive", "submit", "schedule"} => txn[w].dataset \in Datasets
         /\ txn[w].op = "edit" => txn[w].loaded \in Editable
         /\ txn[w].op = "submit" => txn[w].maker \in Users /\ txn[w].due \in Nat
         /\ txn[w].op = "schedule" => txn[w].embargo \in Embargoes
         /\ txn[w].op = "review" => /\ txn[w].submission \in Submissions
                                    /\ txn[w].checker \in Users
                                    /\ txn[w].target \in Verdicts
                                    /\ txn[w].overdue \in BOOLEAN
         /\ txn[w].op = "approve" => /\ txn[w].submission \in Submissions
                                     /\ txn[w].approver \in Users
         /\ txn[w].op = "release" => txn[w].datasets \subseteq Datasets
         /\ txn[w].op = "flag" => txn[w].submissions \subseteq Submissions
<1>1. txn[w] \in Transactions
  BY DEF Typed
<1>. QED
  BY <1>1 DEF Transactions

\* Every step keeps the type invariant.
LEMMA StepTyped ==
  ASSUME TypeOK, [Next]_vars
  PROVE  Typed'
<1>. Typed /\ TxnRefersToRows
  BY DEF TypeOK
<1>1. ASSUME NEW u \in Users, NEW d \in Datasets, CreateDataset(u, d)
      PROVE  Typed'
  <2>1. "draft" \in Statuses
    BY DEF Statuses
  <2>2. [dataset[d] EXCEPT !.status = "draft", !.publisher = u] \in DatasetRows
    <3>1. dataset[d] \in DatasetRows
      BY DEF Typed
    <3>. QED
      BY <2>1, <3>1 DEF DatasetRows
  <2>3. dataset' = [dataset EXCEPT ![d] = [dataset[d] EXCEPT !.status = "draft", !.publisher = u]]
    BY <1>1 DEF CreateDataset, Typed, DatasetRows
  <2>. QED
    BY <1>1, <2>1, <2>2, <2>3 DEF CreateDataset, Typed
<1>2. ASSUME NEW d \in Datasets, IngestData(d)
      PROVE  Typed'
  <2>1. dataset[d] \in DatasetRows
    BY DEF Typed
  <2>2. [dataset[d] EXCEPT !.hasData = TRUE] \in DatasetRows
    BY <2>1 DEF DatasetRows
  <2>. QED
    BY <1>2, <2>2 DEF IngestData, Typed
<1>3. ASSUME NEW w \in Sessions, NEW u \in Users, NEW d \in Datasets, BeginEdit(w, u, d)
      PROVE  Typed'
  <2>1. [op |-> "edit", dataset |-> d, loaded |-> dataset[d].status] \in Transactions
    BY <1>3 DEF BeginEdit, Transactions
  <2>. QED
    BY <1>3, <2>1, BeginTyped DEF BeginEdit
<1>4. ASSUME NEW w \in Sessions, NEW u \in Users, NEW d \in Datasets, BeginSubmit(w, u, d)
      PROVE  Typed'
  <2>1. now + ReviewSLA \in Nat
    BY TimeAssumption DEF Typed
  <2>2. [op |-> "submit", dataset |-> d, maker |-> u, due |-> now + ReviewSLA] \in Transactions
    BY <2>1 DEF Transactions
  <2>. QED
    BY <1>4, <2>2, BeginTyped DEF BeginSubmit
<1>5. ASSUME NEW w \in Sessions, NEW u \in Users, NEW d \in Datasets, BeginArchive(w, u, d)
      PROVE  Typed'
  <2>1. [op |-> "archive", dataset |-> d] \in Transactions
    BY DEF Transactions
  <2>. QED
    BY <1>5, <2>1, BeginTyped DEF BeginArchive
<1>6. ASSUME NEW w \in Sessions, NEW u \in Users, NEW s \in Submissions,
             NEW action \in ReviewActions, BeginReview(w, u, s, action)
      PROVE  Typed'
  <2>. DEFINE target == ReviewTarget(submission[s].dataset, action)
  <2>1. target \in Verdicts
    BY DEF ReviewTarget, ReviewActions, Verdicts, SubmissionStatuses
  <2>2. (now > submission[s].due) \in BOOLEAN
    OBVIOUS
  <2>3. [op |-> "review", submission |-> s, checker |-> u, target |-> target,
         overdue |-> now > submission[s].due] \in Transactions
    BY <2>1, <2>2 DEF Transactions
  <2>. QED
    BY <1>6, <2>3, BeginTyped DEF BeginReview
<1>7. ASSUME NEW w \in Sessions, NEW u \in Users, NEW s \in Submissions, BeginApprove(w, u, s)
      PROVE  Typed'
  <2>1. [op |-> "approve", submission |-> s, approver |-> u] \in Transactions
    BY DEF Transactions
  <2>. QED
    BY <1>7, <2>1, BeginTyped DEF BeginApprove
<1>8. ASSUME NEW w \in Sessions, NEW u \in Users, NEW d \in Datasets, NEW e \in Embargoes,
             BeginSchedule(w, u, d, e)
      PROVE  Typed'
  <2>1. [op |-> "schedule", dataset |-> d, embargo |-> e] \in Transactions
    BY DEF Transactions
  <2>. QED
    BY <1>8, <2>1, BeginTyped DEF BeginSchedule
<1>9. ASSUME NEW w \in Sessions, BeginRelease(w)
      PROVE  Typed'
  <2>1. [op |-> "release", datasets |-> Releasable] \in Transactions
    BY DEF Transactions, Releasable
  <2>. QED
    BY <1>9, <2>1, BeginTyped DEF BeginRelease
<1>10. ASSUME NEW w \in Sessions, BeginFlag(w)
       PROVE  Typed'
  <2>1. [op |-> "flag", submissions |-> Overdue] \in Transactions
    BY DEF Transactions, Overdue
  <2>. QED
    BY <1>10, <2>1, BeginTyped DEF BeginFlag
<1>11. ASSUME NEW w \in Sessions, CommitEdit(w)
       PROVE  Typed'
  <2>1. txn[w].dataset \in Datasets
    BY <1>11, TxnShape DEF CommitEdit
  <2>2. /\ dataset[txn[w].dataset] \in DatasetRows
        /\ dataset[txn[w].dataset].revision + 1 \in 0..MaxRevision
    BY <1>11, <2>1, TimeAssumption DEF CommitEdit, Typed, DatasetRows
  <2>3. txn' \in [Sessions -> Transactions] /\ now' \in 0..MaxTime
    BY <1>11, CloseTyped DEF CommitEdit
  <2>4. [dataset[txn[w].dataset] EXCEPT !.revision = @ + 1] \in DatasetRows
    BY <2>2 DEF DatasetRows
  <2>5. txn[w].loaded \in Statuses
    BY <1>11, TxnShape DEF CommitEdit, Editable, Statuses
  <2>. QED
    BY <1>11, <2>1, <2>3, <2>4, <2>5 DEF CommitEdit, Typed
<1>12. ASSUME NEW w \in Sessions, CommitSubmit(w)
       PROVE  Typed'
  <2>1. txn[w].dataset \in Datasets /\ txn[w].maker \in Users /\ txn[w].due \in Nat
    BY <1>12, TxnShape DEF CommitSubmit
  <2>2. [NoSubmission EXCEPT !.status = "pending_review", !.dataset = txn[w].dataset,
                             !.maker = txn[w].maker, !.due = txn[w].due] \in Rows
    BY <2>1 DEF NoSubmission, Rows, SubmissionStatuses
  <2>3. submission' \in [Submissions -> Rows \cup {NoSubmission}]
    BY <1>12, <2>2 DEF CommitSubmit, Typed
  <2>4. txn' \in [Sessions -> Transactions] /\ now' \in 0..MaxTime
    BY <1>12, CloseTyped DEF CommitSubmit
  <2>5. "pending_review" \in Statuses
    BY DEF Statuses
  <2>. QED
    BY <1>12, <2>1, <2>3, <2>4, <2>5, RecordTyped DEF CommitSubmit, Typed
<1>13. ASSUME NEW w \in Sessions, CommitArchive(w)
       PROVE  Typed'
  <2>1. txn[w].dataset \in Datasets
    BY <1>13, TxnShape DEF CommitArchive
  <2>2. txn' \in [Sessions -> Transactions] /\ now' \in 0..MaxTime
    BY <1>13, CloseTyped DEF CommitArchive
  <2>3. "archived" \in Statuses
    BY DEF Statuses
  <2>. QED
    BY <1>13, <2>1, <2>2, <2>3, RecordTyped DEF CommitArchive, Typed
<1>14. ASSUME NEW w \in Sessions, CommitReview(w)
       PROVE  Typed'
  <2>. DEFINE t == txn[w]
              row == Reviewed(submission[t.submission], t)
  <2>1. t.op = "review" /\ t.submission \in Submissions /\ t.checker \in Users
        /\ t.target \in SubmissionStatuses /\ t.overdue \in BOOLEAN
    BY <1>14, TxnShape DEF CommitReview, Verdicts
  <2>2. submission[t.submission] \in Rows
    BY <1>14, <2>1, ExistsIsRow DEF TxnRefersToRows
  <2>3. row \in Rows
    BY <2>1, <2>2 DEF Reviewed, Rows
  <2>4. row.dataset \in Datasets
    BY <2>3 DEF Rows
  <2>5. txn' \in [Sessions -> Transactions] /\ now' \in 0..MaxTime
    BY <1>14, CloseTyped DEF CommitReview
  <2>6. submission' \in [Submissions -> Rows \cup {NoSubmission}]
    BY <1>14, <2>1, <2>3 DEF CommitReview, Typed
  <2>. QED
    BY <1>14, <2>1, <2>4, <2>5, <2>6, RecordTyped
    DEF CommitReview, Typed, SubmissionStatuses, Statuses
<1>15. ASSUME NEW w \in Sessions, CommitApprove(w)
       PROVE  Typed'
  <2>. DEFINE t == txn[w]
              row == Approved(submission[t.submission], t)
  <2>1. t.op = "approve" /\ t.submission \in Submissions /\ t.approver \in Users
    BY <1>15, TxnShape DEF CommitApprove
  <2>2. submission[t.submission] \in Rows
    BY <1>15, <2>1, ExistsIsRow DEF TxnRefersToRows
  <2>3. row \in Rows
    BY <2>1, <2>2 DEF Approved, Rows, SubmissionStatuses
  <2>4. row.dataset \in Datasets /\ "published" \in Statuses
    BY <2>3 DEF Rows, Statuses
  <2>5. txn' \in [Sessions -> Transactions] /\ now' \in 0..MaxTime
    BY <1>15, CloseTyped DEF CommitApprove
  <2>6. submission' \in [Submissions -> Rows \cup {NoSubmission}]
    BY <1>15, <2>1, <2>3 DEF CommitApprove, Typed
  <2>. QED
    BY <1>15, <2>1, <2>4, <2>5, <2>6, RecordTyped DEF CommitApprove, Typed
<1>16. ASSUME NEW w \in Sessions, CommitSchedule(w)
       PROVE  Typed'
  <2>. DEFINE d == txn[w].dataset
              row == [dataset[d] EXCEPT !.status = "scheduled", !.embargo = txn[w].embargo]
  <2>1. d \in Datasets /\ txn[w].embargo \in Embargoes /\ "scheduled" \in Statuses
    BY <1>16, TxnShape DEF CommitSchedule, Statuses
  <2>2. row \in DatasetRows
    <3>1. dataset[d] \in DatasetRows
      BY <2>1 DEF Typed
    <3>. HIDE DEF d
    <3>. QED
      BY <2>1, <3>1 DEF DatasetRows
  <2>3. dataset' = [dataset EXCEPT ![d] = row]
    BY <1>16, <2>1 DEF CommitSchedule, Typed, DatasetRows
  <2>4. txn' \in [Sessions -> Transactions] /\ now' \in 0..MaxTime
    BY <1>16, CloseTyped DEF CommitSchedule
  <2>. QED
    BY <1>16, <2>1, <2>2, <2>3, <2>4 DEF CommitSchedule, Typed
<1>17. ASSUME NEW w \in Sessions, CommitRelease(w)
       PROVE  Typed'
  <2>1. txn' \in [Sessions -> Transactions] /\ now' \in 0..MaxTime
    BY <1>17, CloseTyped DEF CommitRelease
  <2>2. \A d \in Datasets :
          /\ dataset[d] \in DatasetRows
          /\ [dataset[d] EXCEPT !.status = "published", !.embargo = None] \in DatasetRows
    <3>1. "published" \in Statuses
      BY DEF Statuses
    <3>2. \A d \in Datasets : dataset[d] \in DatasetRows
      BY DEF Typed
    <3>. QED
      BY <3>1, <3>2 DEF DatasetRows
  <2>3. dataset' \in [Datasets -> DatasetRows]
    BY <1>17, <2>2 DEF CommitRelease
  <2>4. UNCHANGED <<submission, journal>>
    BY <1>17 DEF CommitRelease
  <2>. QED
    BY <2>1, <2>3, <2>4 DEF Typed
<1>18. ASSUME NEW w \in Sessions, CommitFlag(w)
       PROVE  Typed'
  <2>1. txn' \in [Sessions -> Transactions] /\ now' \in 0..MaxTime
    BY <1>18, CloseTyped DEF CommitFlag
  <2>2. \A s \in txn[w].submissions : submission[s] \in Rows
    BY <1>18, TxnShape, ExistsIsRow DEF CommitFlag, TxnRefersToRows
  <2>3. \A s \in txn[w].submissions : [submission[s] EXCEPT !.slaBreached = TRUE] \in Rows
    BY <2>2 DEF Rows
  <2>. QED
    BY <1>18, <2>1, <2>3 DEF CommitFlag, Typed
<1>19. ASSUME NEW w \in Sessions, Rollback(w)
       PROVE  Typed'
  BY <1>19, CloseTyped DEF Rollback, Typed
<1>20. CASE Tick
  BY <1>20, TimeAssumption DEF Tick, Typed
<1>21. CASE UNCHANGED vars
  BY <1>21 DEF vars, Typed
<1>. QED
  BY <1>1, <1>2, <1>3, <1>4, <1>5, <1>6, <1>7, <1>8, <1>9, <1>10, <1>11, <1>12, <1>13,
     <1>14, <1>15, <1>16, <1>17, <1>18, <1>19, <1>20, <1>21
  DEF Next, Publisher, Steward, Approver, Commit

-----------------------------------------------------------------------------
(* What a step can do to each variable *)

\* Only the commits of submit, review, approve and the SLA job touch submissions.
LEMMA SubmissionSteps ==
  ASSUME [Next]_vars
  PROVE  \/ UNCHANGED submission
         \/ \E w \in Sessions :
              CommitSubmit(w) \/ CommitReview(w) \/ CommitApprove(w) \/ CommitFlag(w)
<1>1. ASSUME NEW w \in Sessions, Publisher(w)
      PROVE  UNCHANGED submission
  BY <1>1 DEF Publisher, BeginEdit, BeginSubmit, BeginArchive, Begin
<1>2. ASSUME NEW w \in Sessions, Steward(w) \/ Approver(w)
      PROVE  UNCHANGED submission
  BY <1>2 DEF Steward, Approver, BeginReview, BeginSchedule, BeginApprove, Begin
<1>3. ASSUME NEW w \in Sessions, BeginRelease(w) \/ BeginFlag(w)
      PROVE  UNCHANGED submission
  BY <1>3 DEF BeginRelease, BeginFlag, Begin
<1>4. ASSUME NEW w \in Sessions, Commit(w)
      PROVE  \/ UNCHANGED submission
             \/ CommitSubmit(w) \/ CommitReview(w) \/ CommitApprove(w) \/ CommitFlag(w)
  BY <1>4 DEF Commit, CommitEdit, CommitArchive, CommitSchedule, CommitRelease
<1> QED
  BY <1>1, <1>2, <1>3, <1>4 DEF Next, vars, CreateDataset, IngestData, Rollback, Tick

\* A status and its event change in the publisher's create, in the commits of
\* the five workflow operations and in the release of embargoes; an edit may tell
\* the event store a draft once more.
LEMMA StatusSteps ==
  ASSUME Typed, [Next]_vars, NEW d \in Datasets
  PROVE  \/ dataset'[d].status = dataset[d].status /\ journal'[d] \in {journal[d]} \cup Editable
         \/ \E u \in Users : CreateDataset(u, d)
         \/ \E w \in Sessions :
              \/ CommitSubmit(w) \/ CommitArchive(w) \/ CommitReview(w)
              \/ CommitApprove(w) \/ CommitSchedule(w) \/ CommitRelease(w)
<1>1. ASSUME NEW u \in Users, NEW c \in Datasets, CreateDataset(u, c), c # d
      PROVE  dataset'[d].status = dataset[d].status /\ journal'[d] = journal[d]
  BY <1>1 DEF CreateDataset, Typed
<1>2. ASSUME NEW c \in Datasets, IngestData(c)
      PROVE  dataset'[d].status = dataset[d].status /\ journal'[d] = journal[d]
  BY <1>2 DEF IngestData, Typed, DatasetRows
<1>3. ASSUME NEW w \in Sessions, CommitEdit(w)
      PROVE  dataset'[d].status = dataset[d].status /\ journal'[d] \in {journal[d]} \cup Editable
  BY <1>3, TxnShape DEF CommitEdit, Typed, DatasetRows
<1>. QED
  BY <1>1, <1>2, <1>3
  DEF Next, vars, Publisher, BeginEdit, BeginSubmit, BeginArchive, Steward, BeginReview,
      BeginSchedule, Approver, BeginApprove, BeginRelease, BeginFlag, Begin, Commit, CommitFlag,
      Rollback, Tick

\* A session keeps its transaction, ends it, or begins one.
LEMMA TxnSteps ==
  ASSUME Typed, [Next]_vars, NEW w \in Sessions
  PROVE  \/ txn'[w] = txn[w]
         \/ txn'[w].op = "idle"
         \/ Publisher(w) \/ Steward(w) \/ Approver(w) \/ BeginRelease(w) \/ BeginFlag(w)
<1>1. ASSUME NEW v \in Sessions, Close(v)
      PROVE  txn'[w] = txn[w] \/ txn'[w].op = "idle"
  BY <1>1 DEF Close, Idle, Typed
<1>2. ASSUME NEW v \in Sessions, NEW t, Begin(v, t), v # w
      PROVE  txn'[w] = txn[w]
  BY <1>2 DEF Begin, Typed
<1>3. ASSUME NEW v \in Sessions, v # w,
             Publisher(v) \/ Steward(v) \/ Approver(v) \/ BeginRelease(v) \/ BeginFlag(v)
      PROVE  txn'[w] = txn[w]
  BY <1>2, <1>3
  DEF Publisher, BeginEdit, BeginSubmit, BeginArchive, Steward, BeginReview, BeginSchedule,
      Approver, BeginApprove, BeginRelease, BeginFlag
<1>4. ASSUME NEW v \in Sessions, Commit(v) \/ Rollback(v)
      PROVE  txn'[w] = txn[w] \/ txn'[w].op = "idle"
  BY <1>1, <1>4
  DEF Commit, CommitEdit, CommitSubmit, CommitArchive, CommitReview, CommitApprove,
      CommitSchedule, CommitRelease, CommitFlag, Rollback
<1>. QED
  BY <1>3, <1>4 DEF Next, vars, CreateDataset, IngestData, Tick

\* The life of a row: its dataset, maker and deadline never change, approval is
\* never taken back, and a reviewer's name is only ever replaced by another.
LEMMA RowHistory ==
  ASSUME TypeOK, [Next]_vars, NEW s \in Submissions, Exists(s)
  PROVE  /\ Exists(s)'
         /\ submission'[s].dataset = submission[s].dataset
         /\ submission'[s].maker = submission[s].maker
         /\ submission'[s].due = submission[s].due
         /\ submission[s].approved => submission'[s].approved
         /\ submission[s].checker # None => submission'[s].checker # None
         /\ submission[s].approver # None => submission'[s].approver # None
<1>. Typed /\ TxnRefersToRows
  BY DEF TypeOK
<1>0. submission[s] \in Rows
  BY ExistsIsRow
<1>1. ASSUME NEW w \in Sessions, CommitSubmit(w)
      PROVE  submission'[s] = submission[s]
  BY <1>1 DEF CommitSubmit, Exists, Typed
<1>2. ASSUME NEW w \in Sessions, CommitReview(w), txn[w].submission = s
      PROVE  submission'[s] = Reviewed(submission[s], txn[w]) /\ txn[w].checker \in Users
             /\ txn[w].target \in SubmissionStatuses
  BY <1>2, TxnShape DEF CommitReview, Typed, Verdicts
<1>3. ASSUME NEW w \in Sessions, CommitReview(w), txn[w].submission # s
      PROVE  submission'[s] = submission[s]
  BY <1>3 DEF CommitReview, Typed
<1>4. ASSUME NEW w \in Sessions, CommitApprove(w), txn[w].submission = s
      PROVE  submission'[s] = Approved(submission[s], txn[w]) /\ txn[w].approver \in Users
  BY <1>4, TxnShape DEF CommitApprove, Typed
<1>5. ASSUME NEW w \in Sessions, CommitApprove(w), txn[w].submission # s
      PROVE  submission'[s] = submission[s]
  BY <1>5 DEF CommitApprove, Typed
<1>6. ASSUME NEW w \in Sessions, CommitFlag(w)
      PROVE  \/ submission'[s] = submission[s]
             \/ submission'[s] = [submission[s] EXCEPT !.slaBreached = TRUE]
  BY <1>6 DEF CommitFlag
<1>7. CASE submission'[s] = submission[s]
  BY <1>7 DEF Exists
<1>8. CASE submission'[s] = [submission[s] EXCEPT !.slaBreached = TRUE]
  BY <1>0, <1>8 DEF Exists, Rows
<1>9. ASSUME NEW w \in Sessions, submission'[s] = Reviewed(submission[s], txn[w]),
             txn[w].checker \in Users, txn[w].target \in SubmissionStatuses
      PROVE  /\ Exists(s)'
             /\ submission'[s].dataset = submission[s].dataset
             /\ submission'[s].maker = submission[s].maker
             /\ submission'[s].due = submission[s].due
             /\ submission[s].approved => submission'[s].approved
             /\ submission'[s].checker # None
             /\ submission'[s].approver = submission[s].approver
  BY <1>0, <1>9, NoneAssumption DEF Exists, Rows, Reviewed, SubmissionStatuses
<1>10. ASSUME NEW w \in Sessions, submission'[s] = Approved(submission[s], txn[w]),
             txn[w].approver \in Users
      PROVE  /\ Exists(s)'
             /\ submission'[s].dataset = submission[s].dataset
             /\ submission'[s].maker = submission[s].maker
             /\ submission'[s].due = submission[s].due
             /\ submission'[s].approved
             /\ submission'[s].checker = submission[s].checker
             /\ submission'[s].approver # None
  BY <1>0, <1>10, NoneAssumption DEF Exists, Rows, Approved
<1>. QED
  BY <1>1, <1>2, <1>3, <1>4, <1>5, <1>6, <1>7, <1>8, <1>9, <1>10, SubmissionSteps

\* The dataset a review or an approval writes to is the one of its submission.
LEMMA CommitRecords ==
  ASSUME TypeOK, NEW w \in Sessions, CommitReview(w) \/ CommitApprove(w)
  PROVE  /\ txn[w].submission \in Submissions
         /\ submission[txn[w].submission].dataset \in Datasets
         /\ \E to \in Statuses : Record(submission[txn[w].submission].dataset, to)
<1>. Typed /\ TxnRefersToRows
  BY DEF TypeOK
<1>1. txn[w].submission \in Submissions
  BY TxnShape DEF CommitReview, CommitApprove
<1>2. submission[txn[w].submission] \in Rows
  BY <1>1, ExistsIsRow DEF CommitReview, CommitApprove, TxnRefersToRows
<1>3. CASE CommitReview(w)
  <2>1. Reviewed(submission[txn[w].submission], txn[w]).dataset
          = submission[txn[w].submission].dataset
    BY <1>2 DEF Reviewed, Rows
  <2>. QED
    BY <1>1, <1>2, <1>3, <2>1, TxnShape 
    DEF CommitReview, Rows, Verdicts, SubmissionStatuses, Statuses
<1>4. CASE CommitApprove(w)
  <2>1. Approved(submission[txn[w].submission], txn[w]).dataset
          = submission[txn[w].submission].dataset
    BY <1>2 DEF Approved, Rows
  <2>2. "published" \in Statuses
    BY DEF Statuses
  <2>. QED
    BY <1>1, <1>2, <1>4, <2>1, <2>2 DEF CommitApprove, Rows
<1>. QED
  BY <1>3, <1>4

-----------------------------------------------------------------------------
(* Invariants of every interleaving *)

\* Rows are never deleted, so what a transaction refers to is still there.
LEMMA StepTxnRefersToRows ==
  ASSUME TypeOK, [Next]_vars
  PROVE  TxnRefersToRows'
<1>. Typed /\ TxnRefersToRows
  BY DEF TypeOK
<1>. SUFFICES ASSUME NEW w \in Sessions
     PROVE  /\ txn'[w].op \in {"review", "approve"} => Exists(txn[w].submission)'
            /\ txn'[w].op = "flag" => \A s \in txn'[w].submissions : Exists(s)'
  BY DEF TxnRefersToRows
<1>1. CASE txn'[w] = txn[w]
  BY <1>1, RowHistory, TxnShape DEF TxnRefersToRows
<1>2. CASE txn'[w].op = "idle"
  BY <1>2
<1>3. CASE Publisher(w)
  BY <1>3 DEF Publisher, BeginEdit, BeginSubmit, BeginArchive, Begin, Typed
<1>4. ASSUME NEW u \in Users, NEW s \in Submissions, NEW action \in ReviewActions,
             BeginReview(w, u, s, action)
      PROVE  txn'[w].op = "review" /\ txn'[w].submission = s /\ Exists(s)'
  BY <1>4 DEF BeginReview, Begin, Typed, Exists
<1>5. ASSUME NEW u \in Users, NEW d \in Datasets, NEW e \in Embargoes, BeginSchedule(w, u, d, e)
      PROVE  txn'[w].op = "schedule"
  BY <1>5 DEF BeginSchedule, Begin, Typed
<1>6. CASE Steward(w)
  BY <1>4, <1>5, <1>6 DEF Steward
<1>7. CASE Approver(w)
  BY <1>7 DEF Approver, BeginApprove, Begin, Typed, Exists
<1>8. CASE BeginRelease(w)
  BY <1>8 DEF BeginRelease, Begin, Typed
<1>9. CASE BeginFlag(w)
  <2>1. txn'[w].op = "flag" /\ txn'[w].submissions = Overdue /\ submission' = submission
    BY <1>9 DEF BeginFlag, Begin, Typed
  <2>2. \A s \in Overdue : Exists(s)
    BY DEF Overdue, Exists, Pending
  <2>. QED
    BY <2>1, <2>2 DEF Exists
<1>. QED
  BY <1>1, <1>2, <1>3, <1>6, <1>7, <1>8, <1>9, TxnSteps

\* The tables, the event store and the open transactions always hold what their
\* columns and locals can hold, and no UPDATE by primary key misses its row.
THEOREM TypeCorrect == Spec => []TypeOK
<1>1. Init => TypeOK
  BY TimeAssumption
  DEF Init, TypeOK, Typed, TxnRefersToRows, DatasetRows, NoDataset, Idle, Transactions
<1>2. TypeOK /\ [Next]_vars => TypeOK'
  BY StepTyped, StepTxnRefersToRows DEF TypeOK
<1>. QED
  BY <1>1, <1>2, PTL DEF Spec

\* Whatever overlaps, what the event store tells last is out of date only on a
\* dataset that a release has published, or on one whose metadata an overtaken edit
\* changed.
THEOREM JournalLagsOnPublication == Spec => []JournalLag
<1>1. Init => JournalLag
  BY DEF Init, JournalLag, NoDataset
<1>2. TypeOK /\ JournalLag /\ [Next]_vars => JournalLag'
  <2>. SUFFICES ASSUME TypeOK, JournalLag, [Next]_vars, NEW d \in Datasets
                PROVE  dataset'[d].status # journal'[d] =>
                         dataset'[d].status = "published" \/ journal'[d] \in Editable
    BY DEF JournalLag
  <2>. Typed /\ TxnRefersToRows
    BY DEF TypeOK
  <2>0. dataset[d] \in DatasetRows
    BY DEF Typed
  <2>1. CASE dataset'[d].status = dataset[d].status /\ journal'[d] \in {journal[d]} \cup Editable
    BY <2>1 DEF JournalLag
  <2>2. ASSUME NEW c \in Datasets, NEW to, Record(c, to)
        PROVE  \/ dataset'[d].status = journal'[d]
               \/ dataset'[d].status = dataset[d].status /\ journal'[d] = journal[d]
    BY <2>0, <2>2 DEF Record, Typed, DatasetRows
  <2>3. ASSUME NEW u \in Users, CreateDataset(u, d)
        PROVE  dataset'[d].status = journal'[d]
    BY <2>0, <2>3 DEF CreateDataset, Typed, DatasetRows
  <2>4. ASSUME NEW w \in Sessions, CommitSubmit(w) \/ CommitArchive(w)
        PROVE  \/ dataset'[d].status = journal'[d]
               \/ dataset'[d].status = dataset[d].status /\ journal'[d] = journal[d]
    BY <2>2, <2>4, TxnShape DEF CommitSubmit, CommitArchive
  <2>5. ASSUME NEW w \in Sessions, CommitReview(w) \/ CommitApprove(w)
        PROVE  \/ dataset'[d].status = journal'[d]
               \/ dataset'[d].status = dataset[d].status /\ journal'[d] = journal[d]
    <3>1. \E c \in Datasets, to \in Statuses : Record(c, to)
      BY <2>5, CommitRecords
    <3>. QED
      BY <2>2, <3>1
  <2>6. ASSUME NEW w \in Sessions, CommitSchedule(w)
        PROVE  \/ dataset'[d].status = journal'[d]
               \/ dataset'[d].status = dataset[d].status /\ journal'[d] = journal[d]
    BY <2>0, <2>6, TxnShape DEF CommitSchedule, Typed, DatasetRows
  <2>7. ASSUME NEW w \in Sessions, CommitRelease(w)
        PROVE  \/ dataset'[d].status = "published"
               \/ dataset'[d].status = dataset[d].status /\ journal'[d] = journal[d]
    BY <2>0, <2>7 DEF CommitRelease, DatasetRows
  <2>. QED
    BY <2>1, <2>3, <2>4, <2>5, <2>6, <2>7, StatusSteps DEF JournalLag
<1>. QED
  BY <1>1, <1>2, TypeCorrect, PTL DEF Spec

\* Whatever reviews, approvals, resubmissions and embargoes overlap, an event
\* that a dataset was published is backed by a signed submission of that dataset,
\* and for a high-sensitivity one the senior approver signed.
THEOREM PublicationIsSigned == Spec => []PublicationSigned
<1>. DEFINE IInv == PublishingReviews /\ PublicationSigned
<1>1. Init => IInv
  BY DEF Init, PublishingReviews, PublicationSigned, Idle
<1>2. ASSUME TypeOK, IInv, [Next]_vars
      PROVE  PublishingReviews'
  <2>. Typed /\ TxnRefersToRows
    BY <1>2 DEF TypeOK
  <2>. SUFFICES ASSUME NEW w \in Sessions, txn'[w].op = "review", txn'[w].target = "published"
                PROVE  submission'[txn'[w].submission].dataset \notin HighSensitivity
    BY DEF PublishingReviews
  <2>1. CASE txn'[w] = txn[w]
    BY <1>2, <2>1, RowHistory, TxnShape DEF TxnRefersToRows, PublishingReviews
  <2>2. CASE Publisher(w)
    BY <2>2 DEF Publisher, BeginEdit, BeginSubmit, BeginArchive, Begin, Typed
  <2>3. ASSUME NEW u \in Users, NEW s \in Submissions, NEW action \in ReviewActions,
               BeginReview(w, u, s, action)
        PROVE  submission'[txn'[w].submission].dataset \notin HighSensitivity
    <3>1. /\ txn'[w].submission = s
          /\ submission' = submission
          /\ txn'[w].target = ReviewTarget(submission[s].dataset, action)
      BY <2>3 DEF BeginReview, Begin, Typed
    <3>2. ReviewTarget(submission[s].dataset, action) = "published"
            => submission[s].dataset \notin HighSensitivity
      BY DEF ReviewTarget, ReviewActions
    <3>. QED
      BY <3>1, <3>2
  <2>4. CASE Steward(w)
    <3>1. ASSUME NEW u \in Users, NEW d \in Datasets, NEW e \in Embargoes,
                 BeginSchedule(w, u, d, e)
          PROVE  FALSE
      BY <3>1 DEF BeginSchedule, Begin, Typed
    <3>. QED
      BY <2>3, <2>4, <3>1 DEF Steward
  <2>5. CASE Approver(w)
    BY <2>5 DEF Approver, BeginApprove, Begin, Typed
  <2>6. CASE BeginRelease(w) \/ BeginFlag(w)
    BY <2>6 DEF BeginRelease, BeginFlag, Begin, Typed
  <2>. QED
    BY <1>2, <2>1, <2>2, <2>4, <2>5, <2>6, TxnSteps
<1>3. ASSUME TypeOK, IInv, [Next]_vars
      PROVE  PublicationSigned'
  <2>. Typed /\ TxnRefersToRows
    BY <1>3 DEF TypeOK
  <2>. SUFFICES ASSUME NEW d \in Datasets, journal'[d] = "published"
                PROVE  \E s \in Submissions : submission'[s].dataset = d /\ Signed(s)'
    BY DEF PublicationSigned
  <2>1. CASE journal[d] = "published"
    <3>1. PICK s \in Submissions : submission[s].dataset = d /\ Signed(s)
      BY <1>3, <2>1 DEF PublicationSigned
    <3>2. Exists(s)
      BY <3>1 DEF Signed, Exists, Typed, Rows, NoSubmission, SubmissionStatuses
    <3>. QED
      BY <1>3, <3>1, <3>2, RowHistory DEF Signed
  <2>2. ASSUME NEW w \in Sessions, CommitReview(w), journal[d] # "published"
        PROVE  \E s \in Submissions : submission'[s].dataset = d /\ Signed(s)'
    <3>. DEFINE s == txn[w].submission
    <3>1. /\ s \in Submissions /\ Exists(s) /\ submission[s] \in Rows
          /\ txn[w].checker \in Users
      BY <2>2, TxnShape, ExistsIsRow DEF CommitReview, TxnRefersToRows
    <3>2. submission'[s] = Reviewed(submission[s], txn[w])
      BY <2>2, <3>1 DEF CommitReview, Typed
    <3>3. submission[s].dataset = d /\ txn[w].target = "published"
      BY <2>2, <3>1 DEF CommitReview, Record, Typed, Reviewed, Rows
    <3>4. d \notin HighSensitivity
      BY <1>3, <2>2, <3>3 DEF PublishingReviews, CommitReview
    <3>. HIDE DEF s
    <3>5. submission'[s].dataset = d /\ submission'[s].checker # None
      BY <3>1, <3>2, <3>3, NoneAssumption DEF Reviewed, Rows
    <3>6. submission'[s].approved = TRUE
      BY <3>1, <3>2, <3>3 DEF Reviewed, Rows
    <3>. QED
      BY <3>1, <3>4, <3>5, <3>6 DEF Signed
  <2>3. ASSUME NEW w \in Sessions, CommitApprove(w), journal[d] # "published"
        PROVE  \E s \in Submissions : submission'[s].dataset = d /\ Signed(s)'
    <3>. DEFINE s == txn[w].submission
    <3>1. /\ s \in Submissions /\ submission[s] \in Rows /\ txn[w].approver \in Users
      BY <2>3, TxnShape, ExistsIsRow DEF CommitApprove, TxnRefersToRows
    <3>2. submission'[s] = Approved(submission[s], txn[w])
      BY <2>3, <3>1 DEF CommitApprove, Typed
    <3>3. submission[s].dataset = d
      BY <2>3, <3>1 DEF CommitApprove, Record, Typed, Approved, Rows
    <3>4. /\ submission'[s].dataset = d
          /\ submission'[s].approved
          /\ submission'[s].approver # None
      BY <3>1, <3>2, <3>3, NoneAssumption DEF Approved, Rows
    <3>. QED
      BY <3>1, <3>4 DEF Signed
  <2>4. ASSUME NEW w \in Sessions, CommitSubmit(w) \/ CommitArchive(w)
        PROVE  journal[d] = "published"
    BY <2>4 DEF CommitSubmit, CommitArchive, Record, Typed
  <2>5. ASSUME NEW w \in Sessions, CommitSchedule(w) \/ CommitRelease(w)
        PROVE  journal[d] = "published"
    BY <2>5 DEF CommitSchedule, CommitRelease, Typed
  <2>6. ASSUME NEW u \in Users, CreateDataset(u, d)
        PROVE  journal[d] = "published"
    BY <2>6 DEF CreateDataset, Typed
  <2>. QED
    BY <1>3, <2>1, <2>2, <2>3, <2>4, <2>5, <2>6, StatusSteps DEF Editable
<1>4. IInv => PublicationSigned
  OBVIOUS
<1>. QED
  BY <1>1, <1>2, <1>3, <1>4, TypeCorrect, PTL DEF Spec

-----------------------------------------------------------------------------
(***************************************************************************)
(* When every handler has the dataset it writes to itself, and nobody asks *)
(* for an embargo: one open submission per dataset, and the statuses       *)
(* follow the abstract life cycle, with any number of sessions at work on  *)
(* different datasets.  The code takes no such lock when it reads, so this *)
(* is what the lock would buy, and what a single session has.  Both        *)
(* assumptions are needed; without either of them TLC refutes each of the  *)
(* theorems.                                                               *)
(***************************************************************************)

\* What the targets of a review and of an approval leave open: whatever a
\* submission can be moved to by them, it was waiting at a gate.
LEMMA OnlyPendingIsDecided ==
  ASSUME NEW from \in SubmissionStatuses, NEW to \in Verdicts,
         CanMove(from, to)
  PROVE  /\ from \in Pending
         /\ from = "pending_approval" => to \in {"published", "rejected"}
BY DEF Verdicts, SubmissionStatuses, CanMove, Transitions, Pending

\* The statuses a status update leaves behind.
LEMMA RecordStatus ==
  ASSUME Typed, NEW d \in Datasets, NEW to, Record(d, to), NEW c \in Datasets
  PROVE  dataset'[c].status = IF c = d THEN to ELSE dataset[c].status
<1>1. dataset[c] \in DatasetRows
  BY DEF Typed
<1>. QED
  BY <1>1 DEF Record, Typed, DatasetRows

\* The rows a review or an approval leaves behind.
LEMMA DecisionEffect ==
  ASSUME TypeOK, NEW w \in Sessions, CommitReview(w) \/ CommitApprove(w)
  PROVE  \E s \in Submissions, to \in SubmissionStatuses :
           /\ s = txn[w].submission
           /\ to = IF txn[w].op = "review" THEN txn[w].target ELSE "published"
           /\ submission[s] \in Rows
           /\ \A r \in Submissions :
                /\ submission'[r].status = IF r = s THEN to ELSE submission[r].status
                /\ submission'[r].dataset = submission[r].dataset
           /\ \A c \in Datasets :
                dataset'[c].status = IF c = submission[s].dataset THEN to ELSE dataset[c].status
<1>. Typed /\ TxnRefersToRows
  BY DEF TypeOK
<1>. DEFINE s == txn[w].submission
<1>1. s \in Submissions
  BY TxnShape DEF CommitReview, CommitApprove
<1>2. submission[s] \in Rows
  BY <1>1, ExistsIsRow DEF CommitReview, CommitApprove, TxnRefersToRows
<1>3. CASE CommitReview(w)
  <2>. DEFINE to == txn[w].target
  <2>1. to \in SubmissionStatuses /\ txn[w].op = "review"
    BY <1>3, TxnShape DEF CommitReview, Verdicts
  <2>2. /\ Reviewed(submission[s], txn[w]).status = to
        /\ Reviewed(submission[s], txn[w]).dataset = submission[s].dataset
    BY <1>2 DEF Reviewed, Rows
  <2>3. \A r \in Submissions :
          submission'[r] = IF r = s THEN Reviewed(submission[s], txn[w]) ELSE submission[r]
    BY <1>1, <1>3 DEF CommitReview, Typed
  <2>4. Record(submission[s].dataset, to) /\ submission[s].dataset \in Datasets
    BY <1>2, <1>3, <2>2 DEF CommitReview, Rows
  <2>. QED
    BY <1>1, <1>2, <2>1, <2>2, <2>3, <2>4, RecordStatus
<1>4. CASE CommitApprove(w)
  <2>1. "published" \in SubmissionStatuses /\ txn[w].op = "approve"
    BY <1>4 DEF CommitApprove, SubmissionStatuses
  <2>2. /\ Approved(submission[s], txn[w]).status = "published"
        /\ Approved(submission[s], txn[w]).dataset = submission[s].dataset
    BY <1>2 DEF Approved, Rows
  <2>3. \A r \in Submissions :
          submission'[r] = IF r = s THEN Approved(submission[s], txn[w]) ELSE submission[r]
    BY <1>1, <1>4 DEF CommitApprove, Typed
  <2>4. Record(submission[s].dataset, "published") /\ submission[s].dataset \in Datasets
    BY <1>2, <1>4, <2>2 DEF CommitApprove, Rows
  <2>. QED
    BY <1>1, <1>2, <2>1, <2>2, <2>3, <2>4, RecordStatus
<1>. QED
  BY <1>3, <1>4

\* Moving one open submission and its dataset to the same status keeps the two
\* in step and opens nothing.
LEMMA DecisionKeepsOneOpen ==
  ASSUME TypeOK, OneOpenSubmission, NEW s \in Submissions, NEW to, Open(s),
         submission[s] \in Rows,
         \A r \in Submissions :
           /\ submission'[r].status = IF r = s THEN to ELSE submission[r].status
           /\ submission'[r].dataset = submission[r].dataset,
         \A c \in Datasets :
           dataset'[c].status = IF c = submission[s].dataset THEN to ELSE dataset[c].status
  PROVE  OneOpenSubmission'
<1>1. submission[s].dataset \in Datasets
  BY DEF Rows
<1>2. \A r \in Submissions : Open(r) => submission[r] \in Rows
  BY DEF Open, Pending, TypeOK, Typed, NoSubmission
<1>3. \A r \in Submissions : Open(r)' => Open(r)
  BY DEF Open
<1>4. \A r, t \in Submissions :
        Open(r)' /\ Open(t)' /\ submission'[r].dataset = submission'[t].dataset => r = t
  BY <1>3 DEF OneOpenSubmission
<1>5. ASSUME NEW r \in Submissions, Open(r)'
      PROVE  dataset'[submission'[r].dataset].status = submission'[r].status
  <2>1. Open(r) /\ submission[r].dataset \in Datasets
    BY <1>2, <1>3, <1>5 DEF Rows
  <2>. QED
    BY <2>1 DEF OneOpenSubmission
<1>6. ASSUME NEW d \in Datasets, dataset'[d].status \in Pending
      PROVE  \E r \in Submissions : submission'[r].dataset = d /\ Open(r)'
  <2>1. CASE d = submission[s].dataset
    BY <1>6, <2>1 DEF Open
  <2>2. CASE d # submission[s].dataset
    BY <1>6, <2>2 DEF OneOpenSubmission, Open
  <2>. QED
    BY <2>1, <2>2
<1>. QED
  BY <1>4, <1>5, <1>6 DEF OneOpenSubmission

\* Submissions and statuses may stay as they are while a new draft appears.
LEMMA QuietKeepsOneOpen ==
  ASSUME TypeOK, OneOpenSubmission,
         \A r \in Submissions : /\ submission'[r].status = submission[r].status
                                /\ submission'[r].dataset = submission[r].dataset,
         \A c \in Datasets : \/ dataset'[c].status = dataset[c].status
                             \/ /\ dataset[c].status \notin Pending
                                /\ dataset'[c].status \notin Pending
  PROVE  OneOpenSubmission'
<1>1. \A r \in Submissions : Open(r)' <=> Open(r)
  BY DEF Open
<1>2. \A r \in Submissions : Open(r) => submission[r].dataset \in Datasets
  BY DEF Open, Pending, TypeOK, Typed, NoSubmission, Rows
<1>3. ASSUME NEW r \in Submissions, Open(r)
      PROVE  dataset'[submission[r].dataset].status = submission[r].status
  BY <1>2, <1>3 DEF OneOpenSubmission, Open
<1>4. \A r, t \in Submissions :
        Open(r)' /\ Open(t)' /\ submission'[r].dataset = submission'[t].dataset => r = t
  BY <1>1 DEF OneOpenSubmission
<1>5. \A r \in Submissions : Open(r)' => dataset'[submission'[r].dataset].status = submission'[r].status
  BY <1>1, <1>3
<1>6. \A d \in Datasets :
        dataset'[d].status \in Pending => \E r \in Submissions : submission'[r].dataset = d /\ Open(r)'
  BY <1>1 DEF OneOpenSubmission
<1>. QED
  BY <1>4, <1>5, <1>6 DEF OneOpenSubmission

\* A submission opens on a dataset that has none open.
LEMMA SubmitKeepsOneOpen ==
  ASSUME TypeOK, OneOpenSubmission, GuardsStillHold, NEW w \in Sessions, CommitSubmit(w)
  PROVE  OneOpenSubmission'
<1>. Typed
  BY DEF TypeOK
<1>. DEFINE d == txn[w].dataset
<1>1. d \in Datasets /\ dataset[d].status \notin Pending
  BY TxnShape DEF CommitSubmit, GuardsStillHold, CanMove, Transitions, Pending
<1>2. \A c \in Datasets : dataset'[c].status = IF c = d THEN "pending_review" ELSE dataset[c].status
  BY <1>1, RecordStatus DEF CommitSubmit
<1>3. PICK s \in Submissions :
        /\ ~Exists(s)
        /\ submission' = [submission EXCEPT ![s] =
             [NoSubmission EXCEPT !.status = "pending_review", !.dataset = d,
                                  !.maker = txn[w].maker, !.due = txn[w].due]]
  BY DEF CommitSubmit
<1>4. submission'[s].status = "pending_review" /\ submission'[s].dataset = d
  BY <1>3 DEF Typed, NoSubmission
<1>5. \A r \in Submissions \ {s} : submission'[r] = submission[r]
  BY <1>3 DEF Typed
<1>6. \A r \in Submissions : Open(r) => submission[r].dataset \in Datasets
  BY DEF Open, Pending, Typed, NoSubmission, Rows
<1>7. \A r \in Submissions : Open(r) => submission[r].dataset # d
  BY <1>1 DEF OneOpenSubmission, Open
<1>8. \A r \in Submissions \ {s} : Open(r)' <=> Open(r)
  BY <1>5 DEF Open
<1>9. \A r, t \in Submissions :
        Open(r)' /\ Open(t)' /\ submission'[r].dataset = submission'[t].dataset => r = t
  BY <1>4, <1>5, <1>7, <1>8 DEF OneOpenSubmission
<1>10. \A r \in Submissions : Open(r)' => dataset'[submission'[r].dataset].status = submission'[r].status
  <2>1. dataset'[submission'[s].dataset].status = submission'[s].status
    BY <1>1, <1>2, <1>4
  <2>2. \A r \in Submissions \ {s} :
          Open(r)' => dataset'[submission'[r].dataset].status = submission'[r].status
    BY <1>2, <1>5, <1>6, <1>7, <1>8 DEF OneOpenSubmission
  <2>. QED
    BY <2>1, <2>2
<1>11. \A c \in Datasets :
         dataset'[c].status \in Pending => \E r \in Submissions : submission'[r].dataset = c /\ Open(r)'
  <2>1. Open(s)'
    BY <1>4 DEF Open, Pending
  <2>2. ASSUME NEW c \in Datasets, c # d, dataset'[c].status \in Pending
        PROVE  \E r \in Submissions : submission'[r].dataset = c /\ Open(r)'
    <3>1. PICK r \in Submissions : submission[r].dataset = c /\ Open(r)
      BY <1>2, <2>2 DEF OneOpenSubmission
    <3>2. r # s
      BY <1>3, <3>1 DEF Exists, Open, Pending
    <3>. QED
      BY <1>5, <1>8, <3>1, <3>2
  <2>. QED
    BY <1>4, <2>1, <2>2
<1>. QED
  BY <1>9, <1>10, <1>11 DEF OneOpenSubmission

\* What a review or an approval decides was waiting, and its dataset with it.
LEMMA DecidesOpen ==
  ASSUME TypeOK, GuardsStillHold, OneOpenSubmission, NEW w \in Sessions,
         CommitReview(w) \/ CommitApprove(w)
  PROVE  /\ Open(txn[w].submission)
         /\ submission[txn[w].submission].dataset \in Datasets
         /\ dataset[submission[txn[w].submission].dataset].status = submission[txn[w].submission].status
<1>. Typed /\ TxnRefersToRows
  BY DEF TypeOK
<1>1. txn[w].submission \in Submissions /\ submission[txn[w].submission] \in Rows
  BY TxnShape, ExistsIsRow DEF CommitReview, CommitApprove, TxnRefersToRows
<1>2. Open(txn[w].submission)
  <2>1. CASE CommitReview(w)
    BY <1>1, <2>1, TxnShape, OnlyPendingIsDecided DEF CommitReview, GuardsStillHold, Open, Rows
  <2>2. CASE CommitApprove(w)
    <3>1. "published" \in Verdicts
      BY DEF Verdicts, SubmissionStatuses
    <3>. QED
      BY <1>1, <2>2, <3>1, OnlyPendingIsDecided DEF CommitApprove, GuardsStillHold, Open, Rows
  <2>. QED
    BY <2>1, <2>2
<1>. QED
  BY <1>1, <1>2 DEF OneOpenSubmission, Rows

-----------------------------------------------------------------------------
(* Steps of handlers that have their datasets to themselves *)

\* Which datasets the open transactions of the review workflow write.
LEMMA WritesOf ==
  ASSUME NEW w \in Sessions
  PROVE  /\ txn[w].op \in {"edit", "submit", "archive"} => txn[w].dataset \in Writes(w)
         /\ txn[w].op \in {"review", "approve"} =>
              submission[txn[w].submission].dataset \in Writes(w)
BY DEF Writes

\* What the open transactions checked still holds when another one begins: it
\* reads only.
LEMMA OthersKeepGuards ==
  ASSUME Typed, GuardsStillHold, UNCHANGED <<dataset, submission>>,
         NEW w \in Sessions, NEW t, txn' = [txn EXCEPT ![w] = t],
         t.op = "edit" => dataset[t.dataset].status \in Editable,
         t.op = "submit" => CanMove(dataset[t.dataset].status, "pending_review"),
         t.op = "archive" => CanMove(dataset[t.dataset].status, "archived"),
         t.op = "review" => CanMove(submission[t.submission].status, t.target),
         t.op = "approve" => CanMove(submission[t.submission].status, "published"),
         t.op \notin {"schedule", "release"}
  PROVE  GuardsStillHold'
<1>1. \A v \in Sessions : txn'[v] = IF v = w THEN t ELSE txn[v]
  BY DEF Typed
<1>. QED
  BY <1>1 DEF GuardsStillHold

\* Opening a transaction: its guards hold by the reads, and nothing else moves.
LEMMA BeginKeepsGuards ==
  ASSUME Unscheduled', TypeOK, OneOpenSubmission, GuardsStillHold, NEW w \in Sessions,
         Publisher(w) \/ Steward(w) \/ Approver(w) \/ BeginRelease(w) \/ BeginFlag(w)
  PROVE  OneOpenSubmission' /\ GuardsStillHold' /\ UNCHANGED <<dataset, submission>>
<1>. Typed
  BY DEF TypeOK
<1>1. UNCHANGED <<dataset, submission>>
  BY DEF Publisher, BeginEdit, BeginSubmit, BeginArchive, Steward, BeginReview, BeginSchedule,
         Approver, BeginApprove, BeginRelease, BeginFlag, Begin
<1>2. OneOpenSubmission'
  BY <1>1 DEF OneOpenSubmission, Open
<1>3. CASE Publisher(w)
  <2>1. ASSUME NEW u \in Users, NEW d \in Datasets, BeginEdit(w, u, d)
        PROVE  GuardsStillHold'
    BY <1>1, <2>1, OthersKeepGuards DEF BeginEdit, Begin
  <2>2. ASSUME NEW u \in Users, NEW d \in Datasets, BeginSubmit(w, u, d)
        PROVE  GuardsStillHold'
    BY <1>1, <2>2, OthersKeepGuards DEF BeginSubmit, Begin
  <2>3. ASSUME NEW u \in Users, NEW d \in Datasets, BeginArchive(w, u, d)
        PROVE  GuardsStillHold'
    BY <1>1, <2>3, OthersKeepGuards DEF BeginArchive, Begin
  <2>. QED
    BY <1>1, <1>2, <1>3, <2>1, <2>2, <2>3 DEF Publisher
<1>4. CASE Steward(w)
  <2>1. ASSUME NEW u \in Users, NEW s \in Submissions, NEW action \in ReviewActions,
               BeginReview(w, u, s, action)
        PROVE  GuardsStillHold'
    BY <1>1, <2>1, OthersKeepGuards DEF BeginReview, Begin
  <2>2. ASSUME NEW u \in Users, NEW d \in Datasets, NEW e \in Embargoes, BeginSchedule(w, u, d, e)
        PROVE  FALSE
    BY <2>2 DEF BeginSchedule, Begin, Typed, Unscheduled
  <2>. QED
    BY <1>1, <1>2, <1>4, <2>1, <2>2 DEF Steward
<1>5. CASE Approver(w)
  <2>1. PICK u \in Users, s \in Submissions : BeginApprove(w, u, s)
    BY <1>5 DEF Approver
  <2>. QED
    BY <1>1, <1>2, <2>1, OthersKeepGuards DEF BeginApprove, Begin
<1>6. CASE BeginRelease(w)
  BY <1>6 DEF BeginRelease, Releasable, GuardsStillHold
<1>7. CASE BeginFlag(w)
  BY <1>1, <1>2, <1>7, OthersKeepGuards DEF BeginFlag, Begin
<1>. QED
  BY <1>3, <1>4, <1>5, <1>6, <1>7

\* Ending a transaction: what it wrote is no other's, so the others' guards still
\* hold, and it has none left itself.
LEMMA CloseKeepsGuards ==
  ASSUME DatasetsLocked, TypeOK, GuardsStillHold, NEW w \in Sessions, Close(w),
         \A d \in Datasets : dataset'[d].status # "scheduled",
         \A d \in Datasets \ Writes(w) : dataset'[d].status = dataset[d].status,
         \A s \in Submissions :
           Exists(s) /\ submission[s].dataset \notin Writes(w) =>
             submission'[s].status = submission[s].status
  PROVE  GuardsStillHold'
<1>. Typed /\ TxnRefersToRows
  BY DEF TypeOK
<1>1. txn'[w].op = "idle"
  BY DEF Close, Idle, Typed
<1>2. ASSUME NEW v \in Sessions, v # w
      PROVE  txn'[v] = txn[v]
  BY <1>2 DEF Close, Typed
<1>3. ASSUME NEW v \in Sessions, v # w, txn[v].op \in {"edit", "submit", "archive"}
      PROVE  dataset'[txn[v].dataset].status = dataset[txn[v].dataset].status
  <2>1. txn[v].dataset \in Datasets /\ txn[v].dataset \in Writes(v)
    BY <1>3, WritesOf, TxnShape
  <2>. QED
    BY <1>3, <2>1 DEF DatasetsLocked
<1>4. ASSUME NEW v \in Sessions, v # w, txn[v].op \in {"review", "approve"}
      PROVE  submission'[txn[v].submission].status = submission[txn[v].submission].status
  <2>1. /\ txn[v].submission \in Submissions /\ Exists(txn[v].submission)
        /\ submission[txn[v].submission].dataset \in Writes(v)
    BY <1>4, WritesOf, TxnShape DEF TxnRefersToRows
  <2>. QED
    BY <1>4, <2>1 DEF DatasetsLocked
<1>5. ASSUME NEW v \in Sessions
      PROVE  /\ txn'[v].op = "edit" => dataset'[txn'[v].dataset].status \in Editable
             /\ txn'[v].op = "submit" => CanMove(dataset'[txn'[v].dataset].status, "pending_review")
             /\ txn'[v].op = "archive" => CanMove(dataset'[txn'[v].dataset].status, "archived")
             /\ txn'[v].op = "review" =>
                  CanMove(submission'[txn'[v].submission].status, txn'[v].target)
             /\ txn'[v].op = "approve" =>
                  CanMove(submission'[txn'[v].submission].status, "published")
             /\ txn'[v].op \notin {"schedule", "release"}
  <2>1. CASE v = w
    BY <1>1, <2>1
  <2>2. CASE v # w
    BY <1>2, <1>3, <1>4, <2>2 DEF GuardsStillHold
  <2>. QED
    BY <2>1, <2>2
<1>. QED
  BY <1>5 DEF GuardsStillHold

\* The commits that move no status.
LEMMA QuietCommit ==
  ASSUME DatasetsLocked, TypeOK, OneOpenSubmission, GuardsStillHold, NEW w \in Sessions,
         CommitEdit(w) \/ CommitFlag(w) \/ Rollback(w)
  PROVE  /\ OneOpenSubmission' /\ GuardsStillHold'
         /\ \A d \in Datasets : dataset'[d].status = dataset[d].status
<1>. Typed /\ TxnRefersToRows
  BY DEF TypeOK
<1>1. Close(w)
  BY DEF CommitEdit, CommitFlag, Rollback
<1>2. \A d \in Datasets : dataset'[d].status = dataset[d].status
  BY DEF CommitEdit, CommitFlag, Rollback, Typed, DatasetRows
<1>3. ASSUME NEW r \in Submissions
      PROVE  /\ submission'[r].status = submission[r].status
             /\ submission'[r].dataset = submission[r].dataset
  <2>1. submission[r] \in Rows \cup {NoSubmission}
    BY DEF Typed
  <2>2. submission'[r] = submission[r] \/ submission'[r] = [submission[r] EXCEPT !.slaBreached = TRUE]
    BY DEF CommitEdit, CommitFlag, Rollback
  <2>. QED
    BY <2>1, <2>2 DEF Rows, NoSubmission
<1>4. OneOpenSubmission'
  BY <1>2, <1>3, QuietKeepsOneOpen
<1>5. \A d \in Datasets : dataset'[d].status # "scheduled"
  BY <1>2 DEF GuardsStillHold
<1>. QED
  BY <1>1, <1>2, <1>3, <1>4, <1>5, CloseKeepsGuards

\* The commits that move a dataset from one status to another, and how.
LEMMA StatusCommit ==
  ASSUME DatasetsLocked, TypeOK, OneOpenSubmission, GuardsStillHold, NEW w \in Sessions,
         CommitSubmit(w) \/ CommitArchive(w) \/ CommitReview(w) \/ CommitApprove(w)
  PROVE  /\ OneOpenSubmission' /\ GuardsStillHold'
         /\ \E d \in Datasets, to \in Statuses :
              /\ CanMove(dataset[d].status, to) /\ dataset[d].status \in Statuses \ {"scheduled"}
              /\ \A c \in Datasets : dataset'[c].status = IF c = d THEN to ELSE dataset[c].status
<1>. Typed /\ TxnRefersToRows
  BY DEF TypeOK
<1>0. ASSUME NEW d \in Datasets, NEW to \in Statuses \ {"scheduled"}, d \in Writes(w),
             \A c \in Datasets : dataset'[c].status = IF c = d THEN to ELSE dataset[c].status,
             \A s \in Submissions :
               Exists(s) /\ submission[s].dataset \notin Writes(w) =>
                 submission'[s].status = submission[s].status
      PROVE  GuardsStillHold'
  <2>1. \A c \in Datasets : dataset'[c].status # "scheduled"
    BY <1>0 DEF GuardsStillHold
  <2>2. Close(w)
    BY DEF CommitSubmit, CommitArchive, CommitReview, CommitApprove
  <2>. QED
    BY <1>0, <2>1, <2>2, CloseKeepsGuards
<1>1. CASE CommitSubmit(w)
  <2>. DEFINE d == txn[w].dataset
  <2>1. d \in Datasets /\ CanMove(dataset[d].status, "pending_review")
    BY <1>1, TxnShape DEF CommitSubmit, GuardsStillHold
  <2>2. \A c \in Datasets : dataset'[c].status = IF c = d THEN "pending_review" ELSE dataset[c].status
    BY <1>1, <2>1, RecordStatus DEF CommitSubmit
  <2>3. "pending_review" \in Statuses \ {"scheduled"}
    BY DEF Statuses
  <2>4. dataset[d].status \in Statuses \ {"scheduled"}
    BY <2>1 DEF CanMove, Transitions, Statuses
  <2>5. \A s \in Submissions : Exists(s) => submission'[s].status = submission[s].status
    BY <1>1 DEF CommitSubmit, Typed
  <2>6. d \in Writes(w)
    BY <1>1, WritesOf DEF CommitSubmit
  <2>. QED
    BY <1>0, <1>1, <2>1, <2>2, <2>3, <2>4, <2>5, <2>6, SubmitKeepsOneOpen
<1>2. CASE CommitArchive(w)
  <2>. DEFINE d == txn[w].dataset
  <2>1. d \in Datasets /\ CanMove(dataset[d].status, "archived")
    BY <1>2, TxnShape DEF CommitArchive, GuardsStillHold
  <2>2. \A c \in Datasets : dataset'[c].status = IF c = d THEN "archived" ELSE dataset[c].status
    BY <1>2, <2>1, RecordStatus DEF CommitArchive
  <2>3. "archived" \in Statuses \ {"scheduled"} /\ "archived" \notin Pending
    BY DEF Statuses, Pending
  <2>4. dataset[d].status \in Statuses \ {"scheduled"} /\ dataset[d].status \notin Pending
    BY <2>1 DEF CanMove, Transitions, Statuses, Pending
  <2>5. OneOpenSubmission'
    BY <1>2, <2>2, <2>3, <2>4, QuietKeepsOneOpen DEF CommitArchive
  <2>6. d \in Writes(w) /\ UNCHANGED submission
    BY <1>2, WritesOf DEF CommitArchive
  <2>. QED
    BY <1>0, <2>1, <2>2, <2>3, <2>4, <2>5, <2>6
<1>3. CASE CommitReview(w) \/ CommitApprove(w)
  <2>1. PICK s \in Submissions, to \in SubmissionStatuses :
          /\ s = txn[w].submission
          /\ to = IF txn[w].op = "review" THEN txn[w].target ELSE "published"
          /\ submission[s] \in Rows
          /\ \A r \in Submissions :
               /\ submission'[r].status = IF r = s THEN to ELSE submission[r].status
               /\ submission'[r].dataset = submission[r].dataset
          /\ \A c \in Datasets :
               dataset'[c].status = IF c = submission[s].dataset THEN to ELSE dataset[c].status
    BY <1>3, DecisionEffect
  <2>2. /\ Open(s) /\ submission[s].dataset \in Datasets
        /\ dataset[submission[s].dataset].status = submission[s].status
    BY <1>3, <2>1, DecidesOpen
  <2>3. OneOpenSubmission'
    BY <2>1, <2>2, DecisionKeepsOneOpen
  <2>4. CanMove(submission[s].status, to)
    BY <1>3, <2>1 DEF CommitReview, CommitApprove, GuardsStillHold
  <2>5. to \in Statuses \ {"scheduled"}
    BY DEF SubmissionStatuses, Statuses
  <2>6. submission[s].status \in Statuses \ {"scheduled"}
    BY <2>2 DEF Open, Pending, Statuses
  <2>7. submission[s].dataset \in Writes(w)
    BY <1>3, <2>1, WritesOf DEF CommitReview, CommitApprove
  <2>. QED
    BY <1>0, <2>1, <2>2, <2>3, <2>4, <2>5, <2>6, <2>7
<1>. QED
  BY <1>1, <1>2, <1>3

\* Every step of handlers that have their datasets to themselves, without
\* embargoes, keeps the invariant and moves at most one dataset, from absent to
\* draft or along the table.
LEMMA LockedStep ==
  ASSUME DatasetsLocked, Unscheduled', TypeOK, OneOpenSubmission, GuardsStillHold, [Next]_vars
  PROVE  /\ OneOpenSubmission' /\ GuardsStillHold'
         /\ \/ \A d \in Datasets : dataset'[d].status = dataset[d].status
            \/ \E d \in Datasets, to \in Statuses :
                 /\ \/ dataset[d].status = "absent" /\ to = "draft"
                    \/ /\ CanMove(dataset[d].status, to)
                       /\ dataset[d].status \in Statuses \ {"scheduled"}
                 /\ \A c \in Datasets :
                      dataset'[c].status = IF c = d THEN to ELSE dataset[c].status
<1>. Typed
  BY DEF TypeOK
<1>1. ASSUME UNCHANGED <<txn, submission>>,
             \A c \in Datasets : \/ dataset'[c].status = dataset[c].status
                                 \/ dataset[c].status = "absent" /\ dataset'[c].status = "draft"
      PROVE  OneOpenSubmission' /\ GuardsStillHold'
  <2>1. OneOpenSubmission'
    BY <1>1, QuietKeepsOneOpen DEF Pending
  <2>2. ASSUME NEW w \in Sessions
        PROVE  /\ txn[w].op = "edit" => dataset'[txn[w].dataset].status \in Editable
               /\ txn[w].op = "submit" => CanMove(dataset'[txn[w].dataset].status, "pending_review")
               /\ txn[w].op = "archive" => CanMove(dataset'[txn[w].dataset].status, "archived")
    BY <1>1, TxnShape DEF GuardsStillHold, Editable, CanMove, Transitions
  <2>3. \A d \in Datasets : dataset'[d].status # "scheduled"
    BY <1>1 DEF GuardsStillHold
  <2>. QED
    BY <1>1, <2>1, <2>2, <2>3 DEF GuardsStillHold
<1>2. ASSUME NEW u \in Users, NEW d \in Datasets, CreateDataset(u, d)
      PROVE  /\ dataset[d].status = "absent"
             /\ \A c \in Datasets : dataset'[c].status = IF c = d THEN "draft" ELSE dataset[c].status
             /\ UNCHANGED <<txn, submission>>
  BY <1>2 DEF CreateDataset, Typed, DatasetRows
<1>3. ASSUME NEW d \in Datasets, IngestData(d)
      PROVE  /\ \A c \in Datasets : dataset'[c].status = dataset[c].status
             /\ UNCHANGED <<txn, submission>>
  BY <1>3 DEF IngestData, Typed, DatasetRows
<1>4. CASE Tick \/ UNCHANGED vars
  BY <1>1, <1>4 DEF Tick, vars
<1>5. ASSUME NEW w \in Sessions, CommitSchedule(w) \/ CommitRelease(w)
      PROVE  FALSE
  BY <1>5 DEF CommitSchedule, CommitRelease, GuardsStillHold
<1>6. "draft" \in Statuses
  BY DEF Statuses
<1>. QED
  BY <1>1, <1>2, <1>3, <1>4, <1>5, <1>6, BeginKeepsGuards, QuietCommit, StatusCommit
  DEF Next, Commit

-----------------------------------------------------------------------------
(* Theorems *)

\* Initially no dataset exists, nothing is open and every session is idle.
LEMMA InitGuards ==
  Init => OneOpenSubmission /\ GuardsStillHold
BY DEF Init, OneOpenSubmission, Open, Pending, GuardsStillHold, NoDataset, NoSubmission, Idle

\* While every handler has its dataset to itself and nobody asks for an embargo,
\* every dataset under review has exactly one submission, waiting at the same gate:
\* a second one can only come of two handlers that overlap on one dataset
\* (submit_for_review, review, approve).
THEOREM LockedOneOpen ==
  Spec /\ []DatasetsLocked /\ []Unscheduled => []OneOpenSubmission
<1>. DEFINE IInv == OneOpenSubmission /\ GuardsStillHold
<1>1. Init => IInv
  BY InitGuards
<1>2. TypeOK /\ DatasetsLocked /\ Unscheduled' /\ IInv /\ [Next]_vars => IInv'
  BY LockedStep
<1>3. IInv => OneOpenSubmission
  OBVIOUS
<1>. QED
  BY <1>1, <1>2, <1>3, TypeCorrect, PTL DEF Spec

\* A move the TRANSITIONS table allows is a step of the abstract life cycle.
LEMMA TableStepIsLifecycleStep ==
  ASSUME NEW d \in Datasets, NEW to \in Statuses,
         \/ dataset[d].status = "absent" /\ to = "draft"
         \/ /\ CanMove(dataset[d].status, to)
            /\ dataset[d].status \in Statuses \ {"scheduled"},
         \A c \in Datasets : dataset'[c].status = IF c = d THEN to ELSE dataset[c].status
  PROVE  Lifecycle!Next
<1>. DEFINE status == [c \in Datasets |-> dataset[c].status]
            from   == dataset[d].status
<1>1. status' = [status EXCEPT ![d] = to]
  OBVIOUS
<1>2. status[d] = from
  OBVIOUS
<1>3. \/ from = "absent" /\ to = "draft"
      \/ from \in {"draft", "changes_requested"} /\ to = "pending_review"
      \/ from = "pending_review" /\ to = "changes_requested"
      \/ from = "pending_review" /\ to = "pending_approval"
      \/ from \in {"pending_review", "pending_approval"} /\ to = "published"
      \/ from \in {"pending_review", "pending_approval"} /\ to = "rejected"
      \/ from = "published" /\ to = "archived"
  BY DEF CanMove, Transitions, Statuses
<1>. HIDE DEF status, from
<1>4. \/ Lifecycle!Create(d) \/ Lifecycle!Submit(d) \/ Lifecycle!RequestChanges(d)
      \/ Lifecycle!Escalate(d) \/ Lifecycle!Publish(d) \/ Lifecycle!Reject(d)
      \/ Lifecycle!Archive(d)
  BY <1>1, <1>2, <1>3
  DEF status, Lifecycle!Create, Lifecycle!Submit, Lifecycle!RequestChanges, Lifecycle!Escalate,
      Lifecycle!Publish, Lifecycle!Reject, Lifecycle!Archive, Lifecycle!Move, Lifecycle!Awaiting
<1>. QED
  BY <1>4 DEF Lifecycle!Next

\* While every handler has its dataset to itself and nobody asks for an embargo,
\* the workflow implements the abstract life cycle: statuses move along its edges
\* only, however the handlers of different datasets overlap.
THEOREM LockedImplementsLifecycle ==
  Spec /\ []DatasetsLocked /\ []Unscheduled => ImplementsLifecycle
<1>. DEFINE IInv == OneOpenSubmission /\ GuardsStillHold
<1>1. Init => Lifecycle!Init
  BY DEF Init, Lifecycle!Init, NoDataset
<1>2. Init => IInv
  BY InitGuards
<1>3. TypeOK /\ DatasetsLocked /\ Unscheduled' /\ IInv /\ [Next]_vars => IInv'
  BY LockedStep
<1>4. TypeOK /\ DatasetsLocked /\ Unscheduled' /\ IInv /\ [Next]_vars
        => [Lifecycle!Next]_([d \in Datasets |-> dataset[d].status])
  <2>. SUFFICES ASSUME TypeOK, DatasetsLocked, Unscheduled', IInv, [Next]_vars
                PROVE  \/ Lifecycle!Next
                       \/ \A d \in Datasets : dataset'[d].status = dataset[d].status
    OBVIOUS
  <2>. QED
    BY LockedStep, TableStepIsLifecycleStep
<1>. QED
  BY <1>1, <1>2, <1>3, <1>4, TypeCorrect, PTL DEF Spec, ImplementsLifecycle, Lifecycle!Spec

\* While every handler has its dataset to itself and nobody asks for an embargo,
\* metadata is edited on drafts and on datasets sent back for changes, never under
\* review or once published: only a submit that overlaps the edit changes that.
THEOREM LockedMetadataFrozen ==
  Spec /\ []DatasetsLocked /\ []Unscheduled => ReviewedMetadataFrozen
<1>. DEFINE IInv == OneOpenSubmission /\ GuardsStillHold
            Frozen == \A d \in Datasets :
                        dataset'[d].revision # dataset[d].revision =>
                          dataset[d].status \in {"draft", "changes_requested"}
<1>1. Init => IInv
  BY InitGuards
<1>2. TypeOK /\ DatasetsLocked /\ Unscheduled' /\ IInv /\ [Next]_vars => IInv'
  BY LockedStep
<1>3. ASSUME TypeOK, IInv, [Next]_vars
      PROVE  Frozen
  <2>. Typed
    BY <1>3 DEF TypeOK
  <2>. SUFFICES ASSUME NEW d \in Datasets, dataset'[d].revision # dataset[d].revision
                PROVE  dataset[d].status \in {"draft", "changes_requested"}
    OBVIOUS
  <2>0. dataset[d] \in DatasetRows
    BY DEF Typed
  <2>1. ASSUME NEW w \in Sessions, CommitEdit(w)
        PROVE  dataset[d].status \in {"draft", "changes_requested"}
    <3>1. txn[w].dataset = d
      BY <2>1 DEF CommitEdit, Typed
    <3>. QED
      BY <1>3, <2>1, <3>1 DEF CommitEdit, GuardsStillHold, Editable
  <2>2. ASSUME NEW c \in Datasets, NEW to, Record(c, to)
        PROVE  dataset'[d].revision = dataset[d].revision
    BY <2>0, <2>2 DEF Record, Typed, DatasetRows
  <2>3. ASSUME NEW w \in Sessions, CommitSubmit(w) \/ CommitArchive(w)
        PROVE  FALSE
    BY <2>2, <2>3, TxnShape DEF CommitSubmit, CommitArchive
  <2>4. ASSUME NEW w \in Sessions, CommitReview(w) \/ CommitApprove(w)
        PROVE  FALSE
    BY <1>3, <2>2, <2>4, CommitRecords
  <2>5. ASSUME NEW w \in Sessions, CommitSchedule(w) \/ CommitRelease(w)
        PROVE  FALSE
    BY <1>3, <2>5 DEF CommitSchedule, CommitRelease, GuardsStillHold
  <2>6. ASSUME NEW u \in Users, NEW c \in Datasets, CreateDataset(u, c)
        PROVE  FALSE
    BY <2>0, <2>6 DEF CreateDataset, Typed, DatasetRows
  <2>7. ASSUME NEW c \in Datasets, IngestData(c)
        PROVE  FALSE
    BY <2>0, <2>7 DEF IngestData, Typed, DatasetRows
  <2>. QED
    BY <1>3, <2>1, <2>3, <2>4, <2>5, <2>6, <2>7
    DEF Next, vars, Publisher, BeginEdit, BeginSubmit, BeginArchive, Steward, BeginReview,
        BeginSchedule, Approver, BeginApprove, BeginRelease, BeginFlag, Begin, Commit,
        CommitFlag, Rollback, Tick
<1>4. TypeOK /\ IInv /\ [Next]_vars => [Frozen]_vars
  BY <1>3
<1>. HIDE DEF Frozen
<1>5. Spec /\ []DatasetsLocked /\ []Unscheduled => [][Frozen]_vars
  BY <1>1, <1>2, <1>4, TypeCorrect, PTL DEF Spec
<1>. QED
  BY <1>5 DEF ReviewedMetadataFrozen, Frozen
=============================================================================
