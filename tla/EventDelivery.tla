--------------------------- MODULE EventDelivery ---------------------------
(***************************************************************************)
(* From a workflow event to its consumers: _emit_event queues one          *)
(* delivery per matching webhook and, for a publication, the indexing of   *)
(* the dataset, all while its own transaction is still open; Celery        *)
(* workers deliver at least once.  One dataset, since deliveries of        *)
(* different datasets share nothing but the webhook rows.                  *)
(***************************************************************************)
EXTENDS Naturals, Sequences, FiniteSets

CONSTANTS
  Webhooks,       \* ids a webhook row may get
  Subscriptions,  \* the event lists a developer may register
  MaxEvents,      \* transactions that emit an event
  MaxTests,       \* test deliveries a developer asks for
  MaxLosses,      \* workers lost
  RowSecurity     \* the database role is subject to row-level security

VARIABLES
  status,     \* the committed status of the dataset and of its submission
  txn,        \* the open workflow transaction
  hook,       \* the webhooks table
  replica,    \* the webhooks that the read replica has
  queue,      \* messages the broker has not seen acknowledged
  running,    \* deliveries in progress, with what each has loaded
  point,      \* the dataset has a point in the Qdrant collection
  count,      \* events, tests and lost workers so far
  attempted,  \* history: deliveries for which a POST was made
  dropped,    \* history: messages whose task ended with an exception
  outcomes,   \* history: per webhook, the recorded results in commit order
  published   \* history: the dataset was published at some time

vars == <<status, txn, hook, replica, queue, running, point, count, attempted, dropped,
          outcomes, published>>

Row(dataset, submission) == [dataset |-> dataset, submission |-> submission]

\* What submit, review, approve, schedule and archive may do to the statuses s
\* of the dataset and its submission, with the event each one emits.
Emitted(s) ==
  LET Reviewed(verdicts) == {<<v[1], Row(v[2], v[2])>> : v \in verdicts}
      final == {<<"DatasetPublished", "published">>, <<"DatasetRejected", "rejected">>}
  IN UNION {
       IF s.dataset \in {"draft", "changes_requested"}
       THEN {<<"DatasetSubmitted", Row("pending_review", "pending_review")>>} ELSE {},
       IF s.submission = "pending_review"
       THEN Reviewed(final \union {<<"DatasetChangesRequested", "changes_requested">>,
                                   <<"DatasetPendingApproval", "pending_approval">>})
       ELSE {},
       IF s.submission = "pending_approval" THEN Reviewed(final) ELSE {},
       IF s.dataset \in {"pending_review", "pending_approval"}
       THEN {<<"DatasetScheduled", Row("scheduled", s.submission)>>} ELSE {},
       IF s.dataset = "published"
       THEN {<<"DatasetArchived", Row("archived", s.submission)>>} ELSE {}}

AllowedEvents == {"DatasetSubmitted", "DatasetPublished", "DatasetRejected",
                  "DatasetArchived", "DatasetScheduled"}

ASSUME DeliveryAssumption ==
  /\ Subscriptions \subseteq SUBSET AllowedEvents
  /\ MaxEvents \in Nat /\ MaxTests \in Nat /\ MaxLosses \in Nat
  /\ RowSecurity \in BOOLEAN
  /\ "index" \notin Webhooks

NoTxn == [n |-> 0]

\* What a message or a test asks for: the consumer and the event's number.
Messages == [to : Webhooks \union {"index"}, n : 0 .. MaxEvents]

Absent == [row |-> FALSE, events |-> {}, failures |-> 0]

Init ==
  /\ status = Row("draft", "none")
  /\ txn = NoTxn
  /\ hook = [h \in Webhooks |-> Absent]
  /\ replica = {}
  /\ queue = {}
  /\ running = {}
  /\ point = FALSE
  /\ count = [events |-> 0, tests |-> 0, losses |-> 0]
  /\ attempted = {}
  /\ dropped = {}
  /\ outcomes = [h \in Webhooks |-> <<>>]
  /\ published = FALSE

-----------------------------------------------------------------------------
(* The workflow transaction *)

\* enqueue_matching_webhooks: the rows committed so far that list the event.
Matching(event) == {h \in Webhooks : hook[h].row /\ event \in hook[h].events}

\* _emit_event: everything is queued before the transaction ends.
Emit ==
  LET n == count.events + 1 IN
  /\ txn = NoTxn /\ n <= MaxEvents
  /\ \E e \in Emitted(status) :
       /\ txn' = [n |-> n, status |-> e[2]]
       /\ queue' = queue \union [to : Matching(e[1]), n : {n}]
                         \union (IF e[1] = "DatasetPublished"
                                 THEN {[to |-> "index", n |-> n]} ELSE {})
  /\ count' = [count EXCEPT !.events = n]
  /\ UNCHANGED <<status, hook, replica, running, point, attempted, dropped, outcomes,
                 published>>

\* The embargo job publishes without an event, so nobody is told.
Release ==
  /\ txn = NoTxn /\ status.dataset = "scheduled"
  /\ status' = [status EXCEPT !.dataset = "published"]
  /\ published' = TRUE
  /\ UNCHANGED <<txn, hook, replica, queue, running, point, count, attempted, dropped,
                 outcomes>>

Commit ==
  /\ txn # NoTxn
  /\ status' = txn.status
  /\ published' = (published \/ txn.status.dataset = "published")
  /\ txn' = NoTxn
  /\ UNCHANGED <<hook, replica, queue, running, point, count, attempted, dropped,
                 outcomes>>

\* An exception after the event: what was queued stays queued.
Rollback ==
  /\ txn # NoTxn
  /\ txn' = NoTxn
  /\ UNCHANGED <<status, hook, replica, queue, running, point, count, attempted,
                 dropped, outcomes, published>>

-----------------------------------------------------------------------------
(* The developer's webhook endpoints *)

CreateWebhook(h, events) ==
  /\ hook[h] = Absent /\ outcomes[h] = <<>>
  /\ hook' = [hook EXCEPT ![h] = [row |-> TRUE, events |-> events, failures |-> 0]]
  /\ UNCHANGED <<status, txn, replica, queue, running, point, count, attempted, dropped,
                 outcomes, published>>

\* The endpoint answers "deleted" even where no policy lets the row go.
DeleteWebhook(h) ==
  /\ hook[h].row /\ ~RowSecurity
  /\ hook' = [hook EXCEPT ![h].row = FALSE]
  /\ UNCHANGED <<status, txn, replica, queue, running, point, count, attempted, dropped,
                 outcomes, published>>

\* The synchronous test delivery runs the same code without a message.
TestWebhook(h) ==
  /\ hook[h].row
  /\ count.tests < MaxTests
  /\ count' = [count EXCEPT !.tests = @ + 1]
  /\ running' = running \union
       {[id |-> MaxEvents + count.tests + 1, msg |-> [to |-> h, n |-> 0],
         phase |-> "loaded", loaded |-> hook[h].failures]}
  /\ UNCHANGED <<status, txn, hook, replica, queue, point, attempted, dropped, outcomes,
                 published>>

-----------------------------------------------------------------------------
(* deliver_webhook *)

Waiting == {m \in queue : \A j \in running : j.msg # m}

\* What the write engine commits arrives at the read engine's server later.
Replicate ==
  /\ replica # {h \in Webhooks : hook[h].row}
  /\ replica' = {h \in Webhooks : hook[h].row}
  /\ UNCHANGED <<status, txn, hook, queue, running, point, count, attempted, dropped,
                 outcomes, published>>

\* The policy on webhooks shows a row to its own tenant, and to a role it does
\* not bind.
Shows(tenantSet) == ~RowSecurity \/ tenantSet

\* deliver_webhook asks the replica without a tenant set, to learn the tenant,
\* then the writer with it.
Found(h) == h \in replica /\ Shows(FALSE) /\ hook[h].row /\ Shows(TRUE)

\* Load the row; a row that is not found settles the message.
Load(m) ==
  /\ m \in Waiting /\ m.to \in Webhooks
  /\ IF Found(m.to)
     THEN /\ running' = running \union {[id |-> m.n, msg |-> m, phase |-> "loaded",
                                         loaded |-> hook[m.to].failures]}
          /\ UNCHANGED queue
     ELSE /\ queue' = queue \ {m}
          /\ UNCHANGED running
  /\ UNCHANGED <<status, txn, hook, replica, point, count, attempted, dropped, outcomes,
                 published>>

\* The POST: the subscriber answers below 400, or not, or not in ten seconds.
Post(j, outcome) ==
  /\ j.phase = "loaded" /\ j.msg.to \in Webhooks
  /\ running' = (running \ {j}) \union
       {[id |-> j.id, msg |-> j.msg, phase |-> outcome, loaded |-> j.loaded]}
  /\ attempted' = attempted \union {j.msg}
  /\ UNCHANGED <<status, txn, hook, replica, queue, point, count, dropped, outcomes,
                 published>>

\* Mutant: the count is computed from the row loaded before the POST.
Counted_Loaded(current, loaded, outcome) == IF outcome = "ok" THEN 0 ELSE loaded + 1

\* failure_count = failure_count + 1 is evaluated by the UPDATE itself.
Counted(current, loaded, outcome) == IF outcome = "ok" THEN 0 ELSE current + 1

\* The UPDATE and the commit; a row deleted meanwhile is not updated.
Record(j) ==
  LET h == j.msg.to IN
  /\ j.phase \in {"ok", "failed"}
  /\ IF hook[h].row
     THEN /\ hook' = [hook EXCEPT ![h].failures = Counted(@, j.loaded, j.phase)]
          /\ outcomes' = [outcomes EXCEPT ![h] = Append(@, j.phase)]
     ELSE UNCHANGED <<hook, outcomes>>
  /\ running' = running \ {j}
  /\ queue' = queue \ {j.msg}
  /\ UNCHANGED <<status, txn, replica, point, count, attempted, dropped, published>>

-----------------------------------------------------------------------------
(* index_dataset_search *)

\* Mutant: the status is not read again.
Indexable_Always(current) == TRUE

Indexable(current) == current = "published"

\* Read the committed row; what is not published is skipped for good.
LoadDataset(m) ==
  /\ m \in Waiting /\ m.to = "index"
  /\ IF Indexable(status.dataset)
     THEN /\ running' = running \union {[id |-> m.n, msg |-> m, phase |-> "read",
                                         loaded |-> 0]}
          /\ UNCHANGED queue
     ELSE /\ queue' = queue \ {m}
          /\ UNCHANGED running
  /\ UNCHANGED <<status, txn, hook, replica, point, count, attempted, dropped, outcomes,
                 published>>

\* The upsert; an error of Qdrant is logged and the message settled all the same.
Upsert(j, stored) ==
  /\ j.phase = "read"
  /\ point' = (point \/ stored)
  /\ running' = running \ {j}
  /\ queue' = queue \ {j.msg}
  /\ UNCHANGED <<status, txn, hook, replica, count, attempted, dropped, outcomes,
                 published>>

-----------------------------------------------------------------------------
(* Workers *)

\* Mutant: messages are acknowledged when they are received.
Unsettled_Early(messages, m) == messages \ {m}

\* A message is acknowledged late: a lost worker leaves it with the broker.
Unsettled(messages, m) == messages

LoseWorker(j) ==
  /\ count.losses < MaxLosses
  /\ count' = [count EXCEPT !.losses = @ + 1]
  /\ running' = running \ {j}
  /\ queue' = Unsettled(queue, j.msg)
  /\ UNCHANGED <<status, txn, hook, replica, point, attempted, dropped, outcomes,
                 published>>

\* The look-up in either engine raises, and nothing retries the task: it fails and
\* is acknowledged.
LookupRaises(m) ==
  /\ m \in Waiting
  /\ queue' = queue \ {m}
  /\ dropped' = dropped \union {m}
  /\ UNCHANGED <<status, txn, hook, replica, running, point, count, attempted, outcomes,
                 published>>

\* The secret does not decrypt or the address is none, before the POST, or the
\* database refuses the UPDATE, after it: the same.
RaiseInTask(j) ==
  /\ j.phase \in {"loaded", "ok", "failed"}
  /\ running' = running \ {j}
  /\ queue' = queue \ {j.msg}
  /\ dropped' = dropped \union {j.msg}
  /\ UNCHANGED <<status, txn, hook, replica, point, count, attempted, outcomes,
                 published>>

WorkerStep ==
  \/ \E m \in queue : Load(m) \/ LoadDataset(m) \/ LookupRaises(m)
  \/ \E j \in running :
       \/ \E outcome \in {"ok", "failed"} : Post(j, outcome)
       \/ Record(j)
       \/ \E stored \in BOOLEAN : Upsert(j, stored)
       \/ RaiseInTask(j)

Next ==
  \/ Emit
  \/ Release
  \/ Commit
  \/ Rollback
  \/ \E h \in Webhooks :
       \/ \E events \in Subscriptions : CreateWebhook(h, events)
       \/ DeleteWebhook(h)
       \/ TestWebhook(h)
  \/ Replicate
  \/ \E j \in running : LoseWorker(j)
  \/ WorkerStep

Spec == Init /\ [][Next]_vars

\* Workers that are not lost go on; a lost one is replaced.
FairSpec == Spec /\ WF_vars(WorkerStep)
=============================================================================
