-------------------------- MODULE EventProperties --------------------------
(* What consumers of workflow events may rely on. *)
EXTENDS EventDelivery

Statuses == {"none", "draft", "pending_review", "changes_requested", "pending_approval",
             "scheduled", "published", "rejected", "archived"}

Jobs == [id : Nat, msg : [to : Webhooks \union {"index"}, n : Nat],
         phase : {"loaded", "ok", "failed", "read"}, loaded : Nat]

TypeOK ==
  /\ status \in [dataset : Statuses, submission : Statuses]
  /\ hook \in [Webhooks -> [row : BOOLEAN, events : SUBSET AllowedEvents, failures : Nat]]
  /\ replica \subseteq Webhooks
  /\ queue \subseteq [to : Webhooks \union {"index"}, n : Nat]
  /\ running \subseteq Jobs
  /\ \A j \in running : j.phase = "read" <=> j.msg.to = "index"
  /\ point \in BOOLEAN /\ published \in BOOLEAN
  /\ dropped \subseteq Messages
  /\ count \in [events : Nat, tests : Nat, losses : Nat]
  /\ outcomes \in [Webhooks -> Seq({"ok", "failed"})]

\* failure_count is the number of failed deliveries recorded since the last good
\* one, although overlapping deliveries of one webhook each loaded the row before
\* they called the subscriber (webhook_service.py:75-109).
FailureCountIsStreak ==
  \A h \in Webhooks :
    LET total == Len(outcomes[h])  streak == hook[h].failures IN
    /\ streak <= total
    /\ \A i \in total - streak + 1 .. total : outcomes[h][i] = "failed"
    /\ streak < total => outcomes[h][total - streak] = "ok"

\* A point in the search index means the dataset was published at some time,
\* although the indexing task is queued by a transaction that may yet roll back
\* (workflow_service.py:340, qdrant_index_service.py:32).
IndexedWasPublished == point => published

\* A delivery was tried: its POST was made, or an exception ended its task.
Tried(m) == m \in attempted \union dropped

\* Every delivery queued for a webhook that the replica has is tried or the webhook
\* deleted, however the transaction ends and whichever workers are lost, for a
\* database role that sees every row (webhook_service.py:143, tasks.py:246-284).
\* Nothing retries one that ended with an exception.
QueuedIsTried ==
  \A h \in Webhooks, n \in 1 .. MaxEvents :
    LET m == [to |-> h, n |-> n]
    IN (m \in queue /\ h \in replica) ~> (Tried(m) \/ ~hook[h].row)

\* "Deliver webhook with HMAC signature." (tasks.py:253): a message to a webhook
\* that is registered, and known to the replica, is settled only after a POST, or
\* with an exception that says why not.
SettledWasTried ==
  [][\A m \in queue \ queue' : m.to \in replica /\ hook[m.to].row => Tried(m)']_vars

=============================================================================
