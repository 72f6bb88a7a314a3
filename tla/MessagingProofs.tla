-------------------------- MODULE MessagingProofs --------------------------
(***************************************************************************)
(* Proofs about what a workflow event sets off: deliveries and the search  *)
(* index, the list of notifications, the e-mails - for any number of       *)
(* webhooks, events, submissions, requests and workers.                    *)
(***************************************************************************)
EXTENDS EventProperties, InboxProperties, EmailTask, FiniteSetTheorems, TLAPS

(***************************************************************************)
(* EventDelivery                                                           *)
(***************************************************************************)

\* What is inductive: an indexing task that goes on has read a published row.
Indexing ==
  /\ status.dataset = "published" => published
  /\ \A j \in running : j.phase = "read" => published
  /\ point => published

LEMMA IndexingStep == Indexing /\ [Next]_vars => Indexing'
<1> SUFFICES ASSUME Indexing, [Next]_vars
             PROVE  Indexing'
  OBVIOUS
<1>1. CASE Emit \/ Rollback \/ Replicate \/ UNCHANGED vars
  BY <1>1 DEF Emit, Rollback, Replicate, vars, Indexing
<1>2. CASE Release
  BY <1>2 DEF Release, Indexing
<1>3. CASE Commit
  BY <1>3 DEF Commit, Indexing
<1>4. ASSUME NEW h \in Webhooks,
             DeleteWebhook(h) \/ \E events \in Subscriptions : CreateWebhook(h, events)
      PROVE  Indexing'
  BY <1>4 DEF CreateWebhook, DeleteWebhook, Indexing
<1>5. ASSUME NEW h \in Webhooks, TestWebhook(h)
      PROVE  Indexing'
  BY <1>5 DEF TestWebhook, Indexing
<1>6. ASSUME NEW m \in queue, Load(m)
      PROVE  Indexing'
  <2>1. \A j \in running' : j.phase = "read" => j \in running
    BY <1>6 DEF Load
  <2> QED
    BY <1>6, <2>1 DEF Load, Indexing
<1>7. ASSUME NEW m \in queue, LoadDataset(m)
      PROVE  Indexing'
  <2>1. CASE Indexable(status.dataset)
    BY <1>7, <2>1 DEF LoadDataset, Indexable, Indexing
  <2>2. CASE ~Indexable(status.dataset)
    BY <1>7, <2>2 DEF LoadDataset, Indexing
  <2> QED
    BY <2>1, <2>2
<1>8. ASSUME NEW j \in running, NEW outcome \in {"ok", "failed"}, Post(j, outcome)
      PROVE  Indexing'
  <2>1. \A i \in running' : i.phase = "read" => i \in running
    BY <1>8 DEF Post
  <2> QED
    BY <1>8, <2>1 DEF Post, Indexing
<1>9. ASSUME NEW j \in running, Record(j) \/ LoseWorker(j) \/ RaiseInTask(j)
      PROVE  Indexing'
  BY <1>9 DEF Record, LoseWorker, RaiseInTask, Indexing
<1>10. ASSUME NEW j \in running, NEW stored \in BOOLEAN, Upsert(j, stored)
       PROVE  Indexing'
  BY <1>10 DEF Upsert, Indexing
<1>11. ASSUME NEW m \in queue, LookupRaises(m)
       PROVE  Indexing'
  BY <1>11 DEF LookupRaises, Indexing
<1> QED
  BY <1>1, <1>2, <1>3, <1>4, <1>5, <1>6, <1>7, <1>8, <1>9, <1>10, <1>11
     DEF Next, WorkerStep

\* A dataset with a point in the search index was published at some time,
\* although the task that puts it there is queued by a transaction that may yet
\* roll back (workflow_service.py:340, qdrant_index_service.py:32).
THEOREM IndexedDatasetsWerePublished == Spec => []IndexedWasPublished
<1>1. Init => Indexing
  BY DEF Init, Row, Indexing
<1>2. Indexing => IndexedWasPublished
  BY DEF Indexing, IndexedWasPublished
<1> QED
  BY <1>1, <1>2, IndexingStep, PTL DEF Spec

-----------------------------------------------------------------------------

Results == {"ok", "failed"}

\* The rows and what was recorded about each.
Recorded ==
  /\ hook \in [Webhooks -> [row : BOOLEAN, events : SUBSET AllowedEvents, failures : Nat]]
  /\ outcomes \in [Webhooks -> Seq(Results)]

\* The last streak entries of a list, and no more, are failures.
IsStreak(list, streak) ==
  /\ streak \in Nat /\ streak <= Len(list)
  /\ \A i \in Len(list) - streak + 1 .. Len(list) : list[i] = "failed"
  /\ streak < Len(list) => list[Len(list) - streak] = "ok"

LEMMA StreakCounted ==
  ASSUME NEW list \in Seq(Results), NEW streak, IsStreak(list, streak),
         NEW outcome \in Results
  PROVE  IsStreak(Append(list, outcome), IF outcome = "ok" THEN 0 ELSE streak + 1)
<1> DEFINE longer == Append(list, outcome)
<1>1. /\ Len(list) \in Nat /\ Len(longer) = Len(list) + 1
      /\ longer[Len(list) + 1] = outcome
      /\ \A i \in 1 .. Len(list) : longer[i] = list[i]
  OBVIOUS
<1> HIDE DEF longer
<1>2. CASE outcome = "ok"
  <2>1. IsStreak(longer, 0)
    BY <1>1, <1>2 DEF IsStreak
  <2> QED
    BY <1>2, <2>1 DEF longer
<1>3. CASE outcome = "failed"
  <2>1. IsStreak(longer, streak + 1)
    BY <1>1, <1>3 DEF IsStreak
  <2> QED
    BY <1>3, <2>1 DEF longer
<1> QED
  BY <1>2, <1>3 DEF Results

LEMMA RecordedStep ==
  Recorded /\ FailureCountIsStreak /\ [Next]_vars => Recorded' /\ FailureCountIsStreak'
<1> SUFFICES ASSUME Recorded, FailureCountIsStreak, [Next]_vars
             PROVE  Recorded' /\ FailureCountIsStreak'
  OBVIOUS
<1>1. CASE UNCHANGED <<hook, outcomes>>
  BY <1>1 DEF Recorded, FailureCountIsStreak
<1>2. ASSUME NEW h \in Webhooks, NEW events \in Subscriptions, CreateWebhook(h, events)
      PROVE  Recorded' /\ FailureCountIsStreak'
  <2>1. Recorded'
    BY <1>2, DeliveryAssumption DEF CreateWebhook, Recorded
  <2>2. \A g \in Webhooks : g # h => hook'[g] = hook[g] /\ outcomes'[g] = outcomes[g]
    BY <1>2 DEF CreateWebhook, Recorded
  <2>3. hook'[h].failures = 0 /\ Len(outcomes'[h]) = 0
    BY <1>2 DEF CreateWebhook, Recorded
  <2> QED
    BY <2>1, <2>2, <2>3 DEF FailureCountIsStreak
<1>3. ASSUME NEW h \in Webhooks, DeleteWebhook(h)
      PROVE  Recorded' /\ FailureCountIsStreak'
  <2>1. Recorded' /\ outcomes' = outcomes
    BY <1>3 DEF DeleteWebhook, Recorded
  <2>2. \A g \in Webhooks : hook'[g].failures = hook[g].failures
    BY <1>3 DEF DeleteWebhook, Recorded
  <2> QED
    BY <2>1, <2>2 DEF FailureCountIsStreak
<1>4. ASSUME NEW j \in running, Record(j), ~UNCHANGED <<hook, outcomes>>
      PROVE  Recorded' /\ FailureCountIsStreak'
  <2> DEFINE h == j.msg.to
             new == Counted(hook[h].failures, j.loaded, j.phase)
  <2>1. /\ j.phase \in Results
        /\ hook' = [hook EXCEPT ![h].failures = new]
        /\ outcomes' = [outcomes EXCEPT ![h] = Append(outcomes[h], j.phase)]
    BY <1>4 DEF Record, Results
  <2> HIDE DEF h
  <2>2. CASE h \notin Webhooks
    BY <1>4, <2>1, <2>2 DEF Recorded
  <2>3. CASE h \in Webhooks
    <3> DEFINE longer == Append(outcomes[h], j.phase)
    <3>1. outcomes[h] \in Seq(Results) /\ IsStreak(outcomes[h], hook[h].failures)
      BY <2>3 DEF Recorded, FailureCountIsStreak, IsStreak
    <3>2. IsStreak(longer, new)
      BY <2>1, <3>1, StreakCounted DEF Counted
    <3>3. longer \in Seq(Results)
      BY <2>1, <3>1
    <3> HIDE DEF new, longer
    <3>4. Recorded'
      BY <2>1, <2>3, <3>2, <3>3 DEF Recorded, longer, IsStreak
    <3>5. /\ \A g \in Webhooks : g # h => hook'[g] = hook[g] /\ outcomes'[g] = outcomes[g]
          /\ hook'[h].failures = new /\ outcomes'[h] = longer
      BY <2>1, <2>3 DEF Recorded, longer
    <3> QED
      BY <3>2, <3>4, <3>5 DEF FailureCountIsStreak, IsStreak
  <2> QED
    BY <2>2, <2>3
<1>5. CASE Emit \/ Release \/ Commit \/ Rollback \/ Replicate \/ UNCHANGED vars
  BY <1>1, <1>5 DEF Emit, Release, Commit, Rollback, Replicate, vars
<1>6. ASSUME NEW h \in Webhooks, TestWebhook(h)
      PROVE  UNCHANGED <<hook, outcomes>>
  BY <1>6 DEF TestWebhook
<1>7. ASSUME NEW m \in queue, Load(m) \/ LoadDataset(m) \/ LookupRaises(m)
      PROVE  UNCHANGED <<hook, outcomes>>
  BY <1>7 DEF Load, LoadDataset, LookupRaises
<1>8. ASSUME NEW j \in running,
             \/ LoseWorker(j) \/ RaiseInTask(j)
             \/ \E outcome \in {"ok", "failed"} : Post(j, outcome)
             \/ \E stored \in BOOLEAN : Upsert(j, stored)
      PROVE  UNCHANGED <<hook, outcomes>>
  BY <1>8 DEF Post, Upsert, LoseWorker, RaiseInTask
<1> QED
  BY <1>1, <1>2, <1>3, <1>4, <1>5, <1>6, <1>7, <1>8 DEF Next, WorkerStep

\* failure_count is the number of failures since the last delivery that went
\* well, for any number of webhooks and of overlapping deliveries of one
\* (webhook_service.py:75-109).
THEOREM FailureCountsAreStreaks == Spec => []FailureCountIsStreak
<1>1. Init => Recorded /\ FailureCountIsStreak
  BY DEF Init, Absent, Recorded, FailureCountIsStreak
<1> QED
  BY <1>1, RecordedStep, PTL DEF Spec

-----------------------------------------------------------------------------

\* A delivery that has an outcome made its POST; only the index is read for.
Attempting ==
  /\ replica \subseteq Webhooks
  /\ \A j \in running :
       /\ j.phase \in Results => j.msg \in attempted
       /\ j.phase = "read" => j.msg.to = "index"

LEMMA AttemptingStep == Attempting /\ [Next]_vars => Attempting'
<1> SUFFICES ASSUME Attempting, [Next]_vars
             PROVE  Attempting'
  OBVIOUS
<1> USE DEF Results
<1>1. CASE Emit \/ Release \/ Commit \/ Rollback \/ UNCHANGED vars
  BY <1>1 DEF Emit, Release, Commit, Rollback, vars, Attempting
<1>2. CASE Replicate
  BY <1>2 DEF Replicate, Attempting
<1>3. ASSUME NEW h \in Webhooks,
             DeleteWebhook(h) \/ \E events \in Subscriptions : CreateWebhook(h, events)
      PROVE  Attempting'
  BY <1>3 DEF CreateWebhook, DeleteWebhook, Attempting
<1>4. ASSUME NEW h \in Webhooks, TestWebhook(h)
      PROVE  Attempting'
  BY <1>4 DEF TestWebhook, Attempting
<1>5. ASSUME NEW m \in queue, Load(m)
      PROVE  Attempting'
  BY <1>5 DEF Load, Attempting
<1>6. ASSUME NEW m \in queue, LoadDataset(m) \/ LookupRaises(m)
      PROVE  Attempting'
  BY <1>6 DEF LoadDataset, LookupRaises, Attempting
<1>7. ASSUME NEW j \in running, NEW outcome \in {"ok", "failed"}, Post(j, outcome)
      PROVE  Attempting'
  BY <1>7 DEF Post, Attempting
<1>8. ASSUME NEW j \in running,
             \/ Record(j) \/ LoseWorker(j) \/ RaiseInTask(j)
             \/ \E stored \in BOOLEAN : Upsert(j, stored)
      PROVE  Attempting'
  BY <1>8 DEF Record, Upsert, LoseWorker, RaiseInTask, Attempting
<1> QED
  BY <1>1, <1>2, <1>3, <1>4, <1>5, <1>6, <1>7, <1>8 DEF Next, WorkerStep

LEMMA SettlingStep ==
  ASSUME RowSecurity = FALSE, Attempting, [Next]_vars,
         NEW m \in queue \ queue', m.to \in replica, hook[m.to].row
  PROVE  Tried(m)'
<1>1. m.to \in Webhooks /\ m.to # "index"
  BY DeliveryAssumption DEF Attempting
<1>2. CASE Emit \/ Release \/ Commit \/ Rollback \/ Replicate \/ UNCHANGED vars
  BY <1>2 DEF Emit, Release, Commit, Rollback, Replicate, vars
<1>3. ASSUME NEW h \in Webhooks,
             \/ DeleteWebhook(h) \/ TestWebhook(h)
             \/ \E events \in Subscriptions : CreateWebhook(h, events)
      PROVE  FALSE
  BY <1>3 DEF CreateWebhook, DeleteWebhook, TestWebhook
<1>4. ASSUME NEW n \in queue, Load(n)
      PROVE  FALSE
  BY <1>1, <1>4 DEF Load, Found, Shows
<1>5. ASSUME NEW n \in queue, LoadDataset(n)
      PROVE  FALSE
  BY <1>1, <1>5 DEF LoadDataset
<1>6. ASSUME NEW j \in running,
             LoseWorker(j) \/ \E outcome \in {"ok", "failed"} : Post(j, outcome)
      PROVE  FALSE
  BY <1>6 DEF Post, LoseWorker, Unsettled
<1>7. ASSUME NEW j \in running, NEW stored \in BOOLEAN, Upsert(j, stored)
      PROVE  FALSE
  BY <1>1, <1>7 DEF Upsert, Attempting
<1>8. ASSUME NEW j \in running, Record(j)
      PROVE  Tried(m)'
  BY <1>8 DEF Record, Attempting, Results, Tried
<1>9. ASSUME NEW n \in queue, LookupRaises(n)
      PROVE  Tried(m)'
  BY <1>9 DEF LookupRaises, Tried
<1>10. ASSUME NEW j \in running, RaiseInTask(j)
       PROVE  Tried(m)'
  BY <1>10 DEF RaiseInTask, Tried
<1> QED
  BY <1>2, <1>3, <1>4, <1>5, <1>6, <1>7, <1>8, <1>9, <1>10 DEF Next, WorkerStep

\* For a database role that sees every row, a message to a webhook that is
\* registered, and known to the replica, is settled only after a POST or with an
\* exception of its task, through lost workers, rollbacks, look-ups that raise and
\* updates that are refused (tasks.py:246-284, webhook_service.py:53-110).
THEOREM SettledWhenTried ==
  ASSUME RowSecurity = FALSE
  PROVE  Spec => SettledWasTried
<1>1. Init => Attempting
  BY DEF Init, Attempting
<1>2. Attempting /\ [Next]_vars =>
        [\A m \in queue \ queue' : m.to \in replica /\ hook[m.to].row => Tried(m)']_vars
  BY SettlingStep
<1> QED
  BY <1>1, <1>2, AttemptingStep, PTL DEF Spec, SettledWasTried

(***************************************************************************)
(* Inbox                                                                   *)
(***************************************************************************)

\* What is inductive: the open job, too, has announced what it will flag.
Announcing ==
  /\ pushes \in Seq(Submissions)
  /\ job \in [todo : SUBSET Submissions, flagged : SUBSET Submissions]
  /\ \A s \in breached \union job.flagged : \E i \in DOMAIN pushes : pushes[i] = s

LEMMA AnnouncingStep == Announcing /\ [InboxNext]_inboxVars => Announcing'
<1> SUFFICES ASSUME Announcing, [InboxNext]_inboxVars
             PROVE  Announcing'
  OBVIOUS
<1>1. CASE UNCHANGED <<breached, job, pushes>>
  BY <1>1 DEF Announcing
<1>2. CASE StartJob
  BY <1>2 DEF StartJob, NoJob, Announcing
<1>3. ASSUME NEW s \in Submissions, Push(s)
      PROVE  Announcing'
  <2>1. /\ pushes' = Append(pushes, s) /\ breached' = breached
        /\ job' = [todo |-> job.todo \ {s}, flagged |-> job.flagged \union {s}]
    BY <1>3 DEF Push
  <2>2. /\ pushes' \in Seq(Submissions)
        /\ DOMAIN pushes \subseteq DOMAIN pushes'
        /\ \A i \in DOMAIN pushes : pushes'[i] = pushes[i]
        /\ Len(pushes) + 1 \in DOMAIN pushes' /\ pushes'[Len(pushes) + 1] = s
    BY <2>1 DEF Announcing
  <2>3. job' \in [todo : SUBSET Submissions, flagged : SUBSET Submissions]
    BY <2>1 DEF Announcing
  <2>4. \A e \in breached' \union job'.flagged : e \in breached \union job.flagged \/ e = s
    BY <2>1
  <2> QED
    BY <2>2, <2>3, <2>4 DEF Announcing
<1>4. CASE CommitJob
  BY <1>4 DEF CommitJob, NoJob, Announcing
<1>5. CASE AbortJob
  BY <1>5 DEF AbortJob, AfterFailedPush, NoJob, Announcing
<1>6. ASSUME NEW r \in Requests,
             \/ \E targets \in SUBSET Unread(inbox) : ReadList(r, targets)
             \/ DeleteList(r) \/ WriteList(r) \/ LoseRequest(r)
      PROVE  UNCHANGED <<breached, job, pushes>>
  BY <1>6 DEF ReadList, DeleteList, WriteList, LoseRequest
<1>7. CASE UNCHANGED inboxVars
  BY <1>1, <1>7 DEF inboxVars
<1>8. \A id \in Unread(inbox) : {id} \in SUBSET Unread(inbox)
  OBVIOUS
<1> QED
  BY <1>1, <1>2, <1>3, <1>4, <1>5, <1>6, <1>7, <1>8 DEF InboxNext

\* A submission is flagged for good only after its steward was notified, however
\* many submissions a run of the job breaks off in (workflow_service.py:56-94).
THEOREM BreachesAreAnnounced == InboxSpec => []BreachIsAnnounced
<1>1. InboxInit => Announcing
  BY DEF InboxInit, NoJob, Announcing
<1>2. Announcing => BreachIsAnnounced
  BY DEF Announcing, BreachIsAnnounced
<1> QED
  BY <1>1, <1>2, AnnouncingStep, PTL DEF InboxSpec

-----------------------------------------------------------------------------

Items == [id : Nat, read : BOOLEAN]

\* As many notifications as there should be, each once, read as they were marked.
Whole(list, reading) ==
  /\ list \in Seq(Items)
  /\ Len(list) = IF Len(pushes) < MaxNotifications THEN Len(pushes) ELSE MaxNotifications
  /\ \A i, k \in DOMAIN list : list[i].id = list[k].id => i = k
  /\ \A i \in DOMAIN list : /\ list[i].id \in 1 .. Len(pushes)
                            /\ list[i].read <=> list[i].id \in reading

Resting == \A r \in Requests : request[r] = Idle

\* One request that rewrites the list, all others at rest.
Alone(r) == \A q \in Requests : q # r => request[q] = Idle

RequestStates ==
  {Idle} \union [phase : {"read", "deleted"}, targets : SUBSET Nat, list : Seq(Items)]

\* What is inductive: while nothing disturbs, the list is whole where it is - in
\* Valkey, or in the hands of the one request that has deleted it.
Intact ==
  /\ pushes \in Seq(Submissions)
  /\ inbox \in Seq(Items)
  /\ request \in [Requests -> RequestStates]
  /\ ~disturbed => marked \subseteq 1 .. Len(pushes)
  /\ ~disturbed =>
       \/ Resting /\ Whole(inbox, marked)
       \/ \E r \in Requests :
            /\ Alone(r) /\ request[r] # Idle
            /\ request[r].targets \subseteq 1 .. Len(pushes)
            /\ Whole(request[r].list, marked \union request[r].targets)
            /\ IF request[r].phase = "read" THEN Whole(inbox, marked) ELSE inbox = <<>>

LEMMA IdleIsNoRewrite ==
  ASSUME Intact, NEW r \in Requests
  PROVE  /\ request[r] = Idle <=> request[r].phase = "idle"
         /\ request[r] # Idle =>
              /\ request[r].phase \in {"read", "deleted"}
              /\ request[r].targets \in SUBSET Nat /\ request[r].list \in Seq(Items)
  BY DEF Intact, Idle, RequestStates

LEMMA RewritingMeans ==
  ASSUME Intact
  PROVE  Rewriting <=> ~Resting
  BY IdleIsNoRewrite DEF Rewriting, Resting

LEMMA RestingWhole ==
  ASSUME Intact, ~disturbed, Resting
  PROVE  Whole(inbox, marked)
  BY DEF Intact, Resting

LEMMA PushKeepsWhole ==
  ASSUME pushes \in Seq(Submissions), Whole(inbox, marked), marked \subseteq 1 .. Len(pushes),
         NEW s \in Submissions, Push(s)
  PROVE  Whole(inbox, marked)'
<1> DEFINE n == Len(pushes)
           new == [id |-> n + 1, read |-> FALSE]
           longer == <<new>> \o inbox
<1>1. /\ n \in Nat /\ Len(pushes') = n + 1 /\ marked' = marked
      /\ inbox' = Latest(longer)
  BY DEF Push
<1>2. inbox \in Seq(Items) /\ new \in Items
  BY <1>1 DEF Whole, Items
<1>3. /\ longer \in Seq(Items) /\ Len(longer) = Len(inbox) + 1
      /\ longer[1] = new
      /\ \A i \in 2 .. Len(longer) : longer[i] = inbox[i - 1] /\ i - 1 \in DOMAIN inbox
  BY <1>2
<1>4. /\ \A i, k \in DOMAIN longer : longer[i].id = longer[k].id => i = k
      /\ \A i \in DOMAIN longer : /\ longer[i].id \in 1 .. n + 1
                                  /\ longer[i].read <=> longer[i].id \in marked
  <2> HIDE DEF longer
  <2>1. \A i \in DOMAIN longer : i = 1 \/ i \in 2 .. Len(longer)
    BY <1>3
  <2>2. longer[1].id = n + 1 /\ longer[1].read = FALSE /\ n + 1 \notin marked
    BY <1>1, <1>3
  <2>3. \A i \in 2 .. Len(longer) :
          /\ longer[i].id \in 1 .. n
          /\ longer[i].read <=> longer[i].id \in marked
    BY <1>3 DEF Whole
  <2>4. ASSUME NEW i \in 2 .. Len(longer), NEW k \in 2 .. Len(longer),
               longer[i].id = longer[k].id
        PROVE  i = k
    <3>1. /\ i - 1 \in DOMAIN inbox /\ k - 1 \in DOMAIN inbox
          /\ inbox[i - 1].id = inbox[k - 1].id
      BY <1>3, <2>4
    <3>2. \A a, b \in DOMAIN inbox : inbox[a].id = inbox[b].id => a = b
      BY DEF Whole
    <3>3. i - 1 = k - 1
      BY <3>1, <3>2
    <3> QED
      BY <3>3
  <2>5. n + 1 \notin 1 .. n /\ \A x \in 1 .. n : x \in 1 .. n + 1 /\ x # n + 1
    BY <1>1
  <2>6. n + 1 \in 1 .. n + 1
    BY <1>1
  <2> QED
    BY <2>1, <2>2, <2>3, <2>4, <2>5, <2>6
<1>5. /\ MaxNotifications \in Nat \ {0}
      /\ Len(inbox) = IF n < MaxNotifications THEN n ELSE MaxNotifications
  BY InboxAssumption DEF Whole
<1> HIDE DEF longer
<1>6. CASE Len(longer) > MaxNotifications
  <2>1. inbox' = SubSeq(longer, 1, MaxNotifications)
    BY <1>1, <1>6 DEF Latest
  <2>2. /\ inbox' \in Seq(Items) /\ Len(inbox') = MaxNotifications
        /\ \A i \in DOMAIN inbox' : i \in DOMAIN longer /\ inbox'[i] = longer[i]
    BY <1>3, <1>5, <1>6, <2>1
  <2> QED
    BY <1>1, <1>3, <1>4, <1>5, <1>6, <2>2 DEF Whole
<1>7. CASE ~(Len(longer) > MaxNotifications)
  <2>1. inbox' = longer
    BY <1>1, <1>7 DEF Latest
  <2> QED
    BY <1>1, <1>3, <1>4, <1>5, <1>7, <2>1 DEF Whole
<1> QED
  BY <1>6, <1>7

LEMMA MarkedItems ==
  ASSUME NEW list \in Seq(Items), NEW targets
  PROVE  /\ Latest(list) \in Seq(Items)
         /\ Marked(list, targets) \in Seq(Items)
         /\ Len(Marked(list, targets)) = Len(list)
         /\ \A i \in DOMAIN list :
              /\ Marked(list, targets)[i].id = list[i].id
              /\ Marked(list, targets)[i].read <=> list[i].read \/ list[i].id \in targets
<1> DEFINE new == Marked(list, targets)
<1>1. Latest(list) \in Seq(Items)
  BY InboxAssumption DEF Latest
<1>2. /\ DOMAIN list = 1 .. Len(list) /\ Len(list) \in Nat
      /\ \A i \in DOMAIN list : list[i] \in Items
  OBVIOUS
<1>3. \A i \in DOMAIN list : new[i] = [list[i] EXCEPT !.read = @ \/ list[i].id \in targets]
  BY DEF Marked
<1>4. \A i \in DOMAIN list : new[i] \in Items /\ new[i].id = list[i].id
  BY <1>2, <1>3 DEF Items
<1>5. \A i \in DOMAIN list : new[i].read <=> list[i].read \/ list[i].id \in targets
  BY <1>2, <1>3 DEF Items
<1>6. new \in [1 .. Len(list) -> Items]
  BY <1>2, <1>4 DEF Marked
<1> HIDE DEF new
<1>7. new \in Seq(Items) /\ Len(new) = Len(list)
  BY <1>2, <1>6
<1> QED
  BY <1>1, <1>4, <1>5, <1>7 DEF new

LEMMA MarkedIsWhole ==
  ASSUME Whole(inbox, marked), NEW targets
  PROVE  Whole(Marked(Latest(inbox), targets), marked \union targets)
<1>1. inbox \in Seq(Items) /\ Len(inbox) <= MaxNotifications
  BY InboxAssumption DEF Whole
<1>2. Latest(inbox) = inbox
  BY <1>1, InboxAssumption DEF Latest
<1> DEFINE list == Marked(inbox, targets)
<1>3. /\ list \in Seq(Items) /\ Len(list) = Len(inbox)
      /\ \A i \in DOMAIN inbox : /\ list[i].id = inbox[i].id
                                 /\ list[i].read <=> inbox[i].read \/ inbox[i].id \in targets
  BY <1>1, MarkedItems
<1> HIDE DEF list
<1>4. DOMAIN list = DOMAIN inbox
  BY <1>1, <1>3
<1>5. \A i \in DOMAIN list : list[i].read <=> list[i].id \in marked \union targets
  BY <1>3, <1>4 DEF Whole
<1>6. Whole(list, marked \union targets)
  BY <1>3, <1>4, <1>5 DEF Whole
<1> QED
  BY <1>2, <1>6 DEF list

LEMMA ReversedItems ==
  ASSUME NEW list \in Seq(Items)
  PROVE  /\ Reverse(list) \in Seq(Items) /\ Len(Reverse(list)) = Len(list)
         /\ \A i \in 1 .. Len(list) : /\ (Len(list) - i) + 1 \in 1 .. Len(list)
                                      /\ Reverse(list)[i] = list[(Len(list) - i) + 1]
<1> DEFINE back == Reverse(list)
<1>1. /\ Len(list) \in Nat
      /\ \A i \in 1 .. Len(list) : (Len(list) - i) + 1 \in 1 .. Len(list)
  OBVIOUS
<1>2. \A i \in 1 .. Len(list) : back[i] = list[(Len(list) - i) + 1]
  BY DEF Reverse
<1>3. back \in [1 .. Len(list) -> Items]
  BY <1>1 DEF Reverse
<1> HIDE DEF back
<1>4. back \in Seq(Items) /\ Len(back) = Len(list)
  BY <1>1, <1>3
<1> QED
  BY <1>1, <1>2, <1>4 DEF back

LEMMA ReversedIsWhole ==
  ASSUME NEW list, NEW reading, Whole(list, reading)
  PROVE  Whole(Reverse(list), reading)
<1> DEFINE back == Reverse(list)
           n == Len(list)
<1>1. list \in Seq(Items) /\ n \in Nat /\ DOMAIN list = 1 .. n
  BY DEF Whole
<1>2. /\ back \in Seq(Items) /\ Len(back) = n
      /\ \A i \in 1 .. n : (n - i) + 1 \in 1 .. n /\ back[i] = list[(n - i) + 1]
  BY <1>1, ReversedItems
<1> HIDE DEF back
<1>3. DOMAIN back = 1 .. n
  BY <1>1, <1>2
<1>4. \A i, k \in 1 .. n : back[i].id = back[k].id => i = k
  <2>1. ASSUME NEW i \in 1 .. n, NEW k \in 1 .. n, back[i].id = back[k].id
        PROVE  i = k
    <3> DEFINE p == (n - i) + 1
               q == (n - k) + 1
    <3>1. p \in DOMAIN list /\ q \in DOMAIN list
      BY <1>1, <1>2
    <3>2. back[i] = list[p] /\ back[k] = list[q]
      BY <1>2
    <3>3. list[p].id = list[q].id
      BY <2>1, <3>2
    <3>4. p = q
      <4> HIDE DEF p, q
      <4> QED
        BY <3>1, <3>3 DEF Whole
    <3> HIDE DEF n
    <3> QED
      BY <1>1, <3>4
  <2> QED
    BY <2>1
<1>5. \A i \in 1 .. n : /\ back[i].id \in 1 .. Len(pushes)
                        /\ back[i].read <=> back[i].id \in reading
  BY <1>1, <1>2 DEF Whole
<1> HIDE DEF n
<1> QED
  BY <1>2, <1>3, <1>4, <1>5 DEF Whole, back, n

\* Of requests that do not change what they hold, nothing is left to show.
LEMMA StillIntact ==
  ASSUME Intact, UNCHANGED <<inbox, request, marked, pushes, disturbed>>
  PROVE  Intact'
  BY DEF Intact, Resting, Alone, Whole

LEMMA PushIntact ==
  ASSUME Intact, NEW s \in Submissions, Push(s)
  PROVE  Intact'
<1>1. /\ pushes' \in Seq(Submissions) /\ Len(pushes') = Len(pushes) + 1
      /\ Len(pushes) \in Nat
      /\ request' = request /\ marked' = marked
      /\ disturbed' = (disturbed \/ Rewriting)
  BY DEF Push, Intact
<1>2. inbox' \in Seq(Items)
  <2> DEFINE longer == <<[id |-> Len(pushes) + 1, read |-> FALSE]>> \o inbox
  <2>1. longer \in Seq(Items)
    BY <1>1 DEF Intact, Items
  <2> HIDE DEF longer
  <2>2. Latest(longer) \in Seq(Items)
    BY <2>1, MarkedItems
  <2> QED
    BY <2>2 DEF Push, longer
<1>3. CASE disturbed'
  BY <1>1, <1>2, <1>3 DEF Intact
<1>4. CASE ~disturbed'
  <2>1. ~disturbed /\ Resting
    BY <1>1, <1>4, RewritingMeans
  <2>2. marked \subseteq 1 .. Len(pushes)
    BY <2>1 DEF Intact
  <2>3. Whole(inbox, marked)'
    BY <2>1, <2>2, RestingWhole, PushKeepsWhole DEF Intact
  <2>4. Resting'
    BY <1>1, <2>1 DEF Resting
  <2>5. marked' \subseteq 1 .. Len(pushes')
    BY <1>1, <2>2
  <2> QED
    BY <1>1, <1>2, <2>3, <2>4, <2>5 DEF Intact
<1> QED
  BY <1>3, <1>4

LEMMA ReadIntact ==
  ASSUME Intact, NEW r \in Requests, NEW targets \in SUBSET Unread(inbox),
         ReadList(r, targets)
  PROVE  Intact'
<1> DEFINE list == Marked(Latest(inbox), targets)
<1>1. /\ request[r] = Idle
      /\ request' = [request EXCEPT ![r] =
                       [phase |-> "read", targets |-> targets, list |-> list]]
      /\ disturbed' = (disturbed \/ Rewriting)
      /\ UNCHANGED <<pushes, inbox, marked>>
  BY DEF ReadList
<1>2. targets \in SUBSET Nat
  <2>1. \A i \in DOMAIN inbox : inbox[i] \in Items
    BY DEF Intact
  <2> QED
    BY <2>1 DEF Unread, Items
<1>3. list \in Seq(Items)
  BY MarkedItems DEF Intact
<1> HIDE DEF list
<1>4. /\ request' \in [Requests -> RequestStates]
      /\ request'[r] = [phase |-> "read", targets |-> targets, list |-> list]
      /\ \A q \in Requests : q # r => request'[q] = request[q]
  BY <1>1, <1>2, <1>3 DEF Intact, RequestStates
<1>5. CASE disturbed'
  BY <1>1, <1>4, <1>5 DEF Intact
<1>6. CASE ~disturbed'
  <2>1. ~disturbed /\ Resting
    BY <1>1, <1>6, RewritingMeans
  <2>2. Whole(inbox, marked) /\ marked \subseteq 1 .. Len(pushes)
    BY <2>1, RestingWhole DEF Intact
  <2>3. targets \subseteq 1 .. Len(pushes)
    BY <2>2 DEF Whole, Unread
  <2>4. Whole(list, marked \union targets)
    BY <2>2, MarkedIsWhole DEF list
  <2>5. Alone(r)' /\ request'[r] # Idle
    BY <1>4, <2>1 DEF Idle, Alone, Resting
  <2>6. Whole(request[r].list, marked \union request[r].targets)' /\ Whole(inbox, marked)'
    BY <1>1, <1>4, <2>2, <2>4 DEF Whole
  <2> QED
    BY <1>1, <1>4, <2>2, <2>3, <2>5, <2>6 DEF Intact
<1> QED
  BY <1>5, <1>6

\* The request that rewrites, if nothing disturbs, is the only one.
LEMMA RewriterIsAlone ==
  ASSUME Intact, ~disturbed, NEW r \in Requests, request[r] # Idle
  PROVE  /\ Alone(r)
         /\ request[r].targets \subseteq 1 .. Len(pushes)
         /\ Whole(request[r].list, marked \union request[r].targets)
         /\ IF request[r].phase = "read" THEN Whole(inbox, marked) ELSE inbox = <<>>
<1>1. ~Resting
  BY DEF Resting
<1>2. PICK q \in Requests :
        /\ Alone(q) /\ request[q] # Idle
        /\ request[q].targets \subseteq 1 .. Len(pushes)
        /\ Whole(request[q].list, marked \union request[q].targets)
        /\ IF request[q].phase = "read" THEN Whole(inbox, marked) ELSE inbox = <<>>
  BY <1>1 DEF Intact
<1>3. q = r
  BY <1>2 DEF Alone
<1> QED
  BY <1>2, <1>3

LEMMA DeleteIntact ==
  ASSUME Intact, NEW r \in Requests, DeleteList(r)
  PROVE  Intact'
<1>1. /\ request[r].phase = "read" /\ request[r] # Idle
      /\ inbox' = <<>>
      /\ request' = [request EXCEPT ![r].phase = "deleted"]
      /\ UNCHANGED <<pushes, marked, disturbed>>
  BY IdleIsNoRewrite DEF DeleteList
<1>2. /\ request[r].targets \in SUBSET Nat /\ request[r].list \in Seq(Items)
      /\ request[r] \in [phase : {"read", "deleted"}, targets : SUBSET Nat, list : Seq(Items)]
  BY <1>1 DEF Intact, RequestStates
<1>3. /\ request' \in [Requests -> RequestStates]
      /\ request'[r].phase = "deleted"
      /\ request'[r].targets = request[r].targets /\ request'[r].list = request[r].list
      /\ \A q \in Requests : q # r => request'[q] = request[q]
  BY <1>1, <1>2 DEF Intact, RequestStates
<1>4. request'[r] # Idle
  BY <1>3 DEF Idle
<1>5. CASE disturbed
  BY <1>1, <1>3, <1>5 DEF Intact
<1>6. CASE ~disturbed
  <2>1. /\ Alone(r) /\ request[r].targets \subseteq 1 .. Len(pushes)
        /\ Whole(request[r].list, marked \union request[r].targets)
    BY <1>1, <1>6, RewriterIsAlone
  <2>2. Alone(r)'
    BY <1>3, <2>1 DEF Alone
  <2>3. Whole(request[r].list, marked \union request[r].targets)'
    BY <1>1, <1>3, <2>1 DEF Whole
  <2>4. /\ request'[r].targets \subseteq 1 .. Len(pushes')
        /\ marked' \subseteq 1 .. Len(pushes')
    BY <1>1, <1>3, <1>6, <2>1 DEF Intact
  <2>5. pushes' \in Seq(Submissions) /\ inbox' \in Seq(Items)
    BY <1>1 DEF Intact
  <2> QED
    BY <1>1, <1>3, <1>4, <2>2, <2>3, <2>4, <2>5 DEF Intact
<1> QED
  BY <1>5, <1>6

LEMMA WriteIntact ==
  ASSUME Intact, NEW r \in Requests, WriteList(r)
  PROVE  Intact'
<1> DEFINE back == Reverse(request[r].list)
<1>1. /\ request[r].phase = "deleted" /\ request[r] # Idle
      /\ inbox' = inbox \o back
      /\ marked' = marked \union request[r].targets
      /\ request' = [request EXCEPT ![r] = Idle]
      /\ UNCHANGED <<pushes, disturbed>>
  BY IdleIsNoRewrite DEF WriteList, Restored
<1>2. back \in Seq(Items)
  BY <1>1, IdleIsNoRewrite, ReversedItems
<1>3. inbox' \in Seq(Items)
  BY <1>1, <1>2 DEF Intact
<1>4. /\ request' \in [Requests -> RequestStates]
      /\ request'[r] = Idle
      /\ \A q \in Requests : q # r => request'[q] = request[q]
  BY <1>1 DEF Intact, RequestStates
<1>5. CASE disturbed
  BY <1>1, <1>3, <1>4, <1>5 DEF Intact
<1>6. CASE ~disturbed
  <2>1. /\ Alone(r) /\ request[r].targets \subseteq 1 .. Len(pushes)
        /\ Whole(request[r].list, marked \union request[r].targets)
        /\ inbox = <<>>
    BY <1>1, <1>6, RewriterIsAlone
  <2>2. Whole(back, marked \union request[r].targets)
    BY <2>1, ReversedIsWhole
  <2> HIDE DEF back
  <2>3. inbox' = back
    BY <1>1, <1>2, <2>1
  <2>4. Whole(inbox, marked)'
    BY <1>1, <2>2, <2>3 DEF Whole
  <2>5. Resting'
    BY <1>4, <2>1 DEF Resting, Alone
  <2>6. marked' \subseteq 1 .. Len(pushes')
    BY <1>1, <1>6, <2>1 DEF Intact
  <2> QED
    BY <1>1, <1>3, <1>4, <2>4, <2>5, <2>6 DEF Intact
<1> QED
  BY <1>5, <1>6

LEMMA LoseIntact ==
  ASSUME Intact, NEW r \in Requests, LoseRequest(r)
  PROVE  Intact'
  BY DEF LoseRequest, Intact, RequestStates

LEMMA IntactStep == Intact /\ [InboxNext]_inboxVars => Intact'
<1> SUFFICES ASSUME Intact, [InboxNext]_inboxVars
             PROVE  Intact'
  OBVIOUS
<1>1. CASE StartJob \/ CommitJob \/ AbortJob \/ UNCHANGED inboxVars
  BY <1>1, StillIntact DEF StartJob, CommitJob, AbortJob, inboxVars, listVars
<1>2. \A id \in Unread(inbox) : {id} \in SUBSET Unread(inbox)
  OBVIOUS
<1>3. ASSUME NEW r \in Requests,
             \E targets \in SUBSET Unread(inbox) : ReadList(r, targets)
      PROVE  Intact'
  BY <1>3, ReadIntact
<1> QED
  BY <1>1, <1>2, <1>3, PushIntact, DeleteIntact, WriteIntact, LoseIntact DEF InboxNext

\* What is whole is intact: the ids are as many as the entries.
LEMMA WholeIsIntact ==
  ASSUME Whole(inbox, marked)
  PROVE  /\ Cardinality(Ids(inbox)) = Len(inbox)
         /\ Ids(inbox) \ Unread(inbox) = Ids(inbox) \intersect marked
<1>1. inbox \in Seq(Items) /\ Len(inbox) \in Nat /\ DOMAIN inbox = 1 .. Len(inbox)
  BY DEF Whole
<1> DEFINE f == [i \in 1 .. Len(inbox) |-> inbox[i].id]
<1>2. f \in Bijection(1 .. Len(inbox), Ids(inbox))
  BY <1>1 DEF Whole, Ids, Bijection, Injection, Surjection, IsInjective
<1>3. IsFiniteSet(1 .. Len(inbox)) /\ Cardinality(1 .. Len(inbox)) = Len(inbox)
  BY <1>1, FS_Interval
<1>4. Cardinality(Ids(inbox)) = Len(inbox)
  BY <1>2, <1>3, FS_Bijection DEF ExistsBijection
<1>5. Ids(inbox) \ Unread(inbox) = Ids(inbox) \intersect marked
  BY <1>1 DEF Whole, Ids, Unread
<1> QED
  BY <1>4, <1>5

\* As long as no write overlaps a rewrite of the list, it holds as many
\* notifications as were pushed, up to any limit, each once, and exactly those a
\* user marked are read (in_app_service.py:44-45, 86-104).
THEOREM InboxStaysIntact == InboxSpec => []InboxIntact
<1>1. InboxInit => Intact
  BY InboxAssumption DEF InboxInit, Intact, Resting, Whole, RequestStates, Items
<1>2. Intact => InboxIntact
  <2> SUFFICES ASSUME Intact, ~disturbed, ~Rewriting
               PROVE  /\ Len(inbox) = IF Len(pushes) < MaxNotifications
                                        THEN Len(pushes) ELSE MaxNotifications
                      /\ Cardinality(Ids(inbox)) = Len(inbox)
                      /\ Ids(inbox) \ Unread(inbox) = Ids(inbox) \intersect marked
    BY DEF InboxIntact
  <2>1. Whole(inbox, marked)
    BY RewritingMeans, RestingWhole
  <2> QED
    BY <2>1, WholeIsIntact DEF Whole
<1> QED
  BY <1>1, <1>2, IntactStep, PTL DEF InboxSpec

(***************************************************************************)
(* EmailTask                                                               *)
(***************************************************************************)

Senders(p) == {w \in Workers : phase[w] = p}

\* What is inductive: before the key is set, a mail is with the worker that sent
\* it, or its worker was lost, or its task failed; once it is set, only workers that had checked it
\* before can still send.
Accounted ==
  /\ phase \in [Workers -> {"idle", "checked", "sent"}]
  /\ keySet \in BOOLEAN /\ sent \in Nat /\ losses \in Nat /\ faults \in Nat
  /\ ~keySet => sent <= Cardinality(Senders("sent")) + losses + faults
  /\ keySet => sent + Cardinality(Senders("checked"))
               <= Cardinality(Workers) + losses + faults

LEMMA SendersCount ==
  /\ Cardinality(Workers) \in Nat
  /\ \A p : /\ IsFiniteSet(Senders(p))
            /\ Cardinality(Senders(p)) \in Nat
            /\ Cardinality(Senders(p)) <= Cardinality(Workers)
  BY EmailAssumption, FS_Subset, FS_CardinalityType DEF Senders

\* Workers that have checked, and workers that have sent, are different ones.
LEMMA SendersApart ==
  Cardinality(Senders("checked")) + Cardinality(Senders("sent")) <= Cardinality(Workers)
<1> DEFINE both == Senders("checked") \union Senders("sent")
<1>1. Senders("checked") \intersect Senders("sent") = {}
  BY DEF Senders
<1>2. Cardinality(both) = Cardinality(Senders("checked")) + Cardinality(Senders("sent"))
  <2>1. /\ IsFiniteSet(Senders("checked")) /\ Cardinality(Senders("checked")) \in Nat
        /\ IsFiniteSet(Senders("sent")) /\ Cardinality(Senders("sent")) \in Nat
    BY SendersCount
  <2>2. Cardinality(both) = Cardinality(Senders("checked")) + Cardinality(Senders("sent"))
                             - Cardinality(Senders("checked") \intersect Senders("sent"))
    BY <2>1, FS_Union
  <2>3. Cardinality(Senders("checked") \intersect Senders("sent")) = 0
    BY <1>1, FS_EmptySet
  <2> QED
    BY <2>1, <2>2, <2>3
<1>3. Cardinality(both) <= Cardinality(Workers)
  BY EmailAssumption, FS_Subset DEF Senders
<1> QED
  BY <1>2, <1>3, SendersCount

\* A worker that moves from one phase to another.
LEMMA SenderMoves ==
  ASSUME phase \in [Workers -> {"idle", "checked", "sent"}],
         NEW w \in Workers, NEW to \in {"idle", "checked", "sent"}, phase[w] # to,
         phase' = [phase EXCEPT ![w] = to]
  PROVE  /\ phase' \in [Workers -> {"idle", "checked", "sent"}]
         /\ \A p \in {"idle", "checked", "sent"} :
              Cardinality(Senders(p)') = IF p = to THEN Cardinality(Senders(p)) + 1
                                         ELSE IF p = phase[w] THEN Cardinality(Senders(p)) - 1
                                         ELSE Cardinality(Senders(p))
<1>1. phase' \in [Workers -> {"idle", "checked", "sent"}]
  OBVIOUS
<1>2. ASSUME NEW p \in {"idle", "checked", "sent"}
      PROVE  Cardinality(Senders(p)') = IF p = to THEN Cardinality(Senders(p)) + 1
                                        ELSE IF p = phase[w] THEN Cardinality(Senders(p)) - 1
                                        ELSE Cardinality(Senders(p))
  <2>1. CASE p = to
    <3>1. Senders(p)' = Senders(p) \union {w} /\ w \notin Senders(p)
      BY <2>1 DEF Senders
    <3> QED
      BY <2>1, <3>1, SendersCount, FS_AddElement
  <2>2. CASE p # to /\ p = phase[w]
    <3>1. Senders(p)' = Senders(p) \ {w} /\ w \in Senders(p)
      BY <2>2 DEF Senders
    <3> QED
      BY <2>2, <3>1, SendersCount, FS_RemoveElement
  <2>3. CASE p # to /\ p # phase[w]
    <3>1. Senders(p)' = Senders(p)
      BY <2>3 DEF Senders
    <3> QED
      BY <2>3, <3>1
  <2> QED
    BY <2>1, <2>2, <2>3
<1> QED
  BY <1>1, <1>2

LEMMA AccountedStep == Accounted /\ [MailNext]_mailVars => Accounted'
<1> SUFFICES ASSUME Accounted, [MailNext]_mailVars
             PROVE  Accounted'
  OBVIOUS
<1> DEFINE C == Cardinality(Senders("checked"))
           S == Cardinality(Senders("sent"))
           W == Cardinality(Workers)
<1>1. C \in Nat /\ S \in Nat /\ W \in Nat /\ C + S <= W
  BY SendersCount, SendersApart
<1>2. /\ ~keySet => sent <= S + losses + faults
      /\ keySet => sent + C <= W + losses + faults
      /\ keySet \in BOOLEAN /\ sent \in Nat /\ losses \in Nat /\ faults \in Nat
      /\ phase \in [Workers -> {"idle", "checked", "sent"}]
  BY DEF Accounted
<1>3. CASE UNCHANGED <<phase, keySet, sent, losses, faults>>
  BY <1>2, <1>3 DEF Accounted, Senders
<1>4. ASSUME NEW w \in Workers, TakeMail(w), ~AlreadySent(keySet)
      PROVE  Accounted'
  <2>1. phase[w] = "idle" /\ phase' = [phase EXCEPT ![w] = "checked"] /\ ~keySet
    BY <1>4 DEF TakeMail, AlreadySent
  <2>2. UNCHANGED <<keySet, sent, losses, faults>>
    BY <1>4 DEF TakeMail
  <2>3. S' = S /\ phase' \in [Workers -> {"idle", "checked", "sent"}]
    BY <1>2, <2>1, SenderMoves
  <2> QED
    BY <1>2, <2>1, <2>2, <2>3 DEF Accounted
<1>5. ASSUME NEW w \in Workers, TakeMail(w), AlreadySent(keySet)
      PROVE  UNCHANGED <<phase, keySet, sent, losses, faults>>
  BY <1>2, <1>5 DEF TakeMail
<1>6. ASSUME NEW w \in Workers, SendMail(w)
      PROVE  Accounted'
  <2>1. /\ phase[w] = "checked" /\ phase' = [phase EXCEPT ![w] = "sent"]
        /\ sent' = sent + 1 /\ UNCHANGED <<keySet, losses, faults>>
    BY <1>6 DEF SendMail
  <2>2. S' = S + 1 /\ C' = C - 1 /\ phase' \in [Workers -> {"idle", "checked", "sent"}]
    BY <1>2, <2>1, SenderMoves
  <2> HIDE DEF C, S, W
  <2>3. /\ ~keySet' => sent' <= S' + losses' + faults'
        /\ keySet' => sent' + C' <= W + losses' + faults'
    BY <1>1, <1>2, <2>1, <2>2
  <2> QED
    BY <1>2, <2>1, <2>2, <2>3 DEF Accounted, C, S, W
<1>7. ASSUME NEW w \in Workers, DropMail(w)
      PROVE  Accounted'
  <2>1. /\ phase[w] = "checked" /\ phase' = [phase EXCEPT ![w] = "idle"]
        /\ UNCHANGED <<keySet, sent, losses, faults>>
    BY <1>7 DEF DropMail
  <2>2. S' = S /\ C' = C - 1 /\ phase' \in [Workers -> {"idle", "checked", "sent"}]
    BY <1>2, <2>1, SenderMoves
  <2> HIDE DEF C, S, W
  <2>3. /\ ~keySet' => sent' <= S' + losses' + faults'
        /\ keySet' => sent' + C' <= W + losses' + faults'
    BY <1>1, <1>2, <2>1, <2>2
  <2> QED
    BY <1>2, <2>1, <2>2, <2>3 DEF Accounted, C, S, W
<1>8. ASSUME NEW w \in Workers, MarkMail(w)
      PROVE  Accounted'
  <2>1. /\ phase[w] = "sent" /\ phase' = [phase EXCEPT ![w] = "idle"]
        /\ keySet' = TRUE /\ UNCHANGED <<sent, losses, faults>>
    BY <1>8 DEF MarkMail
  <2>2. C' = C /\ phase' \in [Workers -> {"idle", "checked", "sent"}]
    BY <1>2, <2>1, SenderMoves
  <2> HIDE DEF C, S, W
  <2>3. sent' + C' <= W + losses' + faults'
    BY <1>1, <1>2, <2>1, <2>2
  <2> QED
    BY <1>2, <2>1, <2>2, <2>3 DEF Accounted, C, S, W
<1>9. ASSUME NEW w \in Workers, LoseMailer(w)
      PROVE  Accounted'
  <2>1. /\ phase[w] # "idle" /\ phase' = [phase EXCEPT ![w] = "idle"]
        /\ losses' = losses + 1 /\ UNCHANGED <<keySet, sent, faults>>
    BY <1>9 DEF LoseMailer
  <2>2. /\ S' = IF phase[w] = "sent" THEN S - 1 ELSE S
        /\ C' = IF phase[w] = "checked" THEN C - 1 ELSE C
        /\ phase' \in [Workers -> {"idle", "checked", "sent"}]
    BY <1>2, <2>1, SenderMoves
  <2> HIDE DEF C, S, W
  <2>3. /\ ~keySet' => sent' <= S' + losses' + faults'
        /\ keySet' => sent' + C' <= W + losses' + faults'
    BY <1>1, <1>2, <2>1, <2>2
  <2> QED
    BY <1>2, <2>1, <2>2, <2>3 DEF Accounted, C, S, W
<1>10. ASSUME NEW w \in Workers, FaultAfterMail(w)
       PROVE  Accounted'
  <2>1. /\ faults' = faults + 1 /\ phase' = [phase EXCEPT ![w] = "idle"]
        /\ \/ phase[w] = "checked" /\ sent' = sent + 1
           \/ phase[w] = "sent" /\ sent' = sent
        /\ UNCHANGED <<keySet, losses>>
    BY <1>10 DEF FaultAfterMail
  <2>2. /\ S' = IF phase[w] = "sent" THEN S - 1 ELSE S
        /\ C' = IF phase[w] = "checked" THEN C - 1 ELSE C
        /\ phase' \in [Workers -> {"idle", "checked", "sent"}]
    BY <1>2, <2>1, SenderMoves
  <2> HIDE DEF C, S, W
  <2>3. /\ ~keySet' => sent' <= S' + losses' + faults'
        /\ keySet' => sent' + C' <= W + losses' + faults'
        /\ sent' \in Nat /\ faults' \in Nat
    BY <1>1, <1>2, <2>1, <2>2
  <2> QED
    BY <1>2, <2>1, <2>2, <2>3 DEF Accounted, C, S, W
<1>11. CASE QueueMail \/ UNCHANGED mailVars
  BY <1>3, <1>11 DEF QueueMail, mailVars
<1> QED
  BY <1>3, <1>4, <1>5, <1>6, <1>7, <1>8, <1>9, <1>10, <1>11 DEF MailNext

\* However often a message is queued and redelivered, each further mail takes a
\* worker that checked the key before the first was done, a lost worker, or an
\* exception after the server's acceptance, for any number of each
\* (tasks.py:236-240, email_service.py:36-41).
THEOREM MailsArePerWorker == MailSpec => []MailedPerWorker
<1>1. MailInit => Accounted
  <2>1. Cardinality(Senders("sent")) \in Nat
    BY SendersCount
  <2>2. ASSUME MailInit
        PROVE  /\ phase \in [Workers -> {"idle", "checked", "sent"}]
               /\ keySet = FALSE /\ sent = 0 /\ losses = 0 /\ faults = 0
    BY <2>2 DEF MailInit
  <2>3. ASSUME MailInit
        PROVE  sent <= Cardinality(Senders("sent")) + losses + faults
    BY <2>1, <2>2, <2>3
  <2> QED
    BY <2>2, <2>3 DEF Accounted
<1>2. Accounted => MailedPerWorker
  <2> SUFFICES ASSUME Accounted
               PROVE  MailedPerWorker
    OBVIOUS
  <2>1. /\ Cardinality(Senders("checked")) \in Nat /\ Cardinality(Senders("sent")) \in Nat
        /\ Cardinality(Workers) \in Nat
        /\ Cardinality(Senders("sent")) <= Cardinality(Workers)
    BY SendersCount
  <2> QED
    BY <2>1 DEF Accounted, MailedPerWorker
<1> QED
  BY <1>1, <1>2, AccountedStep, PTL DEF MailSpec
=============================================================================
