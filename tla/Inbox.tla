------------------------------- MODULE Inbox -------------------------------
(***************************************************************************)
(* The SLA job and the list of notifications it fills: a list in Valkey    *)
(* without a row behind it, which the requests that mark notifications as  *)
(* read delete and write again.  Keys are per tenant and user, so one      *)
(* steward stands for all.  The e-mail queued with each notification is    *)
(* the subject of module EmailTask.                                        *)
(***************************************************************************)
EXTENDS Naturals, Sequences, FiniteSets, SequencesExt

CONSTANTS
  Submissions,       \* submissions whose review is overdue
  MaxNotifications,  \* MAX_NOTIFICATIONS
  MaxPushes,         \* notifications pushed
  Requests           \* requests that mark notifications, in flight at once

ASSUME InboxAssumption ==
  /\ MaxNotifications \in Nat \ {0}
  /\ MaxPushes \in Nat

VARIABLES
  breached,   \* submissions with sla_breached set, as committed
  job,        \* the running job's open transaction
  inbox,      \* the Valkey list, as lrange returns it
  request,    \* per request, how far it is and what it computed
  pushes,     \* history: the submissions announced, in order
  marked,     \* history: notifications a user was told are read
  disturbed   \* history: a rewrite of the list overlapped another write or died

listVars == <<inbox, request, marked, disturbed>>
inboxVars == <<breached, job, pushes, listVars>>

NoJob == [todo |-> {}, flagged |-> {}]
Idle == [phase |-> "idle"]

InboxInit ==
  /\ breached = {}
  /\ job = NoJob
  /\ inbox = <<>>
  /\ request = [r \in Requests |-> Idle]
  /\ pushes = <<>>
  /\ marked = {}
  /\ disturbed = FALSE

Rewriting == \E r \in Requests : request[r].phase # "idle"

-----------------------------------------------------------------------------
(* flag_sla_breaches *)

\* list_overdue_pending leaves out what is flagged already.
StartJob ==
  /\ job = NoJob /\ breached # Submissions
  /\ job' = [NoJob EXCEPT !.todo = Submissions \ breached]
  /\ UNCHANGED <<breached, pushes, listVars>>

\* ltrim and lrange: the entries 0 to MAX_NOTIFICATIONS - 1.
Latest(list) == IF Len(list) > MaxNotifications THEN SubSeq(list, 1, MaxNotifications) ELSE list

\* push: lpush and ltrim; no other command of the module tells them apart.
Push(s) ==
  /\ s \in job.todo
  /\ Len(pushes) < MaxPushes
  /\ inbox' = Latest(<<[id |-> Len(pushes) + 1, read |-> FALSE]>> \o inbox)
  /\ pushes' = Append(pushes, s)
  /\ job' = [todo |-> job.todo \ {s}, flagged |-> job.flagged \union {s}]
  /\ disturbed' = (disturbed \/ Rewriting)
  /\ UNCHANGED <<breached, request, marked>>

CommitJob ==
  /\ job # NoJob /\ job.todo = {}
  /\ breached' = breached \union job.flagged
  /\ job' = NoJob
  /\ UNCHANGED <<pushes, listVars>>

\* Mutant: a push that fails is skipped and the submission flagged all the same.
AfterFailedPush_Skipped(j) ==
  [todo |-> {}, flagged |-> j.flagged \union j.todo]

\* An exception in the loop leaves it, and the session is rolled back.
AfterFailedPush(j) == NoJob

AbortJob ==
  /\ job # NoJob
  /\ job' = AfterFailedPush(job)
  /\ UNCHANGED <<breached, pushes, listVars>>

-----------------------------------------------------------------------------
(* mark_read and mark_all_read *)

Ids(list) == {list[i].id : i \in DOMAIN list}
Unread(list) == {list[i].id : i \in {k \in DOMAIN list : ~list[k].read}}

Marked(list, targets) ==
  [i \in DOMAIN list |-> [list[i] EXCEPT !.read = @ \/ list[i].id \in targets]]

\* lrange: mark_read has one target, mark_all_read all of them; neither writes
\* when nothing changes.
ReadList(r, targets) ==
  /\ request[r] = Idle
  /\ targets # {} /\ targets \subseteq Unread(inbox)
  /\ request' = [request EXCEPT ![r] =
                   [phase |-> "read", targets |-> targets,
                    list |-> Marked(Latest(inbox), targets)]]
  /\ disturbed' = (disturbed \/ Rewriting)
  /\ UNCHANGED <<breached, job, pushes, inbox, marked>>

DeleteList(r) ==
  /\ request[r].phase = "read"
  /\ inbox' = <<>>
  /\ request' = [request EXCEPT ![r].phase = "deleted"]
  /\ UNCHANGED <<breached, job, pushes, marked, disturbed>>

\* Mutant: only what was not marked is pushed back.
Restored_Rest(list, targets) == SelectSeq(Reverse(list), LAMBDA item : item.id \notin targets)

\* rpush(key, *reversed(updated)): everything comes back, in the opposite order.
Restored(list, targets) == Reverse(list)

WriteList(r) ==
  /\ request[r].phase = "deleted"
  /\ inbox' = inbox \o Restored(request[r].list, request[r].targets)
  /\ marked' = marked \union request[r].targets
  /\ request' = [request EXCEPT ![r] = Idle]
  /\ UNCHANGED <<breached, job, pushes, disturbed>>

\* The process dies or Valkey stops answering between two commands.
LoseRequest(r) ==
  /\ request[r] # Idle
  /\ request' = [request EXCEPT ![r] = Idle]
  /\ disturbed' = TRUE
  /\ UNCHANGED <<breached, job, pushes, inbox, marked>>

InboxNext ==
  \/ StartJob
  \/ \E s \in Submissions : Push(s)
  \/ CommitJob
  \/ AbortJob
  \/ \E r \in Requests :
       \/ \E id \in Unread(inbox) : ReadList(r, {id})
       \/ ReadList(r, Unread(inbox))
       \/ DeleteList(r)
       \/ WriteList(r)
       \/ LoseRequest(r)

InboxSpec == InboxInit /\ [][InboxNext]_inboxVars
=============================================================================
