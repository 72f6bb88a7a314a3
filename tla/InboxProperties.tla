-------------------------- MODULE InboxProperties --------------------------
(* What stewards may rely on. *)
EXTENDS Inbox

InboxTypeOK ==
  /\ breached \subseteq Submissions
  /\ job \in [todo : SUBSET Submissions, flagged : SUBSET Submissions]
  /\ inbox \in Seq([id : 1 .. MaxPushes, read : BOOLEAN])

\* As long as no write overlaps a rewrite of the list, it holds as many
\* notifications as were pushed, up to its limit, each once, and exactly those a
\* user marked are read (in_app_service.py:44-45, 86-104).
InboxIntact ==
  ~disturbed /\ ~Rewriting =>
    /\ Len(inbox) = IF Len(pushes) < MaxNotifications THEN Len(pushes) ELSE MaxNotifications
    /\ Cardinality(Ids(inbox)) = Len(inbox)
    /\ Ids(inbox) \ Unread(inbox) = Ids(inbox) \intersect marked

\* A submission is flagged for good only after its steward was notified: a run
\* that breaks off flags nothing and is repeated, notifications and all
\* (workflow_service.py:56-94).
BreachIsAnnounced ==
  \A s \in breached :
    \E i \in DOMAIN pushes : pushes[i] = s
=============================================================================
