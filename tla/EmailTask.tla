----------------------------- MODULE EmailTask -----------------------------
(***************************************************************************)
(* send_email for one idempotency key: the SLA job may queue the message   *)
(* again when it is repeated, and Celery delivers each at least once.  The *)
(* key, once set, is kept for a day, longer than any of that.              *)
(***************************************************************************)
EXTENDS Naturals, FiniteSets

CONSTANTS
  Workers,        \* workers that serve the notifications queue
  MaxMessages,    \* messages queued with the key
  MaxLostMailers, \* workers lost
  MaxMailFaults   \* exceptions after a mail was accepted

ASSUME EmailAssumption ==
  /\ IsFiniteSet(Workers)
  /\ MaxMessages \in Nat /\ MaxLostMailers \in Nat /\ MaxMailFaults \in Nat

VARIABLES
  waiting,      \* messages no worker holds
  phase,        \* per worker: idle, checked (the key was not set) or sent
  keySet,       \* the idempotency key is set
  mailsQueued,  \* messages queued so far
  sent,         \* mails handed to the SMTP server
  losses,       \* workers lost
  faults        \* exceptions after a mail was accepted

mailVars == <<waiting, phase, keySet, mailsQueued, sent, losses, faults>>

MailInit ==
  /\ waiting = 0
  /\ phase = [w \in Workers |-> "idle"]
  /\ keySet = FALSE
  /\ mailsQueued = 0 /\ sent = 0 /\ losses = 0 /\ faults = 0

QueueMail ==
  /\ mailsQueued < MaxMessages
  /\ mailsQueued' = mailsQueued + 1
  /\ waiting' = waiting + 1
  /\ UNCHANGED <<phase, keySet, sent, losses, faults>>

\* Mutant: the key is not consulted.
AlreadySent_Never(key) == FALSE

AlreadySent(key) == key

TakeMail(w) ==
  /\ phase[w] = "idle" /\ waiting > 0
  /\ waiting' = waiting - 1
  /\ phase' = [phase EXCEPT ![w] = IF AlreadySent(keySet) THEN "idle" ELSE "checked"]
  /\ UNCHANGED <<keySet, mailsQueued, sent, losses, faults>>

SendMail(w) ==
  /\ phase[w] = "checked"
  /\ sent' = sent + 1
  /\ phase' = [phase EXCEPT ![w] = "sent"]
  /\ UNCHANGED <<waiting, keySet, mailsQueued, losses, faults>>

\* SMTP refuses or is not configured, or Valkey does not say whether the key is
\* set: settled, and no key is set.
DropMail(w) ==
  /\ phase[w] = "checked"
  /\ phase' = [phase EXCEPT ![w] = "idle"]
  /\ UNCHANGED <<waiting, keySet, mailsQueued, sent, losses, faults>>

MarkMail(w) ==
  /\ phase[w] = "sent"
  /\ keySet' = TRUE
  /\ phase' = [phase EXCEPT ![w] = "idle"]
  /\ UNCHANGED <<waiting, mailsQueued, sent, losses, faults>>

\* The message of a lost worker comes back.
LoseMailer(w) ==
  /\ phase[w] # "idle" /\ losses < MaxLostMailers
  /\ losses' = losses + 1
  /\ waiting' = waiting + 1
  /\ phase' = [phase EXCEPT ![w] = "idle"]
  /\ UNCHANGED <<keySet, mailsQueued, sent, faults>>

\* The server took the mail, and then its QUIT fails or Valkey refuses the key: the
\* task fails, is acknowledged, and the key is not set.
FaultAfterMail(w) ==
  /\ faults < MaxMailFaults
  /\ faults' = faults + 1
  /\ \/ phase[w] = "checked" /\ sent' = sent + 1
     \/ phase[w] = "sent" /\ sent' = sent
  /\ phase' = [phase EXCEPT ![w] = "idle"]
  /\ UNCHANGED <<waiting, keySet, mailsQueued, losses>>

MailNext ==
  \/ QueueMail
  \/ \E w \in Workers :
       \/ TakeMail(w) \/ SendMail(w) \/ DropMail(w) \/ MarkMail(w)
       \/ FaultAfterMail(w) \/ LoseMailer(w)

MailSpec == MailInit /\ [][MailNext]_mailVars

\* However often the message is queued and redelivered, each further mail takes
\* a worker that checked the key before the first was done, a lost worker, or an
\* exception between the server's acceptance and the setting of the key
\* (tasks.py:236-240, email_service.py:36-41).
MailedPerWorker == sent <= Cardinality(Workers) + losses + faults
=============================================================================
