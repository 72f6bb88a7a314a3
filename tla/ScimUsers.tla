----------------------------- MODULE ScimUsers -----------------------------
(***************************************************************************)
(* User rows as an identity provider manages them over SCIM: created,       *)
(* patched, and deprovisioned together with the API keys and the refresh    *)
(* sessions of the user.  Row and keys change in one transaction; sessions  *)
(* live in Valkey and end at once, whatever becomes of the transaction.     *)
(***************************************************************************)
EXTENDS FiniteSets

CONSTANTS
  Users,        \* ids of user rows
  Emails,
  KeyRows,      \* api_keys rows, each created once
  Logins,       \* refresh-token families, each opened once
  ScimRequests  \* requests in flight at once

VARIABLES
  user,         \* users rows, as committed: e-mail and status
  ownKeys,      \* per user, the keys without revoked_at, as committed
  ownFamilies,  \* per user, the families of refresh tokens in force
  familyList,   \* per user, the list refresh:user:<id>
  rotating,     \* <<user, family>>: a rotation has loaded the family's session
  spent,        \* keys and families made so far
  scimRequest,  \* per request, how far it is and what it has written
  suspensions,  \* committed UserSuspended events, each with the keys the user held
                \* when it began and the families then found on the list
  revived       \* history: families a rotation put back in force after their end

scimVars == <<user, ownKeys, ownFamilies, familyList, rotating, spent, scimRequest,
              suspensions, revived>>
sessionVars == <<ownFamilies, familyList, rotating, revived>>

NoUser == [status |-> "absent"]
Quiet == [phase |-> "quiet"]

ScimInit ==
  /\ user = [u \in Users |-> NoUser]
  /\ ownKeys = [u \in Users |-> {}]
  /\ ownFamilies = [u \in Users |-> {}]
  /\ familyList = [u \in Users |-> {}]
  /\ rotating = {} /\ revived = {}
  /\ spent = {}
  /\ scimRequest = [r \in ScimRequests |-> Quiet]
  /\ suspensions = {}

Known(u) == user[u] # NoUser
WithEmail(e) == {u \in Users : Known(u) /\ user[u].email = e}
Named == {scimRequest[r].u : r \in {q \in ScimRequests : scimRequest[q] # Quiet}}

\* An UPDATE of a row waits for the transaction that has updated it.
Locked(u) ==
  \E r \in ScimRequests :
    /\ scimRequest[r].phase \in {"patch", "suspend", "list", "revoke", "close"}
    /\ scimRequest[r].u = u

Enters(r, state) ==
  /\ scimRequest[r] = Quiet
  /\ scimRequest' = [scimRequest EXCEPT ![r] = state]
Proceeds(r, phase, state) ==
  /\ scimRequest[r].phase = phase
  /\ scimRequest' = [scimRequest EXCEPT ![r] = state]

-----------------------------------------------------------------------------
(* scim_create_user and scim_patch_user *)

\* create_user: nobody has the e-mail, whatever their status.  The table has
\* no constraint to say so, so two creations may both find it free.
BeginCreateUser(r, u, e, active) ==
  /\ WithEmail(e) = {}
  /\ ~Known(u) /\ u \notin Named
  /\ Enters(r, [phase |-> "create", u |-> u,
                row |-> [email |-> e, status |-> IF active THEN "active" ELSE "suspended"]])
  /\ UNCHANGED <<user, ownKeys, sessionVars, spent, suspensions>>

CommitCreateUser(r) ==
  /\ Proceeds(r, "create", Quiet)
  /\ user' = [user EXCEPT ![scimRequest[r].u] = scimRequest[r].row]
  /\ UNCHANGED <<ownKeys, sessionVars, spent, suspensions>>

\* patch_user: active only moves the status; keys and sessions stay.
BeginPatch(r, u, status) ==
  /\ Known(u) /\ ~Locked(u)
  /\ Enters(r, [phase |-> "patch", u |-> u, status |-> status])
  /\ UNCHANGED <<user, ownKeys, sessionVars, spent, suspensions>>

CommitPatch(r) ==
  /\ Proceeds(r, "patch", Quiet)
  /\ user' = [user EXCEPT ![scimRequest[r].u].status = scimRequest[r].status]
  /\ UNCHANGED <<ownKeys, sessionVars, spent, suspensions>>

-----------------------------------------------------------------------------
(* suspend_user *)

\* The UPDATE of the status ...
BeginSuspend(r, u) ==
  /\ Known(u) /\ ~Locked(u)
  /\ Enters(r, [phase |-> "suspend", u |-> u, had |-> ownKeys[u]])
  /\ UNCHANGED <<user, ownKeys, sessionVars, spent, suspensions>>

\* scim_deprovision and scim_webhook_event: one row with the e-mail, the first
\* the database returns.
BeginDeprovision(r, e) == \E u \in WithEmail(e) : BeginSuspend(r, u)

\* ... then, in the same transaction, that of the keys it finds unrevoked, ...
RevokeKeys(r) ==
  LET q == scimRequest[r] IN
  /\ Proceeds(r, "suspend", [phase |-> "list", u |-> q.u, had |-> q.had,
                             keys |-> ownKeys[q.u]])
  /\ UNCHANGED <<user, ownKeys, sessionVars, spent, suspensions>>

\* ... then revoke_user_sessions: the list, and the families on it one by one.
ListFamilies(r) ==
  LET q == scimRequest[r] IN
  /\ Proceeds(r, "list", [phase |-> "revoke", u |-> q.u, had |-> q.had, keys |-> q.keys,
                          listed |-> familyList[q.u], todo |-> familyList[q.u]])
  /\ UNCHANGED <<user, ownKeys, sessionVars, spent, suspensions>>

EndFamily(r, f) ==
  LET u == scimRequest[r].u IN
  /\ scimRequest[r].phase = "revoke" /\ f \in scimRequest[r].todo
  /\ scimRequest' = [scimRequest EXCEPT ![r].todo = @ \ {f}]
  /\ ownFamilies' = [ownFamilies EXCEPT ![u] = @ \ {f}]
  /\ UNCHANGED <<user, ownKeys, familyList, rotating, spent, suspensions, revived>>

\* Mutant: the sessions are ended as far as possible.
SessionsEnded_BestEffort(r) == TRUE

\* An exception of Valkey is not caught: the transaction ends with it.
SessionsEnded(r) == scimRequest[r].todo = {}

\* A list that was found is deleted, with what was added to it since.  Keycloak has
\* been asked, UserSuspended is published.
PublishSuspended(r) ==
  LET q == scimRequest[r] IN
  /\ Proceeds(r, "revoke", [q EXCEPT !.phase = "close"])
  /\ SessionsEnded(r)
  /\ familyList' = IF q.listed = {} THEN familyList ELSE [familyList EXCEPT ![q.u] = {}]
  /\ UNCHANGED <<user, ownKeys, ownFamilies, rotating, spent, suspensions, revived>>

CommitSuspend(r) ==
  LET q == scimRequest[r] IN
  /\ Proceeds(r, "close", Quiet)
  /\ user' = [user EXCEPT ![q.u].status = "suspended"]
  /\ ownKeys' = [ownKeys EXCEPT ![q.u] = @ \ q.keys]
  /\ suspensions' = suspensions \union {[u |-> q.u, keys |-> q.had, families |-> q.listed]}
  /\ UNCHANGED <<sessionVars, spent>>

\* An exception or a lost process: the transaction is rolled back.
AbandonRequest(r) ==
  /\ scimRequest[r] # Quiet
  /\ scimRequest' = [scimRequest EXCEPT ![r] = Quiet]
  /\ UNCHANGED <<user, ownKeys, sessionVars, spent, suspensions>>

-----------------------------------------------------------------------------
(* The users themselves *)

\* Signing in, refreshing and creating a key take no notice of the status.
OpenSession(u, f) ==
  /\ Known(u) /\ f \notin spent
  /\ ownFamilies' = [ownFamilies EXCEPT ![u] = @ \union {f}]
  /\ familyList' = [familyList EXCEPT ![u] = @ \union {f}]
  /\ spent' = spent \union {f}
  /\ UNCHANGED <<user, ownKeys, rotating, scimRequest, suspensions, revived>>

\* rotate has loaded the session of the family's token ...
StartRotation(u, f) ==
  /\ f \in ownFamilies[u]
  /\ rotating' = rotating \union {<<u, f>>}
  /\ UNCHANGED <<user, ownKeys, ownFamilies, familyList, spent, scimRequest, suspensions,
                 revived>>

\* ... and create_session makes the next token the family's, whatever became of
\* the family meanwhile.
FinishRotation(u, f) ==
  /\ <<u, f>> \in rotating
  /\ rotating' = rotating \ {<<u, f>>}
  /\ ownFamilies' = [ownFamilies EXCEPT ![u] = @ \union {f}]
  /\ familyList' = [familyList EXCEPT ![u] = @ \union {f}]
  /\ revived' = IF f \in ownFamilies[u] THEN revived ELSE revived \union {f}
  /\ UNCHANGED <<user, ownKeys, spent, scimRequest, suspensions>>

\* An entry is missing: not yet registered, overwritten by a sign-in that had read
\* the list before, or expired with a list to which no sign-in has added since.
ForgetEntry(u, f) ==
  /\ f \in familyList[u]
  /\ familyList' = [familyList EXCEPT ![u] = @ \ {f}]
  /\ UNCHANGED <<user, ownKeys, ownFamilies, rotating, spent, scimRequest, suspensions,
                 revived>>

\* create_api_key: nobody else sees the row before the commit.
BeginKey(r, u, k) ==
  /\ Known(u) /\ k \notin spent
  /\ Enters(r, [phase |-> "key", u |-> u, key |-> k])
  /\ spent' = spent \union {k}
  /\ UNCHANGED <<user, ownKeys, sessionVars, suspensions>>

CommitKey(r) ==
  /\ Proceeds(r, "key", Quiet)
  /\ ownKeys' = [ownKeys EXCEPT ![scimRequest[r].u] = @ \union {scimRequest[r].key}]
  /\ UNCHANGED <<user, sessionVars, spent, suspensions>>

ScimNext ==
  \/ \E r \in ScimRequests :
       \/ \E u \in Users, e \in Emails, active \in BOOLEAN : BeginCreateUser(r, u, e, active)
       \/ \E u \in Users, status \in {"active", "suspended"} : BeginPatch(r, u, status)
       \/ \E u \in Users : BeginSuspend(r, u)
       \/ \E e \in Emails : BeginDeprovision(r, e)
       \/ RevokeKeys(r) \/ ListFamilies(r) \/ \E f \in Logins : EndFamily(r, f)
       \/ CommitCreateUser(r) \/ CommitPatch(r)
       \/ PublishSuspended(r) \/ CommitSuspend(r) \/ CommitKey(r) \/ AbandonRequest(r)
       \/ \E u \in Users, k \in KeyRows : BeginKey(r, u, k)
  \/ \E u \in Users, f \in Logins :
       OpenSession(u, f) \/ StartRotation(u, f) \/ FinishRotation(u, f) \/ ForgetEntry(u, f)

ScimSpec == ScimInit /\ [][ScimNext]_scimVars

-----------------------------------------------------------------------------

ScimTypeOK ==
  /\ user \in [Users -> {NoUser} \union [email : Emails, status : {"active", "suspended"}]]
  /\ ownKeys \in [Users -> SUBSET KeyRows]
  /\ ownFamilies \in [Users -> SUBSET Logins]
  /\ familyList \in [Users -> SUBSET Logins]
  /\ rotating \subseteq Users \X Logins /\ revived \subseteq Logins
  /\ spent \subseteq KeyRows \union Logins
  /\ \A e \in suspensions : e.u \in Users

\* Once a deprovisioning is on record, the keys the user held when it began are
\* gone, and so are the sessions it found on the list, although keys end with
\* its transaction, sessions before it, and either may break off; only a
\* rotation that had loaded its session before brings a family back
\* (scim_service.py, suspend_user; refresh_service.py:90-122).
DeprovisionIsWhole ==
  \A e \in suspensions :
    /\ ownKeys[e.u] \intersect e.keys = {}
    /\ ownFamilies[e.u] \intersect e.families \subseteq revived
=============================================================================
