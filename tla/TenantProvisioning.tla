------------------------- MODULE TenantProvisioning ------------------------
(***************************************************************************)
(* Requests that provision tenants: an administrator's POST /tenants or    *)
(* the Celery task, which is delivered again when its worker is lost.      *)
(* Each runs in one READ COMMITTED transaction.  The rows it writes are    *)
(* visible to others at its commit, but an insert waits for an open        *)
(* transaction that has inserted the same key; object storage and Valkey   *)
(* are written before the commit, whether or not it will succeed.          *)
(***************************************************************************)
EXTENDS Naturals, FiniteSets

CONSTANTS
  Provisions,     \* requests
  TenantSlugs,    \* normalized slugs
  MaxRedelivery   \* bound on lost workers

ASSUME ProvisionAssumption == IsFiniteSet(Provisions) /\ MaxRedelivery \in Nat

VARIABLES
  rows,      \* committed tenants, each an id and a slug
  licensed,  \* ids with a committed licence row
  plans,     \* the default plans are committed
  prefixes,  \* ids with a marker object in storage
  limits,    \* ids with a rate limit in Valkey
  settled,   \* slugs whose idempotency key is in Valkey
  provisioning,   \* per request: channel, slug, phase, what its transaction holds
  minted,    \* uuid4: ids handed out
  lostTasks     \* lost workers so far

provisionVars ==
  <<rows, licensed, plans, prefixes, limits, settled, provisioning, minted, lostTasks>>

tenantRowVars == <<rows, licensed, plans>>
NewIds == 1 .. (Cardinality(Provisions) + MaxRedelivery)
NotSent == [phase |-> "new"]

ProvisionInit ==
  /\ rows = {} /\ licensed = {} /\ plans = FALSE
  /\ prefixes = {} /\ limits = {} /\ settled = {}
  /\ provisioning = [r \in Provisions |-> NotSent]
  /\ minted = 0 /\ lostTasks = 0

SlugTaken(s) == \E t \in rows : t.slug = s

InTransaction(r) ==
  provisioning[r].phase \in {"plans", "insertPlans", "tenant", "licence", "prefix", "limit", "commit"}

GoTo(r, phase) == provisioning' = [provisioning EXCEPT ![r].phase = phase]

\* An open transaction of another request has inserted the plans, or the slug.
PlansLocked(r) == \E q \in Provisions \ {r} : InTransaction(q) /\ provisioning[q].seeds
SlugLocked(r) ==
  \E q \in Provisions \ {r} :
    InTransaction(q) /\ provisioning[q].id # 0 /\ provisioning[q].slug = provisioning[r].slug

Submit(r, channel, s) ==
  /\ provisioning[r] = NotSent
  /\ provisioning' = [provisioning EXCEPT ![r] =
       [phase |-> "begin", channel |-> channel, slug |-> s, seeds |-> FALSE, id |-> 0]]
  /\ UNCHANGED <<tenantRowVars, prefixes, limits, settled, minted, lostTasks>>

\* provision_tenant looks its key up first; the endpoint has no key.
LookUpKey(r) ==
  /\ provisioning[r].phase = "begin"
  /\ GoTo(r, IF provisioning[r].channel = "task" /\ provisioning[r].slug \in settled
               THEN "done" ELSE "check")
  /\ UNCHANGED <<tenantRowVars, prefixes, limits, settled, minted, lostTasks>>

\* SlugConflict: the redelivery of a committed request ends here as a failure.
CheckSlug(r) ==
  /\ provisioning[r].phase = "check"
  /\ GoTo(r, IF SlugTaken(provisioning[r].slug) THEN "refused" ELSE "plans")
  /\ UNCHANGED <<tenantRowVars, prefixes, limits, settled, minted, lostTasks>>

\* ensure_default_plans reads, then inserts what was missing under fixed ids.
ReadPlans(r) ==
  /\ provisioning[r].phase = "plans"
  /\ GoTo(r, IF plans THEN "tenant" ELSE "insertPlans")
  /\ UNCHANGED <<tenantRowVars, prefixes, limits, settled, minted, lostTasks>>

InsertPlans(r) ==
  /\ provisioning[r].phase = "insertPlans" /\ ~PlansLocked(r)
  /\ provisioning' = [provisioning EXCEPT ![r].phase = IF plans THEN "refused" ELSE "tenant",
                                ![r].seeds = ~plans]
  /\ UNCHANGED <<tenantRowVars, prefixes, limits, settled, minted, lostTasks>>

\* Mutant: the column slug is not unique.
Collides_Never(r) == FALSE

\* tenants.slug is unique: the flush raises when another request has committed it.
Collides(r) == SlugTaken(provisioning[r].slug)

InsertTenant(r) ==
  /\ provisioning[r].phase = "tenant"
  /\ \/ /\ ~Collides(r) /\ ~SlugLocked(r)
        /\ minted' = minted + 1
        /\ provisioning' = [provisioning EXCEPT ![r].phase = "licence", ![r].id = minted + 1]
     \/ /\ Collides(r)
        /\ provisioning' = [provisioning EXCEPT ![r].phase = "refused"]
        /\ UNCHANGED minted
  /\ UNCHANGED <<tenantRowVars, prefixes, limits, settled, lostTasks>>

SeedLicence(r) ==
  /\ provisioning[r].phase = "licence"
  /\ GoTo(r, "prefix")
  /\ UNCHANGED <<tenantRowVars, prefixes, limits, settled, minted, lostTasks>>

\* Best effort, both: a failure is logged and the request goes on.
EnsurePrefix(r) ==
  /\ provisioning[r].phase = "prefix"
  /\ prefixes' \in {prefixes, prefixes \union {provisioning[r].id}}
  /\ GoTo(r, "limit")
  /\ UNCHANGED <<tenantRowVars, limits, settled, minted, lostTasks>>

HydrateTenantLimit(r) ==
  /\ provisioning[r].phase = "limit"
  /\ limits' \in {limits, limits \union {provisioning[r].id}}
  /\ GoTo(r, "commit")
  /\ UNCHANGED <<tenantRowVars, prefixes, settled, minted, lostTasks>>

CommitTenant(r) ==
  /\ provisioning[r].phase = "commit"
  /\ rows' = rows \union {[id |-> provisioning[r].id, slug |-> provisioning[r].slug]}
  /\ licensed' = licensed \union {provisioning[r].id}
  /\ plans' = (plans \/ provisioning[r].seeds)
  /\ GoTo(r, IF provisioning[r].channel = "task" THEN "settle" ELSE "done")
  /\ UNCHANGED <<prefixes, limits, settled, minted, lostTasks>>

\* The task stores its key, after the commit.
Settle(r) ==
  /\ provisioning[r].phase = "settle"
  /\ settled' = settled \union {provisioning[r].slug}
  /\ GoTo(r, "done")
  /\ UNCHANGED <<tenantRowVars, prefixes, limits, minted, lostTasks>>

\* The database fails: the transaction is rolled back, the request is answered
\* with an error, and the task, which never calls retry(), is acknowledged.
RollbackTenant(r) ==
  /\ InTransaction(r)
  /\ GoTo(r, "refused")
  /\ UNCHANGED <<tenantRowVars, prefixes, limits, settled, minted, lostTasks>>

\* acks_late: a lost worker's task is delivered again, also after its commit.
LoseProvisioner(r) ==
  /\ InTransaction(r) \/ provisioning[r].phase = "settle"
  /\ provisioning[r].channel = "task" /\ lostTasks < MaxRedelivery
  /\ lostTasks' = lostTasks + 1
  /\ provisioning' = [provisioning EXCEPT ![r].phase = "begin", ![r].seeds = FALSE, ![r].id = 0]
  /\ UNCHANGED <<tenantRowVars, prefixes, limits, settled, minted>>

ProvisionNext ==
  \E r \in Provisions :
    \/ \E channel \in {"task", "admin"}, s \in TenantSlugs : Submit(r, channel, s)
    \/ LookUpKey(r) \/ CheckSlug(r) \/ ReadPlans(r) \/ InsertPlans(r) \/ InsertTenant(r)
    \/ SeedLicence(r) \/ EnsurePrefix(r) \/ HydrateTenantLimit(r) \/ CommitTenant(r)
    \/ Settle(r) \/ RollbackTenant(r) \/ LoseProvisioner(r)

ProvisionSpec == ProvisionInit /\ [][ProvisionNext]_provisionVars

-----------------------------------------------------------------------------

ProvisionTypeOK ==
  /\ rows \subseteq [id : NewIds, slug : TenantSlugs]
  /\ licensed \subseteq NewIds /\ plans \in BOOLEAN

\* The refinement mapping: what is committed.
TenantsOf == [s \in TenantSlugs |-> {t.id : t \in {u \in rows : u.slug = s}}]
Usable == {i \in licensed : plans}

Tenancy == INSTANCE TenantOnce WITH
  Slugs <- TenantSlugs, TenantIds <- NewIds, tenantsOf <- TenantsOf, usable <- Usable

\* Requests that check for the slug before either has committed, a plan that two
\* of them seed, a task delivered again after its commit: a slug still gets one
\* tenant, and the tenant its licence and plans with it
\* (tenant_provisioning_service.py:27-70).
ImplementsTenancy == Tenancy!Spec
=============================================================================
