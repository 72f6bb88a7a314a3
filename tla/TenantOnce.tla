---------------------------- MODULE TenantOnce -----------------------------
(***************************************************************************)
(* What provisioning promises: a slug gets at most one tenant, for good,   *)
(* and the tenant can be used from the moment it exists.                   *)
(***************************************************************************)
CONSTANTS Slugs, TenantIds

VARIABLES
  tenantsOf,  \* per slug, the ids of its tenants
  usable      \* the ids with a licence to publish under and plans to limit them

Init == tenantsOf = [s \in Slugs |-> {}] /\ usable = {}

Provision(s, i) ==
  /\ tenantsOf[s] = {}
  /\ tenantsOf' = [tenantsOf EXCEPT ![s] = {i}]
  /\ usable' = usable \union {i}

Next == \E s \in Slugs, i \in TenantIds : Provision(s, i)

Spec == Init /\ [][Next]_<<tenantsOf, usable>>
=============================================================================
