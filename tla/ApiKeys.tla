------------------------------ MODULE ApiKeys ------------------------------
(***************************************************************************)
(* One developer key: its row, the identity the gateway caches for it, and  *)
(* requests that look it up while it is revoked, or runs out.               *)
(***************************************************************************)
CONSTANT Lookups   \* gateway requests in flight at once

VARIABLES
  revokedBy,  \* who set revoked_at, as committed: "nobody", "owner", "directory"
  expired,    \* has expires_at passed
  revoking,   \* the endpoint's transaction: "none", "updated", "invalidated"
  identity,   \* does Valkey hold the cached identity
  lookup      \* per request, "free", or "valid": it has read the row and found it so

keyRowVars == <<revokedBy, expired, revoking, identity, lookup>>

ApiKeyInit ==
  /\ revokedBy = "nobody" /\ expired = FALSE /\ revoking = "none"
  /\ identity = FALSE
  /\ lookup = [q \in Lookups |-> "free"]

-----------------------------------------------------------------------------
(* _resolve_api_key_identity *)

\* A hit is served as it is.  Without one the row is read; a key revoked or run out
\* is refused and nothing cached.
ReadKey(q) ==
  /\ lookup[q] = "free" /\ ~identity
  /\ revokedBy = "nobody" /\ ~expired
  /\ lookup' = [lookup EXCEPT ![q] = "valid"]
  /\ UNCHANGED <<revokedBy, expired, revoking, identity>>

\* last_used_at is committed when it is old, and only that column is written;
\* then the identity is cached, for API_KEY_CACHE_TTL_SECONDS.
CacheIdentity(q) ==
  /\ lookup[q] = "valid"
  /\ lookup' = [lookup EXCEPT ![q] = "free"]
  /\ identity' = TRUE
  /\ UNCHANGED <<revokedBy, expired, revoking>>

\* Valkey or Postgres fails in between.
AbandonLookup(q) ==
  /\ lookup[q] = "valid"
  /\ lookup' = [lookup EXCEPT ![q] = "free"]
  /\ UNCHANGED <<revokedBy, expired, revoking, identity>>

LapseIdentity ==
  /\ identity
  /\ identity' = FALSE
  /\ UNCHANGED <<revokedBy, expired, revoking, lookup>>

ExpireKey ==
  /\ ~expired
  /\ expired' = TRUE
  /\ UNCHANGED <<revokedBy, revoking, identity, lookup>>

-----------------------------------------------------------------------------
(* revoke_api_key and revoke_api_keys_for_user *)

\* ApiKeyRepository.revoke: the UPDATE and then, before the commit, the cache.
Revoke ==
  /\ revoking = "none" /\ revokedBy = "nobody"
  /\ revoking' = "updated"
  /\ UNCHANGED <<revokedBy, expired, identity, lookup>>

InvalidateCache ==
  /\ revoking = "updated"
  /\ revoking' = "invalidated" /\ identity' = FALSE
  /\ UNCHANGED <<revokedBy, expired, lookup>>

\* The endpoint's session commits.
CommitRevoke ==
  /\ revoking = "invalidated"
  /\ revoking' = "none" /\ revokedBy' = "owner"
  /\ UNCHANGED <<expired, identity, lookup>>

RollbackRevoke ==
  /\ revoking # "none"
  /\ revoking' = "none"
  /\ UNCHANGED <<revokedBy, expired, identity, lookup>>

\* The deprovisioning of the owner waits for the row, and never touches the cache.
RevokeForUser ==
  /\ revoking = "none" /\ revokedBy = "nobody"
  /\ revokedBy' = "directory"
  /\ UNCHANGED <<expired, revoking, identity, lookup>>

ApiKeyNext ==
  \/ \E q \in Lookups : ReadKey(q) \/ CacheIdentity(q) \/ AbandonLookup(q)
  \/ LapseIdentity \/ ExpireKey
  \/ Revoke \/ InvalidateCache \/ CommitRevoke \/ RollbackRevoke \/ RevokeForUser

ApiKeySpec == ApiKeyInit /\ [][ApiKeyNext]_keyRowVars

-----------------------------------------------------------------------------

\* What the endpoint promises, "Revoke an API key immediately" (api_keys.py:62): a
\* key its owner has revoked is not served from the cache.
RevokedAtOnce == revokedBy = "owner" => ~identity
=============================================================================
