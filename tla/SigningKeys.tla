---------------------------- MODULE SigningKeys ----------------------------
(***************************************************************************)
(* The validator of access tokens in one process: the realm's signing keys *)
(* as they were last fetched, and requests that share this cache while     *)
(* Keycloak replaces its keys.  Tasks switch only while a request waits for *)
(* Keycloak, or for its HTTP client to close.                              *)
(***************************************************************************)
EXTENDS Naturals, FiniteSets

CONSTANTS
  Validations,   \* requests in flight at once
  MaxRotations   \* keys Keycloak starts after its first

ASSUME SigningAssumption == MaxRotations \in Nat

VARIABLES
  newest,   \* external: the key Keycloak signs with
  listed,   \* external: the keys its JWKS endpoint lists
  jwks,     \* _jwks_cache[realm], or Unloaded
  check,    \* per request, its token's key, its fetch, and how far it is
  crossed,  \* history: requests whose entry in the cache another one replaced or
            \* removed before they read it again
  turned    \* history: per token that was turned away although its key was listed
            \* all along, whether its request was one of those

keyVars == <<newest, listed, jwks, check, crossed, turned>>

Keys == 0 .. MaxRotations
Unloaded == {}
Unused == [phase |-> "unused"]

KeysInit ==
  /\ newest = 0 /\ listed = {0}
  /\ jwks = Unloaded
  /\ check = [v \in Validations |-> Unused]
  /\ crossed = {} /\ turned = {}

\* Mutant: the keys in the cache are the only ones a request looks at.
LooksAgain_Never(again) == FALSE

\* validate_token fetches a second set of keys, and no third.
LooksAgain(again) == ~again

\* Requests that have written the cache and wait for their client to close.
Closing == {v \in Validations : check[v].phase = "stored"}

TurnAway(v, kid) ==
  IF kid \in listed THEN turned \union {[kid |-> kid, crossed |-> v \in crossed]} ELSE turned

\* The request has a set of keys in hand: accept, fetch anew, refuse.
Judge(v, kid, keys, again) ==
  \/ /\ kid \in keys
     /\ check' = [check EXCEPT ![v] = Unused]
     /\ UNCHANGED <<jwks, crossed, turned>>
  \/ /\ kid \notin keys /\ LooksAgain(again)
     /\ jwks' = Unloaded
     /\ check' = [check EXCEPT ![v] = [phase |-> "fetch", kid |-> kid, again |-> TRUE]]
     /\ crossed' = crossed \union (Closing \ {v})
     /\ UNCHANGED turned
  \/ /\ kid \notin keys /\ ~LooksAgain(again)
     /\ check' = [check EXCEPT ![v] = Unused]
     /\ turned' = TurnAway(v, kid)
     /\ UNCHANGED <<jwks, crossed>>

\* validate_token up to its first await, for a token signed with a listed key.
Validate(v, kid) ==
  /\ check[v] = Unused /\ kid \in listed
  /\ IF jwks = Unloaded
       THEN /\ check' = [check EXCEPT ![v] = [phase |-> "fetch", kid |-> kid, again |-> FALSE]]
            /\ UNCHANGED <<jwks, crossed, turned>>
       ELSE Judge(v, kid, jwks, FALSE)
  /\ UNCHANGED <<newest, listed>>

\* Keycloak answers with the keys of this moment; the answer is on its way.
Answer(v) ==
  LET c == check[v] IN
  /\ c.phase = "fetch"
  /\ check' = [check EXCEPT ![v] = [phase |-> "answered", kid |-> c.kid, again |-> c.again,
                                    keys |-> listed]]
  /\ UNCHANGED <<newest, listed, jwks, crossed, turned>>

\* It arrives and takes the place of whatever the cache holds by now ...
Arrive(v) ==
  /\ check[v].phase = "answered"
  /\ jwks' = check[v].keys
  /\ check' = [check EXCEPT ![v].phase = "stored"]
  /\ crossed' = (crossed \union Closing) \ {v}
  /\ UNCHANGED <<newest, listed, turned>>

\* ... and once the client is closed, what the cache holds then is searched; a
\* removed entry is a KeyError, which nothing catches.
Reread(v) ==
  /\ check[v].phase = "stored"
  /\ IF jwks = Unloaded
       THEN /\ check' = [check EXCEPT ![v] = Unused]
            /\ turned' = TurnAway(v, check[v].kid)
            /\ UNCHANGED <<jwks, crossed>>
       ELSE Judge(v, check[v].kid, jwks, check[v].again)
  /\ UNCHANGED <<newest, listed>>

\* Keycloak does not answer: the request fails, the cache stays as it is.
NoAnswer(v) ==
  /\ check[v].phase = "fetch"
  /\ check' = [check EXCEPT ![v] = Unused]
  /\ UNCHANGED <<newest, listed, jwks, crossed, turned>>

\* External: Keycloak signs with a new key, and drops an old one some time later.
RotateKey ==
  /\ newest < MaxRotations
  /\ newest' = newest + 1 /\ listed' = listed \union {newest + 1}
  /\ UNCHANGED <<jwks, check, crossed, turned>>

WithdrawKey(k) ==
  /\ k \in listed \ {newest}
  /\ listed' = listed \ {k}
  /\ UNCHANGED <<newest, jwks, check, crossed, turned>>

KeysNext ==
  \/ \E v \in Validations :
       \/ \E kid \in Keys : Validate(v, kid)
       \/ Answer(v) \/ Arrive(v) \/ Reread(v) \/ NoAnswer(v)
  \/ RotateKey
  \/ \E k \in Keys : WithdrawKey(k)

KeysSpec == KeysInit /\ [][KeysNext]_keyVars

-----------------------------------------------------------------------------

KeysTypeOK ==
  /\ listed \subseteq 0 .. newest /\ newest \in listed
  /\ jwks \subseteq Keys
  /\ crossed \subseteq Validations
  /\ turned \subseteq [kid : Keys, crossed : BOOLEAN]

\* However stale the shared cache is, a token is turned away for want of a key
\* that Keycloak lists all along only if another request wrote or removed the
\* entry between this one's write and its reading it again
\* (security.py:188-201, 218-241).
ListedKeyIsFound == \A t \in turned : t.crossed
=============================================================================
