-------------------------- MODULE KeycloakSessions --------------------------
(***************************************************************************)
(* Sign-in through Keycloak: the PKCE state in Valkey, the sessions Keycloak*)
(* keeps, and the index of one user's refresh tokens by which a             *)
(* deprovisioning finds those sessions.  Keycloak itself is external: it    *)
(* accepts a code once, and a logout with any token of a session ends it.   *)
(***************************************************************************)
EXTENDS Naturals, FiniteSets

CONSTANTS
  Handlers,    \* requests in flight at once
  SignIns,     \* browser sign-ins; a sign-in has its own state, code and session
  MaxRefresh   \* refreshes of one session

ASSUME KeycloakAssumption == MaxRefresh \in Nat

VARIABLES
  pending,     \* oidc:state:<state> keys
  kcSession,   \* per sign-in, its session at Keycloak
  cookie,      \* per sign-in, how often the token in the browser was refreshed
  index,       \* keycloak:refresh:user:<user>, the tokens in the list
  handler,     \* per request, how far it is and what it holds
  indexed,     \* history: sign-ins whose token was put into the index
  endAsked,    \* history: sign-ins somebody asked Keycloak to end
  overlapping  \* history: requests on the index overlapped, or it expired

kcVars == <<pending, kcSession, cookie, index, handler, indexed, endAsked, overlapping>>

\* A refresh token: the sign-in and the number of refreshes before it.
KcTokens == SignIns \X (0 .. MaxRefresh)
Token(u) == <<u, cookie[u]>>
Unhandled == [phase |-> "waiting"]

KcInit ==
  /\ pending = {}
  /\ kcSession = [u \in SignIns |-> "new"]
  /\ cookie = [u \in SignIns |-> 0]
  /\ index = {}
  /\ handler = [h \in Handlers |-> Unhandled]
  /\ indexed = {} /\ endAsked = {}
  /\ overlapping = FALSE

Moves(h, state) == handler' = [handler EXCEPT ![h] = state]

\* The request reads the index: from here to its write another may overlap it.
OnIndex(h) == handler[h].phase \in {"register", "unregister", "revoke"}
Reads(h, state) ==
  /\ Moves(h, state)
  /\ overlapping' = (overlapping \/ \E other \in Handlers \ {h} : OnIndex(other))

\* revoke_refresh_token: best effort, no word on whether Keycloak answered.
AskToEnd(u) ==
  /\ endAsked' = endAsked \union {u}
  /\ kcSession' \in {kcSession, [kcSession EXCEPT ![u] = "ended"]}

-----------------------------------------------------------------------------
(* oidc_login and oidc_callback *)

OidcLogin(u) ==
  /\ kcSession[u] = "new" /\ u \notin pending
  /\ kcSession' = [kcSession EXCEPT ![u] = "code"]
  /\ pending' = pending \union {u}
  /\ UNCHANGED <<cookie, index, handler, indexed, endAsked, overlapping>>

ExpireState(u) ==
  /\ u \in pending
  /\ pending' = pending \ {u}
  /\ UNCHANGED <<kcSession, cookie, index, handler, indexed, endAsked, overlapping>>

\* The state is read here and deleted in the next step.
Callback(h, u) ==
  /\ handler[h] = Unhandled /\ u \in pending
  /\ Moves(h, [phase |-> "claim", u |-> u])
  /\ UNCHANGED <<pending, kcSession, cookie, index, indexed, endAsked, overlapping>>

Claim(h) ==
  /\ handler[h].phase = "claim"
  /\ pending' = pending \ {handler[h].u}
  /\ Moves(h, [phase |-> "exchange", u |-> handler[h].u])
  /\ UNCHANGED <<kcSession, cookie, index, indexed, endAsked, overlapping>>

\* exchange_authorization_code: the second use of a code is refused.
Exchange(h) ==
  LET u == handler[h].u IN
  /\ handler[h].phase = "exchange"
  /\ \/ /\ kcSession[u] = "code"
        /\ kcSession' = [kcSession EXCEPT ![u] = "live"]
        /\ Moves(h, [phase |-> "issued", token |-> Token(u)])
     \/ /\ UNCHANGED kcSession
        /\ Moves(h, Unhandled)
  /\ UNCHANGED <<pending, cookie, index, indexed, endAsked, overlapping>>

\* register_keycloak_refresh, or any exception before it: the sign-in goes on.
ReadToRegister(h) ==
  /\ handler[h].phase = "issued"
  /\ Reads(h, [phase |-> "register", token |-> handler[h].token, list |-> index])
  /\ UNCHANGED <<pending, kcSession, cookie, index, indexed, endAsked>>

SkipIndex(h) ==
  /\ handler[h].phase = "issued"
  /\ Moves(h, Unhandled)
  /\ UNCHANGED <<pending, kcSession, cookie, index, indexed, endAsked, overlapping>>

Register(h) ==
  /\ handler[h].phase = "register"
  /\ index' = handler[h].list \union {handler[h].token}
  /\ indexed' = indexed \union {handler[h].token[1]}
  /\ Moves(h, Unhandled)
  /\ UNCHANGED <<pending, kcSession, cookie, endAsked, overlapping>>

-----------------------------------------------------------------------------
(* refresh_session and logout *)

\* refresh_tokens: the browser gets the new token, the index keeps the old one.
Refresh(u) ==
  /\ kcSession[u] = "live" /\ cookie[u] < MaxRefresh
  /\ cookie' = [cookie EXCEPT ![u] = @ + 1]
  /\ UNCHANGED <<pending, kcSession, index, handler, indexed, endAsked, overlapping>>

KcLogout(h, u) ==
  /\ handler[h] = Unhandled /\ kcSession[u] \in {"live", "ended"}
  /\ AskToEnd(u)
  /\ Moves(h, [phase |-> "revoked", token |-> Token(u)])
  /\ UNCHANGED <<pending, cookie, index, indexed, overlapping>>

\* unregister_keycloak_refresh: nothing to do for a token that is not listed.
ReadToUnregister(h) ==
  /\ handler[h].phase = "revoked"
  /\ IF handler[h].token \in index
       THEN Reads(h, [phase |-> "unregister", token |-> handler[h].token, list |-> index])
       ELSE Moves(h, Unhandled) /\ UNCHANGED overlapping
  /\ UNCHANGED <<pending, kcSession, cookie, index, indexed, endAsked>>

\* Mutant: the whole list goes with the token.
Without_All(list, token) == {}

\* What is left of the list; the key is deleted when nothing is.
Without(list, token) == list \ {token}

Unregister(h) ==
  /\ handler[h].phase = "unregister"
  /\ index' = Without(handler[h].list, handler[h].token)
  /\ Moves(h, Unhandled)
  /\ UNCHANGED <<pending, kcSession, cookie, indexed, endAsked, overlapping>>

-----------------------------------------------------------------------------
(* revoke_keycloak_sessions_for_user *)

ReadToRevoke(h) ==
  /\ handler[h] = Unhandled /\ index # {}
  /\ Reads(h, [phase |-> "revoke", todo |-> index])
  /\ UNCHANGED <<pending, kcSession, cookie, index, indexed, endAsked>>

RevokeNext(h, token) ==
  /\ handler[h].phase = "revoke" /\ token \in handler[h].todo
  /\ AskToEnd(token[1])
  /\ Moves(h, [handler[h] EXCEPT !.todo = @ \ {token}])
  /\ UNCHANGED <<pending, cookie, index, indexed, overlapping>>

DropIndex(h) ==
  /\ handler[h].phase = "revoke" /\ handler[h].todo = {}
  /\ index' = {}
  /\ Moves(h, Unhandled)
  /\ UNCHANGED <<pending, kcSession, cookie, indexed, endAsked, overlapping>>

ExpireIndex ==
  /\ index # {}
  /\ index' = {} /\ overlapping' = TRUE
  /\ UNCHANGED <<pending, kcSession, cookie, handler, indexed, endAsked>>

\* The process is gone between two steps.
LoseHandler(h) ==
  /\ handler[h] # Unhandled
  /\ Moves(h, Unhandled)
  /\ UNCHANGED <<pending, kcSession, cookie, index, indexed, endAsked, overlapping>>

KcNext ==
  \/ \E u \in SignIns : OidcLogin(u) \/ ExpireState(u) \/ Refresh(u)
  \/ \E h \in Handlers :
       \/ \E u \in SignIns : Callback(h, u) \/ KcLogout(h, u)
       \/ Claim(h) \/ Exchange(h) \/ ReadToRegister(h) \/ SkipIndex(h) \/ Register(h)
       \/ ReadToUnregister(h) \/ Unregister(h)
       \/ ReadToRevoke(h) \/ DropIndex(h) \/ LoseHandler(h)
       \/ \E token \in KcTokens : RevokeNext(h, token)
  \/ ExpireIndex

KcSpec == KcInit /\ [][KcNext]_kcVars

-----------------------------------------------------------------------------

KcTypeOK ==
  /\ pending \subseteq SignIns
  /\ kcSession \in [SignIns -> {"new", "code", "live", "ended"}]
  /\ cookie \in [SignIns -> 0 .. MaxRefresh]
  /\ index \subseteq KcTokens

\* While requests on the index do not overlap, an indexed sign-in stays in it
\* until Keycloak was asked to end its session, although a refresh replaces the
\* token under which it was listed (keycloak_session_index.py:23-61).
IndexCoversSessions ==
  ~overlapping =>
    \A u \in indexed : u \in endAsked \/ \E token \in index : token[1] = u
=============================================================================
