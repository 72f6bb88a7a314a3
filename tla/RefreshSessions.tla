-------------------------- MODULE RefreshSessions --------------------------
(***************************************************************************)
(* Refresh tokens in Valkey: a record per token, the token in force of each *)
(* family, and the list of one user's families.  A login, a rotation, a     *)
(* logout and a deprovisioning are sequences of commands that may overlap,  *)
(* break off, or find that a key has expired.                               *)
(***************************************************************************)
EXTENDS Naturals, FiniteSets

CONSTANTS
  Callers,      \* requests in flight at once
  MaxFamilies,  \* logins
  MaxTokens,    \* tokens issued
  NoToken       \* cache_get finds nothing

ASSUME RefreshAssumption ==
  /\ MaxFamilies \in Nat /\ MaxTokens \in Nat
  /\ NoToken \notin Nat

VARIABLES
  session,   \* refresh:session:<token>, the family in each record, 0 without one
  active,    \* refresh:family:<family>, the token in force
  families,  \* refresh:user:<user>, the list
  caller,    \* per request, how far it is and what it holds
  issued,    \* tokens made so far
  opened,    \* families made so far
  held,      \* tokens that reached a client
  retired,   \* history: tokens that were in force and no longer are
  ended,     \* history: families a logout or a deprovisioning took down
  tangled    \* history: requests overlapped, or the list expired

storeVars == <<session, active, families>>
madeVars == <<issued, opened>>
refreshVars == <<storeVars, caller, madeVars, held, retired, ended, tangled>>

Tokens == 1 .. MaxTokens
Families == 1 .. MaxFamilies
Ready == [phase |-> "ready"]

RefreshInit ==
  /\ session = [t \in Tokens |-> 0]
  /\ active = [f \in Families |-> NoToken]
  /\ families = {}
  /\ caller = [c \in Callers |-> Ready]
  /\ issued = 0 /\ opened = 0
  /\ held = {} /\ retired = {} /\ ended = {}
  /\ tangled = FALSE

\* Mutant: the record alone decides, whatever token its family has.
Loads_Record(t) == session[t] # 0

\* load_session succeeds: the record is there and its family names this token.
Loads(t) == session[t] # 0 /\ active[session[t]] = t

Starts(c, state) ==
  /\ caller[c] = Ready
  /\ caller' = [caller EXCEPT ![c] = state]
  /\ tangled' = (tangled \/ \E other \in Callers : caller[other] # Ready)

GoesOn(c, phase, state) ==
  /\ caller[c].phase = phase
  /\ caller' = [caller EXCEPT ![c] = state]
  /\ UNCHANGED tangled

-----------------------------------------------------------------------------
(* dev_login and refresh_session *)

\* create_session begins, for a family of its own.
Login(c) ==
  /\ issued < MaxTokens /\ opened < MaxFamilies
  /\ Starts(c, [phase |-> "create", token |-> issued + 1, family |-> opened + 1])
  /\ issued' = issued + 1 /\ opened' = opened + 1
  /\ UNCHANGED <<storeVars, held, retired, ended>>

\* rotate: load_session for the token in a client's cookie.
Rotate(c, t) ==
  /\ t \in held /\ Loads(t)
  /\ issued < MaxTokens
  /\ Starts(c, [phase |-> "loaded", old |-> t, token |-> issued + 1, family |-> session[t]])
  /\ issued' = issued + 1
  /\ UNCHANGED <<storeVars, opened, held, retired, ended>>

DeleteOld(c) ==
  /\ GoesOn(c, "loaded", [phase |-> "create", token |-> caller[c].token,
                          family |-> caller[c].family])
  /\ session' = [session EXCEPT ![caller[c].old] = 0]
  /\ retired' = retired \union {caller[c].old}
  /\ UNCHANGED <<active, families, madeVars, held, ended>>

\* create_session: the record first, then the family.
SetSession(c) ==
  /\ GoesOn(c, "create", [caller[c] EXCEPT !.phase = "activate"])
  /\ session' = [session EXCEPT ![caller[c].token] = caller[c].family]
  /\ UNCHANGED <<active, families, madeVars, held, retired, ended>>

SetFamily(c) ==
  LET f == caller[c].family IN
  /\ GoesOn(c, "activate", [caller[c] EXCEPT !.phase = "register"])
  /\ active' = [active EXCEPT ![f] = caller[c].token]
  /\ retired' = retired \union ({active[f]} \ {NoToken})
  /\ UNCHANGED <<session, families, madeVars, held, ended>>

\* _register_family reads the list ...
ReadFamilies(c) ==
  /\ GoesOn(c, "register", [phase |-> "append", token |-> caller[c].token,
                            family |-> caller[c].family, list |-> families])
  /\ UNCHANGED <<storeVars, madeVars, held, retired, ended>>

\* Mutant: the list is started anew with the family at hand.
Registered_Anew(list, f) == {f}

Registered(list, f) == list \union {f}

\* ... and writes it when the family is not on it; then the client has the token.
WriteFamilies(c) ==
  LET f == caller[c].family
      list == caller[c].list
  IN
  /\ GoesOn(c, "append", Ready)
  /\ families' = IF f \in list THEN families ELSE Registered(list, f)
  /\ held' = held \union {caller[c].token}
  /\ UNCHANGED <<session, active, madeVars, retired, ended>>

-----------------------------------------------------------------------------
(* logout and revoke_user_sessions *)

\* logout: a token that does not load leaves everything as it is.
Logout(c, t) ==
  /\ t \in held /\ Loads(t)
  /\ Starts(c, [phase |-> "revoke", todo |-> {session[t]}, listed |-> FALSE])
  /\ UNCHANGED <<storeVars, madeVars, held, retired, ended>>

RevokeUser(c) ==
  /\ families # {}
  /\ Starts(c, [phase |-> "revoke", todo |-> families, listed |-> TRUE])
  /\ UNCHANGED <<storeVars, madeVars, held, retired, ended>>

\* revoke_family: the record of the token in force, if there is one, ...
DeleteActive(c, f) ==
  LET t == active[f] IN
  /\ caller[c].phase = "revoke" /\ f \in caller[c].todo
  /\ GoesOn(c, "revoke", [phase |-> "close", family |-> f, todo |-> caller[c].todo,
                          listed |-> caller[c].listed])
  /\ session' = IF t = NoToken THEN session ELSE [session EXCEPT ![t] = 0]
  /\ retired' = retired \union ({t} \ {NoToken})
  /\ UNCHANGED <<active, families, madeVars, held, ended>>
\* ... then the family.
DeleteFamily(c) ==
  LET f == caller[c].family
      rest == caller[c].todo \ {f}
  IN
  /\ GoesOn(c, "close", IF rest = {} /\ ~caller[c].listed
                          THEN Ready
                          ELSE [phase |-> "revoke", todo |-> rest, listed |-> caller[c].listed])
  /\ active' = [active EXCEPT ![f] = NoToken]
  /\ retired' = retired \union ({active[f]} \ {NoToken})
  /\ ended' = ended \union {f}
  /\ UNCHANGED <<session, families, madeVars, held>>

\* revoke_user_sessions has been through the list: every login so far is over.
DeleteFamilies(c) ==
  /\ caller[c].phase = "revoke" /\ caller[c].todo = {}
  /\ GoesOn(c, "revoke", Ready)
  /\ families' = {}
  /\ ended' = ended \union 1 .. opened
  /\ UNCHANGED <<session, active, madeVars, held, retired>>

-----------------------------------------------------------------------------

\* The process is gone between two commands.
Break(c) ==
  /\ caller[c] # Ready
  /\ caller' = [caller EXCEPT ![c] = Ready]
  /\ UNCHANGED <<storeVars, madeVars, held, retired, ended, tangled>>

\* A family and the record of its token are written together, with one lifetime.
ExpireFamily(f) ==
  LET t == active[f] IN
  /\ t # NoToken
  /\ active' = [active EXCEPT ![f] = NoToken]
  /\ session' = [session EXCEPT ![t] = 0]
  /\ retired' = retired \union {t}
  /\ UNCHANGED <<families, caller, madeVars, held, ended, tangled>>

\* Rotations do not prolong the list, so it may expire before its families.
ExpireList ==
  /\ families # {}
  /\ families' = {} /\ tangled' = TRUE
  /\ UNCHANGED <<session, active, caller, madeVars, held, retired, ended>>

RefreshNext ==
  \/ \E c \in Callers :
       \/ Login(c)
       \/ \E t \in Tokens : Rotate(c, t) \/ Logout(c, t)
       \/ DeleteOld(c) \/ SetSession(c) \/ SetFamily(c)
       \/ ReadFamilies(c) \/ WriteFamilies(c)
       \/ RevokeUser(c)
       \/ \E f \in Families : DeleteActive(c, f)
       \/ DeleteFamily(c) \/ DeleteFamilies(c)
       \/ Break(c)
  \/ \E f \in Families : ExpireFamily(f)
  \/ ExpireList

RefreshSpec == RefreshInit /\ [][RefreshNext]_refreshVars

-----------------------------------------------------------------------------

RefreshTypeOK ==
  /\ session \in [Tokens -> Families \union {0}]
  /\ active \in [Families -> Tokens \union {NoToken}]
  /\ families \subseteq Families
  /\ issued \in 0 .. MaxTokens /\ opened \in 0 .. MaxFamilies

\* A refresh token that was rotated away, revoked or has expired is never
\* accepted again, however requests overlap (refresh_service.py:72-104).
RetiredStaysDead == \A t \in retired : ~Loads(t)

\* As long as requests do not overlap, a family that a logout or a
\* deprovisioning took down accepts no client's token: the list the latter goes
\* by has every family (refresh_service.py:106-123).
EndedStaysEnded ==
  ~tangled => \A t \in held : Loads(t) => session[t] \notin ended
=============================================================================
