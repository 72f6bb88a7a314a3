--------------------------- MODULE RefreshProofs ----------------------------
(***************************************************************************)
(* Proofs about refresh tokens and the index of Keycloak sessions, for any  *)
(* number of requests, tokens, families and sign-ins.                      *)
(***************************************************************************)
EXTENDS RefreshSessions, KeycloakSessions, TLAPS

\* A request with a token it has made: up to where it can be accepted, and after.
Making(state) == state.phase \in {"loaded", "create", "activate"}
Carrying(state) == Making(state) \/ state.phase \in {"register", "append"}

CallerStates ==
  {Ready}
  \union [phase : {"loaded"}, old : Tokens, token : Tokens, family : Families]
  \union [phase : {"create", "activate", "register"}, token : Tokens, family : Families]
  \union [phase : {"append"}, token : Tokens, family : Families, list : SUBSET Families]
  \union [phase : {"revoke"}, todo : SUBSET Families, listed : BOOLEAN]
  \union [phase : {"close"}, family : Families, todo : SUBSET Families, listed : BOOLEAN]

\* No token is known anywhere before it is made.
Made ==
  /\ held \subseteq 1 .. issued /\ retired \subseteq 1 .. issued
  /\ \A f \in Families : active[f] \in (1 .. issued) \union {NoToken}
  /\ \A t \in Tokens : session[t] # 0 => t <= issued
  /\ \A c \in Callers : Carrying(caller[c]) => caller[c].token \in 1 .. issued

\* A token in the making is one request's, and has not been in force.
InTheMaking ==
  /\ \A c \in Callers : Making(caller[c]) =>
       /\ caller[c].token \notin held \union retired
       /\ \A f \in Families : active[f] # caller[c].token
       /\ session[caller[c].token] \in {0, caller[c].family}
  /\ \A c, d \in Callers :
       c # d /\ Carrying(caller[c]) /\ Carrying(caller[d])
         => caller[c].token # caller[d].token
  /\ \A c \in Callers : caller[c].phase = "loaded" => caller[c].old \in held

\* A token in force is in force in the family of its record.
InItsFamily ==
  \A f \in Families : active[f] # NoToken => session[active[f]] \in {0, f}

\* What is inductive.
Tokenwise ==
  /\ RefreshTypeOK
  /\ caller \in [Callers -> CallerStates]
  /\ Made /\ InTheMaking /\ InItsFamily
  /\ RetiredStaysDead

LEMMA TokenwiseInit == RefreshInit => Tokenwise
<1> SUFFICES ASSUME RefreshInit PROVE Tokenwise
  OBVIOUS
<1>1. /\ session \in [Tokens -> Families \union {0}]
      /\ active \in [Families -> Tokens \union {NoToken}]
      /\ \A t \in Tokens : session[t] = 0
      /\ \A f \in Families : active[f] = NoToken
  BY DEF RefreshInit
<1>2. /\ caller \in [Callers -> CallerStates]
      /\ \A c \in Callers : ~Carrying(caller[c]) /\ caller[c].phase # "loaded"
  BY DEF RefreshInit, CallerStates, Ready, Carrying, Making
<1>3. families = {} /\ issued = 0 /\ opened = 0 /\ held = {} /\ retired = {}
  BY DEF RefreshInit
<1> QED
  BY <1>1, <1>2, <1>3, RefreshAssumption
     DEF Tokenwise, RefreshTypeOK, Made, InTheMaking, InItsFamily, RetiredStaysDead,
         Carrying

\* Requests that go on, or end, carry no token they did not carry before.
Follows ==
  /\ caller' \in [Callers -> CallerStates]
  /\ \A d \in Callers :
       /\ Carrying(caller'[d]) => /\ Carrying(caller[d])
                                  /\ caller'[d].token = caller[d].token
       /\ Making(caller'[d]) => /\ Making(caller[d])
                                /\ caller'[d].family = caller[d].family
       /\ caller'[d].phase = "loaded" => caller'[d] = caller[d]

LEMMA OneFollows ==
  ASSUME Tokenwise, NEW c \in Callers, NEW state \in CallerStates,
         caller' = [caller EXCEPT ![c] = state],
         Carrying(state) => Carrying(caller[c]) /\ state.token = caller[c].token,
         Making(state) => Making(caller[c]) /\ state.family = caller[c].family,
         state.phase # "loaded"
  PROVE  Follows
  BY DEF Follows, Tokenwise

\* What a request in the middle of its work has in its hands.
LEMMA InHand ==
  ASSUME Tokenwise, NEW c \in Callers
  PROVE  /\ caller[c].phase = "loaded" =>
              caller[c] \in [phase : {"loaded"}, old : Tokens, token : Tokens,
                             family : Families]
         /\ caller[c].phase \in {"create", "activate", "register"} =>
              caller[c] \in [phase : {"create", "activate", "register"}, token : Tokens,
                             family : Families]
         /\ caller[c].phase = "append" =>
              caller[c] \in [phase : {"append"}, token : Tokens, family : Families,
                             list : SUBSET Families]
         /\ caller[c].phase = "revoke" =>
              caller[c] \in [phase : {"revoke"}, todo : SUBSET Families, listed : BOOLEAN]
         /\ caller[c].phase = "close" =>
              caller[c] \in [phase : {"close"}, family : Families,
                             todo : SUBSET Families, listed : BOOLEAN]
<1>1. caller[c] \in CallerStates
  BY DEF Tokenwise
<1> QED
  BY <1>1 DEF CallerStates, Ready

\* A step of a request that leaves the records, the families and the history alone.
LEMMA StoreAlone ==
  ASSUME Tokenwise, Follows, UNCHANGED <<session, active, issued, opened, retired>>,
         families' \subseteq Families,
         held' \subseteq held \union {t \in 1 .. issued :
                   \A d \in Callers : Making(caller'[d]) => caller'[d].token # t},
         held \subseteq held'
  PROVE  Tokenwise'
<1>1. RefreshTypeOK' /\ caller' \in [Callers -> CallerStates]
  BY DEF Tokenwise, RefreshTypeOK, Follows
<1>2. Made'
  BY DEF Tokenwise, Made, Follows
<1>3. InTheMaking'
  <2>1. \A c \in Callers : Making(caller'[c]) =>
          /\ caller'[c].token \notin held' \union retired'
          /\ \A f \in Families : active'[f] # caller'[c].token
          /\ session'[caller'[c].token] \in {0, caller'[c].family}
    BY DEF Tokenwise, InTheMaking, Follows, Carrying
  <2>2. /\ \A c, d \in Callers :
             c # d /\ Carrying(caller'[c]) /\ Carrying(caller'[d])
               => caller'[c].token # caller'[d].token
        /\ \A c \in Callers : caller'[c].phase = "loaded" => caller'[c].old \in held'
    BY DEF Tokenwise, InTheMaking, Follows
  <2> QED
    BY <2>1, <2>2 DEF InTheMaking
<1>4. InItsFamily' /\ RetiredStaysDead'
  BY DEF Tokenwise, InItsFamily, RetiredStaysDead, Loads
<1> QED
  BY <1>1, <1>2, <1>3, <1>4 DEF Tokenwise

\* A token that leaves the store, and what left it: the record of one, and the
\* token in force in one family, at most.
LEMMA Withdrawn ==
  ASSUME Tokenwise, Follows, UNCHANGED <<families, issued, opened, held>>,
         NEW t \in (1 .. issued) \union {NoToken},
         \A d \in Callers : Making(caller[d]) => caller[d].token # t,
         retired' = retired \union ({t} \ {NoToken}),
         active' \in [Families -> Tokens \union {NoToken}],
         \A f \in Families : active'[f] \in {active[f], NoToken},
         session' \in [Tokens -> Families \union {0}],
         \A u \in Tokens : session'[u] \in {session[u], 0},
         t # NoToken => session'[t] = 0 \/ active'[session'[t]] # t
  PROVE  Tokenwise'
<1>1. RefreshTypeOK' /\ caller' \in [Callers -> CallerStates]
  BY DEF Tokenwise, RefreshTypeOK, Follows
<1>2. Made'
  BY DEF Tokenwise, Made, Follows
<1>3. InTheMaking'
  <2>1. \A c \in Callers : Making(caller'[c]) =>
          /\ caller'[c].token \notin held' \union retired'
          /\ \A f \in Families : active'[f] # caller'[c].token
          /\ session'[caller'[c].token] \in {0, caller'[c].family}
    <3> SUFFICES ASSUME NEW c \in Callers, Making(caller'[c])
                 PROVE  /\ caller'[c].token \notin held' \union retired'
                        /\ \A f \in Families : active'[f] # caller'[c].token
                        /\ session'[caller'[c].token] \in {0, caller'[c].family}
      OBVIOUS
    <3>1. /\ Making(caller[c]) /\ caller'[c].family = caller[c].family
          /\ caller'[c].token = caller[c].token
      BY DEF Follows, Carrying
    <3>2. caller[c].token \in 1 .. issued /\ caller[c].token \in Tokens
      BY <3>1, RefreshAssumption DEF Tokenwise, Made, Carrying, RefreshTypeOK, Tokens
    <3>3. /\ caller[c].token \notin held \union retired
          /\ \A f \in Families : active[f] # caller[c].token
          /\ session[caller[c].token] \in {0, caller[c].family}
      BY <3>1 DEF Tokenwise, InTheMaking
    <3>4. caller[c].token # NoToken
      BY <3>2, RefreshAssumption
    <3> QED
      BY <3>1, <3>2, <3>3, <3>4
  <2>2. /\ \A c, d \in Callers :
             c # d /\ Carrying(caller'[c]) /\ Carrying(caller'[d])
               => caller'[c].token # caller'[d].token
        /\ \A c \in Callers : caller'[c].phase = "loaded" => caller'[c].old \in held'
    BY DEF Tokenwise, InTheMaking, Follows
  <2> QED
    BY <2>1, <2>2 DEF InTheMaking
<1>4. issued \in Nat /\ 1 .. issued \subseteq Tokens /\ 0 \notin Families
  BY RefreshAssumption DEF Tokenwise, RefreshTypeOK, Tokens, Families
<1>5. InItsFamily'
  BY <1>4 DEF Tokenwise, Made, InItsFamily
<1>6. RetiredStaysDead'
  <2> SUFFICES ASSUME NEW u \in retired', session'[u] # 0,
                      active'[session'[u]] = u
               PROVE  FALSE
    BY DEF RetiredStaysDead, Loads
  <2>1. u \in Tokens /\ u \in Nat /\ u # NoToken
    BY <1>4, RefreshAssumption DEF Tokenwise, Made
  <2>2. session'[u] = session[u] /\ session[u] \in Families
    BY <2>1 DEF Tokenwise, RefreshTypeOK
  <2>3. active[session[u]] = u
    BY <2>1, <2>2
  <2>4. u \in retired \/ u = t
    BY <2>1
  <2>5. u \notin retired
    BY <2>2, <2>3 DEF Tokenwise, RetiredStaysDead, Loads
  <2> QED
    BY <2>1, <2>2, <2>3, <2>4, <2>5
<1> QED
  BY <1>1, <1>2, <1>3, <1>5, <1>6 DEF Tokenwise

\* A login or a rotation makes a token that nothing knows of.
LEMMA TokenMade ==
  ASSUME Tokenwise, NEW c \in Callers, caller[c] = Ready, issued < MaxTokens,
         NEW state \in CallerStates, Making(state), state.token = issued + 1,
         state.phase = "loaded" => state.old \in held,
         caller' = [caller EXCEPT ![c] = state],
         issued' = issued + 1, opened' \in 0 .. MaxFamilies,
         UNCHANGED <<session, active, families, held, retired>>
  PROVE  Tokenwise'
<1>1. issued \in Nat /\ issued + 1 \in Tokens /\ MaxTokens \in Nat
  BY RefreshAssumption DEF Tokenwise, RefreshTypeOK, Tokens
<1>2. /\ caller' \in [Callers -> CallerStates]
      /\ caller'[c] = state
      /\ \A d \in Callers \ {c} : caller'[d] = caller[d]
  BY DEF Tokenwise
<1>3. RefreshTypeOK'
  BY <1>1 DEF Tokenwise, RefreshTypeOK
<1>4. Made'
  <2>1. /\ 1 .. issued \subseteq 1 .. issued'
        /\ issued + 1 \in 1 .. issued'
        /\ \A t \in Tokens : t <= issued => t <= issued'
    BY <1>1 DEF Tokens
  <2>2. \A d \in Callers : Carrying(caller'[d]) => caller'[d].token \in 1 .. issued'
    BY <1>2, <2>1 DEF Tokenwise, Made
  <2> QED
    BY <2>1, <2>2 DEF Tokenwise, Made
<1>5. \A d \in Callers : Carrying(caller[d]) => caller[d].token # issued + 1
  BY <1>1 DEF Tokenwise, Made
<1>6. /\ issued + 1 \notin held \union retired
      /\ \A f \in Families : active[f] # issued + 1
      /\ session[issued + 1] = 0
  BY <1>1, RefreshAssumption DEF Tokenwise, Made
<1>7. InTheMaking'
  <2>1. \A d \in Callers : Making(caller'[d]) =>
          /\ caller'[d].token \notin held' \union retired'
          /\ \A f \in Families : active'[f] # caller'[d].token
          /\ session'[caller'[d].token] \in {0, caller'[d].family}
    BY <1>2, <1>6 DEF Tokenwise, InTheMaking
  <2>2. \A d, e \in Callers :
          d # e /\ Carrying(caller'[d]) /\ Carrying(caller'[e])
            => caller'[d].token # caller'[e].token
    BY <1>2, <1>5 DEF Tokenwise, InTheMaking
  <2>3. \A d \in Callers : caller'[d].phase = "loaded" => caller'[d].old \in held'
    BY <1>2 DEF Tokenwise, InTheMaking
  <2> QED
    BY <2>1, <2>2, <2>3 DEF InTheMaking
<1>8. InItsFamily' /\ RetiredStaysDead'
  BY DEF Tokenwise, InItsFamily, RetiredStaysDead, Loads
<1> QED
  BY <1>2, <1>3, <1>4, <1>7, <1>8 DEF Tokenwise

LEMMA TokenwiseStep ==
  ASSUME Tokenwise, [RefreshNext]_refreshVars
  PROVE  Tokenwise'
<1> USE DEF storeVars, madeVars
<1>1. /\ issued \in Nat /\ opened \in Nat /\ 1 .. issued \subseteq Tokens
      /\ families \subseteq Families
      /\ session \in [Tokens -> Families \union {0}]
      /\ active \in [Families -> Tokens \union {NoToken}]
      /\ 0 \notin Families /\ NoToken \notin Nat
  BY RefreshAssumption DEF Tokenwise, RefreshTypeOK, Tokens, Families
<1>2. Ready \in CallerStates /\ ~Carrying(Ready) /\ ~Making(Ready) /\ Ready.phase # "loaded"
  BY DEF CallerStates, Ready, Carrying, Making
\* Tokens a client holds, or a family has in force, are in nobody's making.
<1>3. \A d \in Callers : Making(caller[d]) =>
        caller[d].token \notin held /\ \A f \in Families : active[f] # caller[d].token
  BY DEF Tokenwise, InTheMaking
<1>4. ASSUME NEW c \in Callers, Login(c)
      PROVE  Tokenwise'
  <2> DEFINE state == [phase |-> "create", token |-> issued + 1, family |-> opened + 1]
  <2>1. issued + 1 \in Tokens /\ opened + 1 \in Families /\ opened + 1 \in 0 .. MaxFamilies
    BY <1>1, <1>4, RefreshAssumption DEF Login, Tokens, Families
  <2>2. state \in CallerStates /\ Making(state) /\ state.token = issued + 1
        /\ state.phase # "loaded"
    BY <2>1 DEF CallerStates, Making
  <2>3. /\ caller[c] = Ready /\ issued < MaxTokens
        /\ caller' = [caller EXCEPT ![c] = state]
        /\ issued' = issued + 1 /\ opened' = opened + 1
        /\ UNCHANGED <<session, active, families, held, retired>>
    BY <1>4 DEF Login, Starts
  <2> HIDE DEF state
  <2> QED
    BY <2>1, <2>2, <2>3, TokenMade
<1>5. ASSUME NEW c \in Callers, NEW t \in Tokens, Rotate(c, t)
      PROVE  Tokenwise'
  <2> DEFINE state == [phase |-> "loaded", old |-> t, token |-> issued + 1,
                       family |-> session[t]]
  <2>1. issued + 1 \in Tokens /\ session[t] \in Families /\ t \in held
    BY <1>1, <1>5, RefreshAssumption DEF Rotate, Loads, Tokens
  <2>2. state \in CallerStates /\ Making(state) /\ state.token = issued + 1
        /\ state.old \in held
    BY <2>1 DEF CallerStates, Making
  <2>3. /\ caller[c] = Ready /\ issued < MaxTokens
        /\ caller' = [caller EXCEPT ![c] = state]
        /\ issued' = issued + 1 /\ opened' = opened
        /\ UNCHANGED <<session, active, families, held, retired>>
    BY <1>5 DEF Rotate, Starts
  <2>4. opened \in 0 .. MaxFamilies
    BY DEF Tokenwise, RefreshTypeOK
  <2> HIDE DEF state
  <2> QED
    BY <2>2, <2>3, <2>4, TokenMade
<1>6. ASSUME NEW c \in Callers, DeleteOld(c)
      PROVE  Tokenwise'
  <2> DEFINE state == [phase |-> "create", token |-> caller[c].token,
                       family |-> caller[c].family]
  <2>1. /\ caller[c] \in [phase : {"loaded"}, old : Tokens, token : Tokens, family : Families]
        /\ caller' = [caller EXCEPT ![c] = state]
    BY <1>6, InHand DEF DeleteOld, GoesOn
  <2>2. /\ state \in CallerStates /\ Carrying(state) /\ Carrying(caller[c])
        /\ Making(caller[c]) /\ state.phase # "loaded"
        /\ state.token = caller[c].token /\ state.family = caller[c].family
    BY <2>1 DEF CallerStates, Carrying, Making
  <2>3. Follows
    <3> HIDE DEF state
    <3> QED
      BY <2>1, <2>2, OneFollows
  <2>4. caller[c].old \in held /\ caller[c].old \in 1 .. issued
    BY <2>1 DEF Tokenwise, InTheMaking, Made
  <2>5. /\ UNCHANGED <<families, issued, opened, held>>
        /\ retired' = retired \union {caller[c].old}
        /\ active' = active
        /\ session' = [session EXCEPT ![caller[c].old] = 0]
    BY <1>6 DEF DeleteOld
  <2>6. retired' = retired \union ({caller[c].old} \ {NoToken})
    BY <1>1, <2>4, <2>5
  <2>7. \A d \in Callers : Making(caller[d]) => caller[d].token # caller[c].old
    BY <1>3, <2>4
  <2>8. /\ session' \in [Tokens -> Families \union {0}]
        /\ \A u \in Tokens : session'[u] \in {session[u], 0}
        /\ session'[caller[c].old] = 0
    BY <1>1, <2>1, <2>5
  <2> QED
    BY <1>1, <2>3, <2>4, <2>5, <2>6, <2>7, <2>8, Withdrawn
<1>7. ASSUME NEW c \in Callers, SetSession(c)
      PROVE  Tokenwise'
  <2> DEFINE state == [caller[c] EXCEPT !.phase = "activate"]
             t == caller[c].token
  <2>1. /\ caller[c] \in [phase : {"create", "activate", "register"}, token : Tokens,
                          family : Families]
        /\ caller' = [caller EXCEPT ![c] = state]
    BY <1>7, InHand DEF SetSession, GoesOn
  <2>2. /\ state \in CallerStates /\ Carrying(state) /\ Carrying(caller[c])
        /\ Making(caller[c]) /\ state.phase # "loaded"
        /\ state.token = caller[c].token /\ state.family = caller[c].family
    BY <1>7, <2>1 DEF CallerStates, Carrying, Making, SetSession, GoesOn
  <2>3. Follows
    <3> HIDE DEF state
    <3> QED
      BY <2>1, <2>2, OneFollows
  <2>4. /\ session' = [session EXCEPT ![t] = caller[c].family]
        /\ UNCHANGED <<active, families, issued, opened, held, retired>>
    BY <1>7 DEF SetSession
  <2>5. /\ t \in 1 .. issued /\ t \in Tokens /\ t \notin held \union retired
        /\ \A f \in Families : active[f] # t
        /\ caller[c].family \in Families
    BY <2>1, <2>2 DEF Tokenwise, Made, InTheMaking
  <2>6. /\ caller'[c].token = t /\ caller'[c].family = caller[c].family
        /\ Carrying(caller'[c])
    <3> HIDE DEF state
    <3> QED
      BY <2>1, <2>2 DEF Tokenwise
  <2> HIDE DEF state, t
  <2>7. RefreshTypeOK' /\ caller' \in [Callers -> CallerStates]
    BY <1>1, <2>3, <2>4, <2>5 DEF Tokenwise, RefreshTypeOK, Follows
  <2>8. Made'
    BY <1>1, <2>3, <2>4, <2>5 DEF Tokenwise, Made, Follows
  <2>9. \A d, e \in Callers :
          d # e /\ Carrying(caller'[d]) /\ Carrying(caller'[e])
            => caller'[d].token # caller'[e].token
    BY <2>3 DEF Tokenwise, InTheMaking, Follows
  <2>10. \A d \in Callers : Making(caller'[d]) =>
           /\ caller'[d].token \notin held' \union retired'
           /\ \A f \in Families : active'[f] # caller'[d].token
           /\ session'[caller'[d].token] \in {0, caller'[d].family}
    <3> SUFFICES ASSUME NEW d \in Callers, Making(caller'[d])
                 PROVE  /\ caller'[d].token \notin held' \union retired'
                        /\ \A f \in Families : active'[f] # caller'[d].token
                        /\ session'[caller'[d].token] \in {0, caller'[d].family}
      OBVIOUS
    <3>1. /\ Making(caller[d]) /\ caller'[d].token = caller[d].token
          /\ caller'[d].family = caller[d].family
      BY <2>3 DEF Follows, Carrying
    <3>2. /\ caller'[d].token \notin held' \union retired'
          /\ \A f \in Families : active'[f] # caller'[d].token
          /\ session[caller'[d].token] \in {0, caller'[d].family}
      BY <2>4, <3>1 DEF Tokenwise, InTheMaking
    <3>3. CASE d = c
      BY <1>1, <2>4, <2>5, <2>6, <3>2, <3>3
    <3>4. CASE d # c
      <4>1. caller'[d].token # t
        BY <2>6, <2>9, <3>4 DEF Carrying
      <4> QED
        BY <1>1, <2>4, <3>2, <4>1
    <3> QED
      BY <3>3, <3>4
  <2>11. \A d \in Callers : caller'[d].phase = "loaded" => caller'[d].old \in held'
    BY <2>3, <2>4 DEF Tokenwise, InTheMaking, Follows
  <2>12. InTheMaking'
    BY <2>9, <2>10, <2>11 DEF InTheMaking
  <2>13. InItsFamily'
    BY <1>1, <2>4, <2>5 DEF Tokenwise, InItsFamily, Made
  <2>14. RetiredStaysDead'
    BY <1>1, <2>4, <2>5 DEF Tokenwise, RetiredStaysDead, Loads, Made
  <2> QED
    BY <2>7, <2>8, <2>12, <2>13, <2>14 DEF Tokenwise
<1>8. ASSUME NEW c \in Callers, SetFamily(c)
      PROVE  Tokenwise'
  <2> DEFINE state == [caller[c] EXCEPT !.phase = "register"]
             t == caller[c].token
             F == caller[c].family
  <2>1. /\ caller[c] \in [phase : {"create", "activate", "register"}, token : Tokens,
                          family : Families]
        /\ caller' = [caller EXCEPT ![c] = state]
    BY <1>8, InHand DEF SetFamily, GoesOn
  <2>2. /\ state \in CallerStates /\ Carrying(state) /\ Carrying(caller[c])
        /\ ~Making(state) /\ Making(caller[c]) /\ state.phase # "loaded"
        /\ state.token = caller[c].token
    BY <1>8, <2>1 DEF CallerStates, Carrying, Making, SetFamily, GoesOn
  <2>3. Follows
    <3> HIDE DEF state
    <3> QED
      BY <2>1, <2>2, OneFollows
  <2>4. /\ active' = [active EXCEPT ![F] = t]
        /\ retired' = retired \union ({active[F]} \ {NoToken})
        /\ UNCHANGED <<session, families, issued, opened, held>>
    BY <1>8 DEF SetFamily
  <2>5. /\ t \in 1 .. issued /\ t \in Tokens /\ t \notin held \union retired
        /\ \A f \in Families : active[f] # t
        /\ session[t] \in {0, F} /\ F \in Families /\ t # NoToken
    BY <1>1, <2>1, <2>2 DEF Tokenwise, Made, InTheMaking
  <2>6. ~Making(caller'[c]) /\ caller'[c].token = t /\ Carrying(caller'[c])
    <3> HIDE DEF state
    <3> QED
      BY <2>1, <2>2 DEF Tokenwise
  <2> HIDE DEF state, t, F
  <2>7. RefreshTypeOK' /\ caller' \in [Callers -> CallerStates]
    BY <1>1, <2>3, <2>4, <2>5 DEF Tokenwise, RefreshTypeOK, Follows
  <2>8. Made'
    <3>1. Made
      BY <1>1 DEF Tokenwise
    <3>2. held' \subseteq 1 .. issued /\ \A s \in Tokens : session'[s] # 0 => s <= issued
      BY <2>4, <3>1 DEF Made
    <3>3. retired' \subseteq 1 .. issued
      BY <2>4, <2>5, <3>1 DEF Made
    <3>4. \A f \in Families : active'[f] \in (1 .. issued) \union {NoToken}
      BY <1>1, <2>4, <2>5, <3>1 DEF Tokenwise, RefreshTypeOK, Made
    <3>5. \A d \in Callers : Carrying(caller'[d]) => caller'[d].token \in 1 .. issued
      BY <2>3, <3>1 DEF Made, Follows
    <3> QED
      BY <2>4, <3>2, <3>3, <3>4, <3>5 DEF Made
  <2>9. \A d, e \in Callers :
          d # e /\ Carrying(caller'[d]) /\ Carrying(caller'[e])
            => caller'[d].token # caller'[e].token
    BY <2>3 DEF Tokenwise, InTheMaking, Follows
  <2>10. \A d \in Callers : Making(caller'[d]) =>
           /\ caller'[d].token \notin held' \union retired'
           /\ \A f \in Families : active'[f] # caller'[d].token
           /\ session'[caller'[d].token] \in {0, caller'[d].family}
    <3> SUFFICES ASSUME NEW d \in Callers, Making(caller'[d])
                 PROVE  /\ caller'[d].token \notin held' \union retired'
                        /\ \A f \in Families : active'[f] # caller'[d].token
                        /\ session'[caller'[d].token] \in {0, caller'[d].family}
      OBVIOUS
    <3>1. /\ Making(caller[d]) /\ caller'[d].token = caller[d].token
          /\ caller'[d].family = caller[d].family
      BY <2>3 DEF Follows, Carrying
    <3>2. /\ caller'[d].token \notin held \union retired
          /\ \A f \in Families : active[f] # caller'[d].token
          /\ session[caller'[d].token] \in {0, caller'[d].family}
      BY <3>1 DEF Tokenwise, InTheMaking
    <3>3. caller'[d].token # t
      BY <2>6, <2>9 DEF Carrying
    <3> QED
      BY <1>1, <2>4, <2>5, <3>2, <3>3
  <2>11. \A d \in Callers : caller'[d].phase = "loaded" => caller'[d].old \in held'
    BY <2>3, <2>4 DEF Tokenwise, InTheMaking, Follows
  <2>12. InTheMaking'
    BY <2>9, <2>10, <2>11 DEF InTheMaking
  <2>13. InItsFamily'
    BY <1>1, <2>4, <2>5 DEF Tokenwise, InItsFamily
  \* The token that was in force has its record in this family, or has none.
  <2>14. RetiredStaysDead'
    <3> SUFFICES ASSUME NEW u \in retired', session[u] # 0, active'[session[u]] = u
                 PROVE  FALSE
      BY <2>4 DEF RetiredStaysDead, Loads
    <3>1. u \in Tokens /\ session[u] \in Families
      BY <1>1, <2>4, <2>8 DEF Made
    <3>2. CASE u \in retired
      BY <1>1, <2>4, <2>5, <3>1, <3>2 DEF Tokenwise, RetiredStaysDead, Loads
    <3>3. CASE u = active[F] /\ u # NoToken
      BY <1>1, <2>4, <2>5, <3>1, <3>3 DEF Tokenwise, InItsFamily
    <3> QED
      BY <2>4, <3>2, <3>3
  <2> QED
    BY <2>7, <2>8, <2>12, <2>13, <2>14 DEF Tokenwise
<1>9. ASSUME NEW c \in Callers, ReadFamilies(c)
      PROVE  Tokenwise'
  <2> DEFINE state == [phase |-> "append", token |-> caller[c].token,
                       family |-> caller[c].family, list |-> families]
  <2>1. /\ caller[c] \in [phase : {"create", "activate", "register"}, token : Tokens,
                          family : Families]
        /\ caller[c].phase = "register"
        /\ caller' = [caller EXCEPT ![c] = state]
    BY <1>9, InHand DEF ReadFamilies, GoesOn
  <2>2. /\ state \in CallerStates /\ Carrying(caller[c]) /\ ~Making(state)
        /\ state.token = caller[c].token /\ state.phase # "loaded"
    BY <1>1, <2>1 DEF CallerStates, Carrying, Making
  <2> HIDE DEF state
  <2>3. Follows
    BY <2>1, <2>2, OneFollows
  <2> QED
    BY <1>1, <1>9, <2>3, StoreAlone DEF ReadFamilies
<1>10. ASSUME NEW c \in Callers, WriteFamilies(c)
       PROVE  Tokenwise'
  <2>1. /\ caller[c] \in [phase : {"append"}, token : Tokens, family : Families,
                          list : SUBSET Families]
        /\ caller' = [caller EXCEPT ![c] = Ready]
    BY <1>10, InHand DEF WriteFamilies, GoesOn
  <2>2. Follows
    BY <1>2, <2>1, OneFollows
  <2>3. Carrying(caller[c]) /\ caller[c].token \in 1 .. issued
    BY <2>1 DEF Carrying, Tokenwise, Made
  <2>4. \A d \in Callers : Making(caller'[d]) => caller'[d].token # caller[c].token
    <3>1. ~Making(caller'[c])
      BY <1>2, <2>1 DEF Tokenwise
    <3> QED
      BY <2>2, <2>3, <3>1 DEF Follows, Carrying, Tokenwise, InTheMaking
  <2>5. /\ UNCHANGED <<session, active, issued, opened, retired>>
        /\ held' = held \union {caller[c].token}
        /\ families' \subseteq Families
    BY <1>1, <1>10, <2>1 DEF WriteFamilies, Registered
  <2> QED
    BY <2>2, <2>3, <2>4, <2>5, StoreAlone
<1>11. ASSUME NEW c \in Callers, NEW todo \in SUBSET Families, NEW listed \in BOOLEAN,
              Starts(c, [phase |-> "revoke", todo |-> todo, listed |-> listed]),
              UNCHANGED <<session, active, families, issued, opened, held, retired>>
       PROVE  Tokenwise'
  <2> DEFINE state == [phase |-> "revoke", todo |-> todo, listed |-> listed]
  <2>1. state \in CallerStates /\ ~Carrying(state) /\ ~Making(state) /\ state.phase # "loaded"
    BY DEF CallerStates, Carrying, Making
  <2>2. caller' = [caller EXCEPT ![c] = state]
    BY <1>11 DEF Starts
  <2> HIDE DEF state
  <2>3. Follows
    BY <2>1, <2>2, OneFollows
  <2> QED
    BY <1>1, <1>11, <2>3, StoreAlone
<1>12. ASSUME NEW c \in Callers, NEW t \in Tokens, Logout(c, t)
       PROVE  Tokenwise'
  <2>1. session[t] \in Families
    BY <1>1, <1>12 DEF Logout, Loads
  <2>2. {session[t]} \in SUBSET Families
    BY <2>1
  <2> QED
    BY <1>11, <1>12, <2>2 DEF Logout
<1>13. ASSUME NEW c \in Callers, RevokeUser(c)
       PROVE  Tokenwise'
  BY <1>1, <1>11, <1>13 DEF RevokeUser
<1>14. ASSUME NEW c \in Callers, NEW f \in Families, DeleteActive(c, f)
       PROVE  Tokenwise'
  <2> DEFINE state == [phase |-> "close", family |-> f, todo |-> caller[c].todo,
                       listed |-> caller[c].listed]
  <2>1. /\ caller[c] \in [phase : {"revoke"}, todo : SUBSET Families, listed : BOOLEAN]
        /\ caller' = [caller EXCEPT ![c] = state]
    BY <1>14, InHand DEF DeleteActive, GoesOn
  <2>2. state \in CallerStates /\ ~Carrying(state) /\ ~Making(state) /\ state.phase # "loaded"
    BY <2>1 DEF CallerStates, Carrying, Making
  <2> HIDE DEF state
  <2>3. Follows
    BY <2>1, <2>2, OneFollows
  <2>4. /\ UNCHANGED <<active, families, issued, opened, held>>
        /\ session' = IF active[f] = NoToken THEN session
                                             ELSE [session EXCEPT ![active[f]] = 0]
        /\ retired' = retired \union ({active[f]} \ {NoToken})
    BY <1>14 DEF DeleteActive
  <2>5. active[f] \in (1 .. issued) \union {NoToken}
    BY DEF Tokenwise, Made
  <2>6. /\ session' \in [Tokens -> Families \union {0}]
        /\ \A u \in Tokens : session'[u] \in {session[u], 0}
        /\ active[f] # NoToken => session'[active[f]] = 0
    BY <1>1, <2>4, <2>5
  <2>7. /\ active' \in [Families -> Tokens \union {NoToken}]
        /\ \A g \in Families : active'[g] \in {active[g], NoToken}
    BY <1>1, <2>4
  <2>8. \A d \in Callers : Making(caller[d]) => caller[d].token # active[f]
    BY <1>3
  <2> QED
    BY <2>3, <2>4, <2>5, <2>6, <2>7, <2>8, Withdrawn
<1>15. ASSUME NEW c \in Callers, DeleteFamily(c)
       PROVE  Tokenwise'
  <2> DEFINE F == caller[c].family
             rest == caller[c].todo \ {F}
             state == IF rest = {} /\ ~caller[c].listed
                        THEN Ready
                        ELSE [phase |-> "revoke", todo |-> rest,
                              listed |-> caller[c].listed]
  <2>1. /\ caller[c] \in [phase : {"close"}, family : Families,
                          todo : SUBSET Families, listed : BOOLEAN]
        /\ caller' = [caller EXCEPT ![c] = state]
    BY <1>15, InHand DEF DeleteFamily, GoesOn
  <2>2. state \in CallerStates /\ ~Carrying(state) /\ ~Making(state) /\ state.phase # "loaded"
    <3>1. rest \in SUBSET Families /\ caller[c].listed \in BOOLEAN
      BY <2>1
    <3>2. [phase |-> "revoke", todo |-> rest, listed |-> caller[c].listed] \in CallerStates
      BY <3>1 DEF CallerStates
    <3> QED
      BY <1>2, <3>2 DEF Carrying, Making
  <2>3. /\ UNCHANGED <<session, families, issued, opened, held>>
        /\ active' = [active EXCEPT ![F] = NoToken]
        /\ retired' = retired \union ({active[F]} \ {NoToken})
        /\ F \in Families
    BY <1>15, <2>1 DEF DeleteFamily
  <2> HIDE DEF state, rest, F
  <2>4. Follows
    BY <2>1, <2>2, OneFollows
  <2>5. /\ active[F] \in (1 .. issued) \union {NoToken}
        /\ active[F] # NoToken => session[active[F]] \in {0, F}
    BY <2>3 DEF Tokenwise, Made, InItsFamily
  <2>6. /\ active' \in [Families -> Tokens \union {NoToken}]
        /\ \A f \in Families : active'[f] \in {active[f], NoToken}
        /\ active'[F] = NoToken
    BY <1>1, <2>3
  <2>7. active[F] # NoToken =>
          session'[active[F]] = 0 \/ active'[session'[active[F]]] # active[F]
    BY <2>3, <2>5, <2>6
  <2>8. \A d \in Callers : Making(caller[d]) => caller[d].token # active[F]
    BY <1>3, <2>3
  <2> QED
    BY <1>1, <2>3, <2>4, <2>5, <2>6, <2>7, <2>8, Withdrawn
<1>16. ASSUME NEW c \in Callers, DeleteFamilies(c) \/ Break(c)
       PROVE  Tokenwise'
  <2>1. /\ caller' = [caller EXCEPT ![c] = Ready]
        /\ UNCHANGED <<session, active, issued, opened, held, retired>>
        /\ families' \subseteq Families
    BY <1>1, <1>16 DEF DeleteFamilies, Break, GoesOn
  <2>2. Follows
    BY <1>2, <2>1, OneFollows
  <2> QED
    BY <2>1, <2>2, StoreAlone
<1>17. ASSUME UNCHANGED caller
       PROVE  Follows
  BY <1>17 DEF Follows, Tokenwise
<1>18. ASSUME NEW f \in Families, ExpireFamily(f)
       PROVE  Tokenwise'
  <2>1. /\ active[f] \in 1 .. issued /\ active[f] # NoToken
        /\ active' = [active EXCEPT ![f] = NoToken]
        /\ session' = [session EXCEPT ![active[f]] = 0]
        /\ retired' = retired \union {active[f]}
        /\ UNCHANGED <<families, caller, issued, opened, held>>
    BY <1>18 DEF ExpireFamily, Tokenwise, Made
  <2>2. /\ active' \in [Families -> Tokens \union {NoToken}]
        /\ \A g \in Families : active'[g] \in {active[g], NoToken}
        /\ session' \in [Tokens -> Families \union {0}]
        /\ \A u \in Tokens : session'[u] \in {session[u], 0}
        /\ session'[active[f]] = 0
        /\ retired' = retired \union ({active[f]} \ {NoToken})
    BY <1>1, <2>1
  <2> QED
    BY <1>3, <1>17, <2>1, <2>2, Withdrawn
<1>19. CASE ExpireList \/ UNCHANGED refreshVars
  BY <1>1, <1>17, <1>19, StoreAlone DEF ExpireList, refreshVars
<1> QED
  BY <1>4, <1>5, <1>6, <1>7, <1>8, <1>9, <1>10, <1>12, <1>13, <1>14, <1>15, <1>16,
     <1>18, <1>19 DEF RefreshNext

\* A refresh token that was rotated away, revoked or has expired is never
\* accepted again, for any number of overlapping requests, tokens and families
\* (refresh_service.py:72-104).
THEOREM RetiredTokensStayDead == RefreshSpec => []RetiredStaysDead
<1>1. Tokenwise => RetiredStaysDead
  BY DEF Tokenwise
<1> QED
  BY <1>1, TokenwiseInit, TokenwiseStep, PTL DEF RefreshSpec
-----------------------------------------------------------------------------
(* Requests one after the other.                                             *)

\* Nothing but the families opened so far is on a list, in a record, or ended.
Opened ==
  /\ ended \union families \subseteq 1 .. opened
  /\ \A t \in Tokens : session[t] <= opened
  /\ \A c \in Callers :
       /\ Carrying(caller[c]) => caller[c].family <= opened
       /\ caller[c].phase = "append" => caller[c].list \subseteq 1 .. opened
       /\ caller[c].phase \in {"revoke", "close"} => caller[c].todo \subseteq 1 .. opened
       /\ caller[c].phase = "close" => caller[c].family <= opened

\* What a client holds and its family names is in a family on the list.
InForceIsListed ==
  \A f \in Families : active[f] \in held => f \in families /\ f \notin ended

\* The only request at work: its family goes on, its list is the stored one,
\* and what it has been through has no client's token in force.
Orderly(c) ==
  /\ Carrying(caller[c]) => caller[c].family \notin ended
  /\ caller[c].phase \in {"register", "append"} =>
       \A f \in Families : active[f] = caller[c].token => f = caller[c].family
  /\ caller[c].phase = "append" => caller[c].list = families
  /\ caller[c].phase \in {"revoke", "close"} /\ caller[c].listed = TRUE =>
       \A f \in families : f \in caller[c].todo \/ active[f] \notin held
  /\ caller[c].phase = "revoke" /\ caller[c].listed = FALSE => caller[c].todo # {}

Tidy ==
  ~tangled =>
    /\ \A c, d \in Callers : caller[c] # Ready /\ caller[d] # Ready => c = d
    /\ InForceIsListed
    /\ \A c \in Callers : Orderly(c)

LEMMA OpenedStep ==
  ASSUME Tokenwise, Opened, [RefreshNext]_refreshVars
  PROVE  Opened'
<1> USE DEF Carrying, Making, Ready
<1>0. /\ caller \in [Callers -> CallerStates] /\ session \in [Tokens -> Families \union {0}]
      /\ opened \in Nat
  BY RefreshAssumption DEF Tokenwise, RefreshTypeOK
<1>1. ASSUME NEW c \in Callers, Login(c)
      PROVE  Opened'
  <2>1. /\ caller' = [caller EXCEPT ![c] =
             [phase |-> "create", token |-> issued + 1, family |-> opened + 1]]
        /\ opened' = opened + 1
        /\ UNCHANGED <<session, families, ended>>
    BY <1>1 DEF Login, Starts, storeVars
  <2>2. /\ caller'[c].phase = "create" /\ caller'[c].family = opened + 1
        /\ \A d \in Callers \ {c} : caller'[d] = caller[d]
    BY <1>0, <2>1
  <2>3. (ended \union families)' \subseteq 1 .. opened'
    BY <1>0, <2>1 DEF Opened
  <2>4. \A t \in Tokens : session'[t] <= opened'
    BY <1>0, <2>1 DEF Opened, Families
  <2>5. ASSUME NEW d \in Callers
        PROVE  /\ Carrying(caller'[d]) => caller'[d].family <= opened'
               /\ caller'[d].phase = "append" => caller'[d].list \subseteq 1 .. opened'
               /\ caller'[d].phase \in {"revoke", "close"} => caller'[d].todo \subseteq 1 .. opened'
               /\ caller'[d].phase = "close" => caller'[d].family <= opened'
    <3>1. CASE d = c
      BY <1>0, <2>1, <2>2, <3>1
    <3>2. CASE d # c
      <4>1. Carrying(caller[d]) \/ caller[d].phase = "close" => caller[d].family \in Nat
        BY InHand DEF Families
      <4> QED
        BY <1>0, <2>1, <2>2, <3>2, <4>1 DEF Opened
    <3> QED
      BY <3>1, <3>2
  <2> QED
    BY <2>3, <2>4, <2>5 DEF Opened
<1>2. ASSUME NEW c \in Callers, NEW t \in Tokens, Rotate(c, t) \/ Logout(c, t)
      PROVE  Opened'
  <2>1. session[t] \in 1 .. opened
    BY <1>0, <1>2 DEF Rotate, Logout, Loads, Opened, Families
  <2>2. \E state : /\ caller' = [caller EXCEPT ![c] = state]
                   /\ \/ state.phase = "loaded" /\ state.family = session[t]
                      \/ state.phase = "revoke" /\ state.todo = {session[t]}
    <3>1. CASE Rotate(c, t)
      <4> DEFINE state == [phase |-> "loaded", old |-> t, token |-> issued + 1,
                           family |-> session[t]]
      <4>1. caller' = [caller EXCEPT ![c] = state]
        BY <3>1 DEF Rotate, Starts
      <4>2. state.phase = "loaded" /\ state.family = session[t]
        OBVIOUS
      <4> QED
        BY <4>1, <4>2
    <3>2. CASE Logout(c, t)
      <4> DEFINE state == [phase |-> "revoke", todo |-> {session[t]}, listed |-> FALSE]
      <4>1. caller' = [caller EXCEPT ![c] = state]
        BY <3>2 DEF Logout, Starts
      <4>2. state.phase = "revoke" /\ state.todo = {session[t]}
        OBVIOUS
      <4> QED
        BY <4>1, <4>2
    <3> QED
      BY <1>2, <3>1, <3>2
  <2>3. UNCHANGED <<session, families, opened, ended>>
    BY <1>2 DEF Rotate, Logout, storeVars, madeVars
  <2> QED
    BY <1>0, <2>1, <2>2, <2>3 DEF Opened
<1>3. ASSUME NEW c \in Callers, DeleteOld(c)
      PROVE  Opened'
  <2>1. \A t \in Tokens : session'[t] \in {session[t], 0}
    BY <1>0, <1>3 DEF DeleteOld
  <2> QED
    BY <1>0, <1>3, <2>1 DEF DeleteOld, GoesOn, Opened, madeVars
<1>4. ASSUME NEW c \in Callers, SetSession(c)
      PROVE  Opened'
  <2>1. \A t \in Tokens : session'[t] \in {session[t], caller[c].family}
    BY <1>0, <1>4 DEF SetSession
  <2>2. /\ caller[c].phase = "create"
        /\ caller' = [caller EXCEPT ![c] = [caller[c] EXCEPT !.phase = "activate"]]
        /\ UNCHANGED <<families, opened, ended>>
    BY <1>4 DEF SetSession, GoesOn, madeVars
  <2>3. caller'[c].phase = "activate" /\ caller'[c].family = caller[c].family
    BY <1>0, <2>2, InHand
  <2>4. \A d \in Callers \ {c} : caller'[d] = caller[d]
    BY <1>0, <2>2
  <2> QED
    BY <2>1, <2>2, <2>3, <2>4 DEF Opened
<1>5. ASSUME NEW c \in Callers, SetFamily(c)
      PROVE  Opened'
  <2>2. /\ caller[c].phase = "activate"
        /\ caller' = [caller EXCEPT ![c] = [caller[c] EXCEPT !.phase = "register"]]
        /\ UNCHANGED <<session, families, opened, ended>>
    BY <1>5 DEF SetFamily, GoesOn, madeVars
  <2>3. caller'[c].phase = "register" /\ caller'[c].family = caller[c].family
    BY <1>0, <2>2, InHand
  <2>4. \A d \in Callers \ {c} : caller'[d] = caller[d]
    BY <1>0, <2>2
  <2> QED
    BY <2>2, <2>3, <2>4 DEF Opened
<1>6. ASSUME NEW c \in Callers, ReadFamilies(c)
      PROVE  Opened'
  BY <1>0, <1>6 DEF ReadFamilies, GoesOn, Opened, madeVars, storeVars
<1>7. ASSUME NEW c \in Callers, WriteFamilies(c)
      PROVE  Opened'
  <2>1. /\ caller[c].phase = "append" /\ caller[c].family \in Families
        /\ families' \subseteq families \union caller[c].list \union {caller[c].family}
        /\ caller' = [caller EXCEPT ![c] = Ready]
        /\ UNCHANGED <<session, opened, ended>>
    BY <1>7, InHand DEF WriteFamilies, GoesOn, Registered, madeVars
  <2>2. families' \subseteq 1 .. opened
    BY <2>1 DEF Opened, Families
  <2> QED
    BY <1>0, <2>1, <2>2 DEF Opened
<1>8. ASSUME NEW c \in Callers, RevokeUser(c)
      PROVE  Opened'
  BY <1>0, <1>8 DEF RevokeUser, Starts, Opened, madeVars, storeVars
<1>9. ASSUME NEW c \in Callers, NEW f \in Families, DeleteActive(c, f)
      PROVE  Opened'
  <2>1. \A t \in Tokens : session'[t] \in {session[t], 0}
    BY <1>0, <1>9 DEF DeleteActive
  <2>2. f <= opened
    BY <1>9 DEF DeleteActive, Opened
  <2> QED
    BY <1>0, <1>9, <2>1, <2>2 DEF DeleteActive, GoesOn, Opened, madeVars
<1>10. ASSUME NEW c \in Callers, DeleteFamily(c)
      PROVE  Opened'
  <2>1. /\ caller[c].phase = "close" /\ caller[c].family \in 1 .. opened
        /\ caller[c].todo \subseteq 1 .. opened
    BY <1>10, InHand DEF DeleteFamily, GoesOn, Opened, Families
  <2>2. /\ ended' = ended \union {caller[c].family}
        /\ UNCHANGED <<session, families, opened>>
        /\ \/ caller' = [caller EXCEPT ![c] = Ready]
           \/ caller' = [caller EXCEPT ![c] =
                [phase |-> "revoke", todo |-> caller[c].todo \ {caller[c].family},
                 listed |-> caller[c].listed]]
    BY <1>10 DEF DeleteFamily, GoesOn, madeVars
  <2> QED
    BY <1>0, <2>1, <2>2 DEF Opened
<1>11. ASSUME NEW c \in Callers, DeleteFamilies(c) \/ Break(c)
      PROVE  Opened'
  BY <1>0, <1>11 DEF DeleteFamilies, Break, GoesOn, Opened, madeVars, storeVars
<1>12. ASSUME NEW f \in Families, ExpireFamily(f)
      PROVE  Opened'
  <2>1. \A t \in Tokens : session'[t] \in {session[t], 0}
    BY <1>0, <1>12 DEF ExpireFamily
  <2> QED
    BY <1>0, <1>12, <2>1 DEF ExpireFamily, Opened, madeVars
<1>13. CASE ExpireList \/ UNCHANGED refreshVars
  BY <1>13 DEF ExpireList, Opened, refreshVars, madeVars, storeVars
<1> QED
  BY <1>1, <1>2, <1>3, <1>4, <1>5, <1>6, <1>7, <1>8, <1>9, <1>10, <1>11, <1>12, <1>13
     DEF RefreshNext

\* A request's step keeps order when it is in order for itself.
LEMMA TidyStepOf ==
  ASSUME Tokenwise, Tidy, NEW c \in Callers, NEW state,
         caller' = [caller EXCEPT ![c] = state],
         \/ UNCHANGED tangled /\ caller[c].phase # "ready"
         \/ tangled' = (tangled \/ \E other \in Callers : caller[other] # Ready),
         ~tangled /\ ~tangled' => InForceIsListed' /\ Orderly(c)'
  PROVE  Tidy'
<1> SUFFICES ASSUME ~tangled'
             PROVE  Tidy'
  BY DEF Tidy
<1>1. ~tangled /\ \A d \in Callers \ {c} : caller[d] = Ready
  <2>1. CASE tangled' = (tangled \/ \E other \in Callers : caller[other] # Ready)
    BY <2>1
  <2>2. CASE UNCHANGED tangled /\ caller[c].phase # "ready"
    <3>1. caller[c] # Ready
      BY <2>2 DEF Ready
    <3> QED
      BY <2>2, <3>1 DEF Tidy
  <2> QED
    BY <2>1, <2>2
<1>2. \A d \in Callers \ {c} : caller'[d] = Ready
  BY <1>1 DEF Tokenwise
<1>3. \A d \in Callers \ {c} : Orderly(d)'
  BY <1>2 DEF Orderly, Carrying, Making, Ready
<1> QED
  BY <1>1, <1>2, <1>3 DEF Tidy

\* The families, the clients' tokens and what has ended are as before.
LEMMA InForceKept ==
  ASSUME Tidy, ~tangled, UNCHANGED <<active, families, held, ended>>
  PROVE  InForceIsListed'
  BY DEF Tidy, InForceIsListed

LEMMA TidyStep ==
  ASSUME Tokenwise, Tokenwise', Opened, Tidy, [RefreshNext]_refreshVars
  PROVE  Tidy'
<1> USE DEF Carrying, Making, Ready
<1>0. /\ caller \in [Callers -> CallerStates] /\ session \in [Tokens -> Families \union {0}]
      /\ active \in [Families -> Tokens \union {NoToken}]
      /\ opened \in Nat /\ NoToken \notin held
  <2>1. held \subseteq Nat
    BY RefreshAssumption DEF Tokenwise, RefreshTypeOK, Made
  <2>2. NoToken \notin held
    BY <2>1, RefreshAssumption
  <2>3. opened \in Nat
    BY RefreshAssumption DEF Tokenwise, RefreshTypeOK
  <2> QED
    BY <2>2, <2>3 DEF Tokenwise, RefreshTypeOK
<1>1. ASSUME NEW c \in Callers, Login(c)
      PROVE  Tidy'
  <2> DEFINE state == [phase |-> "create", token |-> issued + 1, family |-> opened + 1]
  <2>1. /\ caller' = [caller EXCEPT ![c] = state]
        /\ tangled' = (tangled \/ \E other \in Callers : caller[other] # Ready)
        /\ UNCHANGED <<active, families, held, ended>>
    BY <1>1 DEF Login, Starts, storeVars
  <2>2. opened + 1 \notin ended
    BY <1>0 DEF Opened
  <2>3. Orderly(c)'
    BY <1>0, <2>1, <2>2 DEF Orderly
  <2> QED
    BY <2>1, <2>3, InForceKept, TidyStepOf
<1>2. ASSUME NEW c \in Callers, NEW t \in Tokens, Rotate(c, t)
      PROVE  Tidy'
  <2> DEFINE state == [phase |-> "loaded", old |-> t, token |-> issued + 1, family |-> session[t]]
  <2>1. /\ caller' = [caller EXCEPT ![c] = state]
        /\ tangled' = (tangled \/ \E other \in Callers : caller[other] # Ready)
        /\ UNCHANGED <<active, families, held, ended>>
    BY <1>2 DEF Rotate, Starts, storeVars
  <2>2. session[t] \in Families /\ active[session[t]] \in held
    BY <1>0, <1>2 DEF Rotate, Loads
  <2>3. ~tangled => session[t] \notin ended
    BY <2>2 DEF Tidy, InForceIsListed
  <2>4. ~tangled => Orderly(c)'
    BY <1>0, <2>1, <2>3 DEF Orderly
  <2> QED
    BY <2>1, <2>4, InForceKept, TidyStepOf
<1>3. ASSUME NEW c \in Callers, NEW t \in Tokens, Logout(c, t)
      PROVE  Tidy'
  <2> DEFINE state == [phase |-> "revoke", todo |-> {session[t]}, listed |-> FALSE]
  <2>1. /\ caller' = [caller EXCEPT ![c] = state]
        /\ tangled' = (tangled \/ \E other \in Callers : caller[other] # Ready)
        /\ UNCHANGED <<active, families, held, ended>>
    BY <1>3 DEF Logout, Starts, storeVars
  <2>2. caller'[c] = state
    BY <1>0, <2>1
  <2>3. Orderly(c)'
    BY <2>2 DEF Orderly
  <2> QED
    BY <2>1, <2>3, InForceKept, TidyStepOf
<1>4. ASSUME NEW c \in Callers, RevokeUser(c)
      PROVE  Tidy'
  <2> DEFINE state == [phase |-> "revoke", todo |-> families, listed |-> TRUE]
  <2>1. /\ caller' = [caller EXCEPT ![c] = state]
        /\ tangled' = (tangled \/ \E other \in Callers : caller[other] # Ready)
        /\ UNCHANGED <<active, families, held, ended>>
    BY <1>4 DEF RevokeUser, Starts, storeVars
  <2>2. caller'[c] = state
    BY <1>0, <2>1
  <2>3. Orderly(c)'
    BY <2>1, <2>2 DEF Orderly
  <2> QED
    BY <2>1, <2>3, InForceKept, TidyStepOf
<1>5. ASSUME NEW c \in Callers, DeleteOld(c)
      PROVE  Tidy'
  <2> DEFINE state == [phase |-> "create", token |-> caller[c].token, family |-> caller[c].family]
  <2>1. /\ caller' = [caller EXCEPT ![c] = state] /\ caller[c].phase = "loaded"
        /\ UNCHANGED <<active, families, held, ended, tangled>>
    BY <1>5 DEF DeleteOld, GoesOn
  <2>2. ~tangled => Orderly(c)'
    BY <1>0, <2>1 DEF Tidy, Orderly
  <2> QED
    BY <2>1, <2>2, InForceKept, TidyStepOf
<1>6. ASSUME NEW c \in Callers, SetSession(c)
      PROVE  Tidy'
  <2> DEFINE state == [caller[c] EXCEPT !.phase = "activate"]
  <2>1. /\ caller' = [caller EXCEPT ![c] = state] /\ caller[c].phase = "create"
        /\ UNCHANGED <<active, families, held, ended, tangled>>
    BY <1>6 DEF SetSession, GoesOn
  <2>2. caller'[c].phase = "activate" /\ caller'[c].family = caller[c].family
    BY <1>0, <2>1, InHand
  <2>3. ~tangled => Orderly(c)'
    BY <2>1, <2>2 DEF Tidy, Orderly
  <2> QED
    BY <2>1, <2>3, InForceKept, TidyStepOf
<1>7. ASSUME NEW c \in Callers, SetFamily(c)
      PROVE  Tidy'
  <2> DEFINE state == [caller[c] EXCEPT !.phase = "register"]
             f == caller[c].family
             t == caller[c].token
  <2>1. /\ caller' = [caller EXCEPT ![c] = state] /\ caller[c].phase = "activate"
        /\ active' = [active EXCEPT ![f] = t]
        /\ UNCHANGED <<families, held, ended, tangled>>
    BY <1>7 DEF SetFamily, GoesOn
  <2>2. /\ caller'[c].phase = "register" /\ caller'[c].family = f /\ caller'[c].token = t
        /\ f \in Families
    BY <1>0, <2>1, InHand
  <2>3. t \notin held /\ \A g \in Families : active[g] # t
    BY <2>1 DEF Tokenwise, InTheMaking
  <2>4. active'[f] = t /\ \A g \in Families \ {f} : active'[g] = active[g]
    BY <1>0, <2>1, <2>2
  <2>5. ~tangled => InForceIsListed'
    BY <2>1, <2>3, <2>4 DEF Tidy, InForceIsListed
  <2>6. ~tangled => Orderly(c)'
    BY <2>1, <2>2, <2>3, <2>4 DEF Tidy, Orderly
  <2> QED
    BY <2>1, <2>5, <2>6, TidyStepOf
<1>8. ASSUME NEW c \in Callers, ReadFamilies(c)
      PROVE  Tidy'
  <2> DEFINE state == [phase |-> "append", token |-> caller[c].token,
                       family |-> caller[c].family, list |-> families]
  <2>1. /\ caller' = [caller EXCEPT ![c] = state] /\ caller[c].phase = "register"
        /\ UNCHANGED <<active, families, held, ended, tangled>>
    BY <1>8 DEF ReadFamilies, GoesOn, storeVars
  <2>2. caller'[c] = state
    BY <1>0, <2>1
  <2>3. ~tangled => Orderly(c)'
    BY <2>1, <2>2 DEF Tidy, Orderly
  <2> QED
    BY <2>1, <2>3, InForceKept, TidyStepOf
<1>9. ASSUME NEW c \in Callers, WriteFamilies(c)
      PROVE  Tidy'
  <2> DEFINE f == caller[c].family
             t == caller[c].token
  <2>1. /\ caller' = [caller EXCEPT ![c] = Ready] /\ caller[c].phase = "append"
        /\ families' = IF f \in caller[c].list THEN families ELSE caller[c].list \union {f}
        /\ held' = held \union {t}
        /\ UNCHANGED <<active, ended, tangled>>
    BY <1>9 DEF WriteFamilies, GoesOn, Registered
  <2>2. ASSUME ~tangled
        PROVE  /\ families' = families \union {f} /\ f \notin ended
               /\ \A g \in Families : active[g] = t => g = f
    BY <2>1, <2>2 DEF Tidy, Orderly
  <2>3. ~tangled => InForceIsListed'
    BY <2>1, <2>2 DEF Tidy, InForceIsListed
  <2>4. Orderly(c)'
    BY <1>0, <2>1 DEF Orderly
  <2> QED
    BY <2>1, <2>3, <2>4, TidyStepOf
<1>10. ASSUME NEW c \in Callers, NEW f \in Families, DeleteActive(c, f)
      PROVE  Tidy'
  <2> DEFINE state == [phase |-> "close", family |-> f, todo |-> caller[c].todo,
                       listed |-> caller[c].listed]
  <2>1. /\ caller' = [caller EXCEPT ![c] = state] /\ caller[c].phase = "revoke"
        /\ UNCHANGED <<active, families, held, ended, tangled>>
    BY <1>10 DEF DeleteActive, GoesOn
  <2>2. caller'[c] = state
    BY <1>0, <2>1
  <2>3. ~tangled => Orderly(c)'
    BY <2>1, <2>2 DEF Tidy, Orderly
  <2> QED
    BY <2>1, <2>3, InForceKept, TidyStepOf
<1>11. ASSUME NEW c \in Callers, DeleteFamily(c)
      PROVE  Tidy'
  <2> DEFINE f == caller[c].family
             rest == caller[c].todo \ {f}
             state == IF rest = {} /\ ~caller[c].listed THEN Ready
                      ELSE [phase |-> "revoke", todo |-> rest, listed |-> caller[c].listed]
  <2>1. /\ caller' = [caller EXCEPT ![c] = state] /\ caller[c].phase = "close"
        /\ active' = [active EXCEPT ![f] = NoToken]
        /\ ended' = ended \union {f}
        /\ UNCHANGED <<families, held, tangled>>
    BY <1>11 DEF DeleteFamily, GoesOn
  <2>2. caller'[c] = state /\ f \in Families /\ caller[c].listed \in BOOLEAN
    BY <1>0, <2>1, InHand
  <2>3. active'[f] = NoToken /\ \A g \in Families \ {f} : active'[g] = active[g]
    BY <1>0, <2>1, <2>2
  <2>4. ~tangled => InForceIsListed'
    BY <1>0, <2>1, <2>3 DEF Tidy, InForceIsListed
  <2>5. ASSUME ~tangled
        PROVE  Orderly(c)'
    <3>1. CASE caller'[c] = Ready
      BY <3>1 DEF Orderly
    <3>2. CASE caller'[c] # Ready
      <4>1. /\ caller'[c] = [phase |-> "revoke", todo |-> rest, listed |-> caller[c].listed]
            /\ caller[c].listed = FALSE => rest # {}
        BY <2>2, <3>2
      <4>2. ASSUME caller[c].listed = TRUE, NEW g \in families
            PROVE  g \in rest \/ active'[g] \notin held
        <5>1. g \in caller[c].todo \/ active[g] \notin held
          BY <2>1, <2>5, <4>2 DEF Tidy, Orderly
        <5>2. g \in Families
          BY <4>2 DEF Tokenwise, RefreshTypeOK
        <5> QED
          BY <1>0, <2>3, <5>1, <5>2
      <4>3. /\ caller'[c].phase = "revoke" /\ caller'[c].todo = rest
            /\ caller'[c].listed = caller[c].listed
        BY <4>1
      <4> HIDE DEF rest
      <4>4. caller'[c].listed = FALSE => caller'[c].todo # {}
        BY <4>1, <4>3
      <4>5. caller'[c].listed = TRUE =>
              \A g \in families' : g \in caller'[c].todo \/ active'[g] \notin held'
        BY <2>1, <4>2, <4>3
      <4> QED
        BY <4>3, <4>4, <4>5 DEF Orderly
    <3> QED
      BY <3>1, <3>2
  <2> HIDE DEF state
  <2> QED
    BY <2>1, <2>4, <2>5, TidyStepOf
<1>12. ASSUME NEW c \in Callers, DeleteFamilies(c)
      PROVE  Tidy'
  <2>1. /\ caller' = [caller EXCEPT ![c] = Ready] /\ caller[c].phase = "revoke"
        /\ caller[c].todo = {}
        /\ UNCHANGED <<active, held, tangled>>
    BY <1>12 DEF DeleteFamilies, GoesOn
  <2>2. caller[c].listed \in BOOLEAN
    BY <2>1, InHand
  <2>3. ~tangled => \A f \in families : active[f] \notin held
    BY <2>1, <2>2 DEF Tidy, Orderly
  <2>4. ~tangled => InForceIsListed'
    BY <2>1, <2>3 DEF Tidy, InForceIsListed
  <2>5. Orderly(c)'
    BY <1>0, <2>1 DEF Orderly
  <2> QED
    BY <2>1, <2>4, <2>5, TidyStepOf
<1>13. ASSUME NEW c \in Callers, Break(c)
      PROVE  Tidy'
  <2>1. /\ caller' = [caller EXCEPT ![c] = Ready] /\ caller[c] # Ready
        /\ UNCHANGED <<active, families, held, ended, tangled>>
    BY <1>13 DEF Break, storeVars
  <2>3. caller[c].phase # "ready"
    BY <1>0, <2>1 DEF CallerStates
  <2>2. Orderly(c)'
    BY <1>0, <2>1 DEF Orderly
  <2> QED
    BY <2>1, <2>2, <2>3, InForceKept, TidyStepOf
<1>14. ASSUME NEW f \in Families, ExpireFamily(f)
      PROVE  Tidy'
  <2>1. /\ active' = [active EXCEPT ![f] = NoToken]
        /\ UNCHANGED <<families, caller, held, ended, tangled>>
    BY <1>14 DEF ExpireFamily
  <2>2. \A g \in Families : active'[g] \in {active[g], NoToken}
    BY <1>0, <2>1
  <2>3. ~tangled => InForceIsListed'
    BY <1>0, <2>1, <2>2 DEF Tidy, InForceIsListed
  <2>4. ASSUME ~tangled, NEW c \in Callers
        PROVE  Orderly(c)'
    <3>1. Orderly(c)
      BY <2>4 DEF Tidy
    <3>2. families \subseteq Families
      BY DEF Tokenwise, RefreshTypeOK
    <3>3. caller[c].phase \in {"register", "append"} => caller[c].token # NoToken
      BY RefreshAssumption, InHand DEF Tokens
    <3> QED
      BY <1>0, <2>1, <2>2, <3>1, <3>2, <3>3 DEF Orderly
  <2> QED
    BY <2>1, <2>3, <2>4 DEF Tidy
<1>15. CASE ExpireList
  BY <1>15 DEF ExpireList, Tidy
<1>16. CASE UNCHANGED refreshVars
  BY <1>16 DEF refreshVars, storeVars, madeVars, Tidy, InForceIsListed, Orderly
<1> QED
  BY <1>1, <1>2, <1>3, <1>4, <1>5, <1>6, <1>7, <1>8, <1>9, <1>10, <1>11, <1>12, <1>13,
     <1>14, <1>15, <1>16 DEF RefreshNext

\* As long as requests do not overlap, no client's token of a family that a logout
\* or a deprovisioning took down is accepted, for any number of requests, logins
\* and rotations, broken off or not (refresh_service.py:106-123).
THEOREM EndedFamiliesStayEnded == RefreshSpec => []EndedStaysEnded
<1>1. RefreshInit => Opened /\ Tidy
  <2> SUFFICES ASSUME RefreshInit
               PROVE  Opened /\ Tidy
    OBVIOUS
  <2>1. \A c \in Callers : caller[c] = Ready
    BY DEF RefreshInit
  <2> QED
    BY <2>1 DEF RefreshInit, Opened, Tidy, InForceIsListed, Orderly, Carrying, Making, Ready
<1>2. Tokenwise /\ Tokenwise' /\ Opened /\ Tidy /\ [RefreshNext]_refreshVars => Opened' /\ Tidy'
  BY OpenedStep, TidyStep
<1>3. Tokenwise /\ Tidy => EndedStaysEnded
  <2> SUFFICES ASSUME Tokenwise, Tidy, ~tangled, NEW t \in held, Loads(t)
               PROVE  session[t] \notin ended
    BY DEF EndedStaysEnded
  <2>1. t \in Tokens
    BY RefreshAssumption DEF Tokenwise, Made, RefreshTypeOK, Tokens
  <2>2. session[t] \in Families /\ active[session[t]] = t
    BY <2>1 DEF Tokenwise, RefreshTypeOK, Loads
  <2> QED
    BY <2>2 DEF Tidy, InForceIsListed
<1> QED
  BY <1>1, <1>2, <1>3, TokenwiseInit, TokenwiseStep, PTL DEF RefreshSpec
-----------------------------------------------------------------------------
(* The index of Keycloak sessions.                                          *)

IndexState(h) ==
  /\ handler[h].phase \in {"register", "unregister"} => handler[h].list = index
  /\ handler[h].phase = "revoke" =>
       \A token \in index : token \in handler[h].todo \/ token[1] \in endAsked

Covering ==
  /\ DOMAIN handler = Handlers
  /\ \A h \in Handlers :
       handler[h].phase \in {"revoked", "unregister"} => handler[h].token[1] \in endAsked
  /\ ~overlapping =>
       /\ \A u \in indexed : u \in endAsked \/ \E token \in index : token[1] = u
       /\ \A h, other \in Handlers : OnIndex(h) /\ OnIndex(other) => h = other
       /\ \A h \in Handlers : IndexState(h)

\* A step that leaves the index alone and lets no request begin on it.
LEMMA CoveringKept ==
  ASSUME Covering, UNCHANGED <<index, indexed, overlapping>>, endAsked \subseteq endAsked',
         DOMAIN handler' = Handlers,
         \A h \in Handlers :
           \/ handler'[h] = handler[h]
           \/ /\ handler'[h].phase = "revoked" /\ handler'[h].token[1] \in endAsked'
           \/ handler'[h].phase \in {"waiting", "claim", "exchange", "issued"}
  PROVE  Covering'
<1>1. \A h \in Handlers :
        handler'[h].phase \in {"revoked", "unregister"} => handler'[h].token[1] \in endAsked'
  BY DEF Covering
<1>2. \A h \in Handlers : OnIndex(h)' => OnIndex(h) /\ handler'[h] = handler[h]
  BY DEF OnIndex
<1>3. ASSUME ~overlapping, NEW h \in Handlers
      PROVE  IndexState(h)'
  BY <1>2, <1>3 DEF Covering, IndexState, OnIndex
<1>4. ~overlapping => \A u \in indexed : u \in endAsked' \/ \E token \in index : token[1] = u
  BY DEF Covering
<1>5. ~overlapping => \A h, other \in Handlers : OnIndex(h)' /\ OnIndex(other)' => h = other
  BY <1>2 DEF Covering
<1> QED
  BY <1>1, <1>3, <1>4, <1>5 DEF Covering

\* A request that reads the index is alone on it, or has crossed another.
LEMMA CoveringReads ==
  ASSUME Covering, NEW h \in Handlers, NEW state, Reads(h, state),
         UNCHANGED <<index, indexed, endAsked>>,
         state.phase \in {"register", "unregister", "revoke"},
         state.phase \in {"register", "unregister"} => state.list = index,
         state.phase = "unregister" => state.token[1] \in endAsked,
         state.phase = "revoke" => state.todo = index
  PROVE  Covering'
<1>1. /\ handler' = [handler EXCEPT ![h] = state] /\ DOMAIN handler' = Handlers
      /\ handler'[h] = state
      /\ \A other \in Handlers \ {h} : handler'[other] = handler[other]
  BY DEF Reads, Moves, Covering
<1>2. \A x \in Handlers :
        handler'[x].phase \in {"revoked", "unregister"} => handler'[x].token[1] \in endAsked
  BY <1>1 DEF Covering
<1>3. ASSUME ~overlapping'
      PROVE  /\ ~overlapping
             /\ \A other \in Handlers \ {h} : ~OnIndex(other)'
  BY <1>1, <1>3 DEF Reads, OnIndex
<1>4. ASSUME ~overlapping', NEW x \in Handlers
      PROVE  IndexState(x)'
  <2>1. CASE x = h
    BY <1>1, <2>1 DEF IndexState
  <2>2. CASE x # h
    BY <1>3, <1>4, <2>2 DEF IndexState, OnIndex
  <2> QED
    BY <2>1, <2>2
<1>5. ~overlapping' => \A x, other \in Handlers : OnIndex(x)' /\ OnIndex(other)' => x = other
  BY <1>3
<1>6. ~overlapping' => \A u \in indexed : u \in endAsked \/ \E token \in index : token[1] = u
  BY <1>3 DEF Covering
<1> QED
  BY <1>1, <1>2, <1>4, <1>5, <1>6 DEF Covering

\* A request that writes the index was alone on it, if none crossed another.
LEMMA CoveringWrites ==
  ASSUME Covering, NEW h \in Handlers, OnIndex(h), Moves(h, Unhandled),
         UNCHANGED <<endAsked, overlapping>>,
         ~overlapping => \A u \in indexed' : u \in endAsked \/ \E token \in index' : token[1] = u
  PROVE  Covering'
<1>1. /\ DOMAIN handler' = Handlers
      /\ handler'[h].phase = "waiting"
      /\ \A other \in Handlers \ {h} : handler'[other] = handler[other]
  BY DEF Moves, Covering, Unhandled
<1>2. \A x \in Handlers :
        handler'[x].phase \in {"revoked", "unregister"} => handler'[x].token[1] \in endAsked
  BY <1>1 DEF Covering
<1>3. ~overlapping => \A x \in Handlers : ~OnIndex(x)'
  BY <1>1 DEF Covering, OnIndex
<1>4. ~overlapping => \A x \in Handlers : IndexState(x)'
  BY <1>3 DEF OnIndex, IndexState
<1> QED
  BY <1>1, <1>2, <1>3, <1>4 DEF Covering

LEMMA CoveringStep ==
  ASSUME Covering, [KcNext]_kcVars
  PROVE  Covering'
<1> USE DEF Unhandled
<1>0. DOMAIN handler = Handlers
  BY DEF Covering
<1>1. CASE \E u \in SignIns : OidcLogin(u) \/ ExpireState(u) \/ Refresh(u)
  BY <1>0, <1>1, CoveringKept DEF OidcLogin, ExpireState, Refresh
<1>2. ASSUME NEW h \in Handlers,
             \/ \E u \in SignIns : Callback(h, u) \/ KcLogout(h, u)
             \/ Claim(h) \/ Exchange(h) \/ SkipIndex(h) \/ LoseHandler(h)
      PROVE  Covering'
  <2>1. UNCHANGED <<index, indexed, overlapping>> /\ endAsked \subseteq endAsked'
    BY <1>2 DEF Callback, KcLogout, Claim, Exchange, SkipIndex, LoseHandler, AskToEnd
  <2>2. DOMAIN handler' = Handlers /\ \A x \in Handlers \ {h} : handler'[x] = handler[x]
    BY <1>0, <1>2 DEF Callback, KcLogout, Claim, Exchange, SkipIndex, LoseHandler, Moves
  <2>3. \/ handler'[h] = handler[h]
        \/ handler'[h].phase = "revoked" /\ handler'[h].token[1] \in endAsked'
        \/ handler'[h].phase \in {"waiting", "claim", "exchange", "issued"}
    BY <1>0, <1>2 DEF Callback, KcLogout, Claim, Exchange, SkipIndex, LoseHandler, Moves,
                      AskToEnd, Token
  <2> QED
    BY <2>1, <2>2, <2>3, CoveringKept
<1>3. ASSUME NEW h \in Handlers, ReadToRegister(h)
      PROVE  Covering'
  BY <1>3, CoveringReads DEF ReadToRegister
<1>4. ASSUME NEW h \in Handlers, Register(h)
      PROVE  Covering'
  <2>1. ~overlapping => handler[h].list = index
    BY <1>4 DEF Register, Covering, IndexState
  <2>2. ~overlapping => \A u \in indexed' : u \in endAsked \/ \E token \in index' : token[1] = u
    BY <1>4, <2>1 DEF Register, Covering
  <2> QED
    BY <1>4, <2>2, CoveringWrites DEF Register, OnIndex
<1>5. ASSUME NEW h \in Handlers, ReadToUnregister(h)
      PROVE  Covering'
  <2>1. handler[h].token[1] \in endAsked
    BY <1>5 DEF ReadToUnregister, Covering
  <2>2. CASE handler[h].token \in index
    BY <1>5, <2>1, <2>2, CoveringReads DEF ReadToUnregister
  <2>3. CASE handler[h].token \notin index
    BY <1>0, <1>5, <2>3, CoveringKept DEF ReadToUnregister, Moves
  <2> QED
    BY <2>2, <2>3
<1>6. ASSUME NEW h \in Handlers, Unregister(h)
      PROVE  Covering'
  <2>1. handler[h].token[1] \in endAsked /\ (~overlapping => handler[h].list = index)
    BY <1>6 DEF Unregister, Covering, IndexState
  <2>2. ~overlapping => \A u \in indexed' : u \in endAsked \/ \E token \in index' : token[1] = u
    BY <1>6, <2>1 DEF Unregister, Without, Covering
  <2> QED
    BY <1>6, <2>2, CoveringWrites DEF Unregister, OnIndex
<1>7. ASSUME NEW h \in Handlers, ReadToRevoke(h)
      PROVE  Covering'
  BY <1>7, CoveringReads DEF ReadToRevoke
<1>8. ASSUME NEW h \in Handlers, NEW token \in KcTokens, RevokeNext(h, token)
      PROVE  Covering'
  <2>1. /\ handler[h].phase = "revoke" /\ token \in handler[h].todo
        /\ endAsked' = endAsked \union {token[1]}
        /\ handler' = [handler EXCEPT ![h] = [handler[h] EXCEPT !.todo = handler[h].todo \ {token}]]
        /\ UNCHANGED <<index, indexed, overlapping>>
    BY <1>8 DEF RevokeNext, AskToEnd, Moves
  <2>2. /\ DOMAIN handler' = Handlers
        /\ handler'[h].phase = "revoke" /\ handler'[h].todo = handler[h].todo \ {token}
        /\ \A x \in Handlers \ {h} : handler'[x] = handler[x]
    BY <1>0, <2>1
  <2>3. \A x \in Handlers : OnIndex(x)' <=> OnIndex(x)
    BY <2>1, <2>2 DEF OnIndex
  <2>4. ASSUME ~overlapping, NEW x \in Handlers
        PROVE  IndexState(x)'
    <3>1. CASE x = h
      BY <2>1, <2>2, <2>4, <3>1 DEF Covering, IndexState
    <3>2. CASE x # h
      BY <2>1, <2>2, <2>4, <3>2 DEF Covering, IndexState
    <3> QED
      BY <3>1, <3>2
  <2> QED
    BY <2>1, <2>2, <2>3, <2>4 DEF Covering
<1>9. ASSUME NEW h \in Handlers, DropIndex(h)
      PROVE  Covering'
  <2>1. ~overlapping => \A token \in index : token[1] \in endAsked
    BY <1>9 DEF DropIndex, Covering, IndexState
  <2>2. ~overlapping => \A u \in indexed' : u \in endAsked \/ \E token \in index' : token[1] = u
    BY <1>9, <2>1 DEF DropIndex, Covering
  <2> QED
    BY <1>9, <2>2, CoveringWrites DEF DropIndex, OnIndex
<1>10. CASE ExpireIndex
  BY <1>10 DEF ExpireIndex, Covering
<1>11. CASE UNCHANGED kcVars
  BY <1>0, <1>11, CoveringKept DEF kcVars
<1> QED
  BY <1>1, <1>2, <1>3, <1>4, <1>5, <1>6, <1>7, <1>8, <1>9, <1>10, <1>11 DEF KcNext

\* While requests on the index do not overlap, a sign-in that was put into the
\* index stays in it until Keycloak was asked to end its session, for any number
\* of requests, sign-ins and refreshes (keycloak_session_index.py:23-61).
THEOREM IndexCovers == KcSpec => []IndexCoversSessions
<1>1. KcInit => Covering
  BY DEF KcInit, Covering, Unhandled, OnIndex, IndexState
<1>2. Covering /\ [KcNext]_kcVars => Covering'
  BY CoveringStep
<1>3. Covering => IndexCoversSessions
  BY DEF Covering, IndexCoversSessions
<1> QED
  BY <1>1, <1>2, <1>3, PTL DEF KcSpec
=============================================================================
