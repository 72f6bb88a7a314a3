---------------------------- MODULE AccessProofs ----------------------------
(***************************************************************************)
(* Proofs about access: the realm's signing keys, the counter of a rate    *)
(* limit and the deprovisioning of a user - for any number of requests,    *)
(* keys, windows and users.                                                *)
(***************************************************************************)
EXTENDS SigningKeys, RateLimit, ScimUsers, TLAPS

(***************************************************************************)
(* SigningKeys                                                             *)
(***************************************************************************)

Checks ==
  {Unused}
  \union [phase : {"fetch"}, kid : Keys, again : BOOLEAN]
  \union [phase : {"answered", "stored"}, kid : Keys, again : BOOLEAN, keys : SUBSET Keys]

\* A key that a fetched set does not have is not listed any more either, because
\* Keycloak lists no key a second time; and an entry nobody else touched is still
\* the one that was written.
FetchIsSound(v) ==
  /\ check[v] # Unused => check[v].kid <= newest
  /\ check[v].phase \in {"answered", "stored"} =>
       check[v].kid \in check[v].keys \/ check[v].kid \notin listed
  /\ check[v].phase = "stored" /\ v \notin crossed => jwks = check[v].keys /\ jwks # Unloaded

\* What is inductive.
Fetched ==
  /\ newest \in Keys /\ listed \subseteq 0 .. newest /\ newest \in listed
  /\ jwks \subseteq Keys
  /\ check \in [Validations -> Checks]
  /\ \A v \in Validations : FetchIsSound(v)
  /\ \A v \in Validations : check[v].phase \in {"answered", "stored"} => check[v].keys # Unloaded
  /\ ListedKeyIsFound

LEMMA FetchedInit == KeysInit => Fetched
  BY SigningAssumption
     DEF KeysInit, Fetched, FetchIsSound, Keys, Unloaded, Checks, Unused, ListedKeyIsFound

LEMMA CheckForms ==
  ASSUME Fetched, NEW v \in Validations
  PROVE  /\ check[v].phase = "fetch" =>
              check[v] \in [phase : {"fetch"}, kid : Keys, again : BOOLEAN]
         /\ check[v].phase \in {"answered", "stored"} =>
              check[v] \in [phase : {"answered", "stored"}, kid : Keys, again : BOOLEAN,
                            keys : SUBSET Keys]
         /\ check[v].phase \in {"fetch", "answered", "stored"} => check[v] # Unused
  BY DEF Fetched, Checks, Unused

\* A request moves on, and leaves the cache and the histories alone.
LEMMA CheckMoves ==
  ASSUME Fetched, NEW v \in Validations, NEW c \in Checks,
         check' = [check EXCEPT ![v] = c],
         c # Unused => c.kid <= newest,
         c.phase \in {"answered", "stored"} =>
           /\ c.kid \in c.keys \/ c.kid \notin listed
           /\ c.keys # Unloaded,
         c.phase # "stored",
         UNCHANGED <<newest, listed, jwks, crossed>>,
         ListedKeyIsFound'
  PROVE  Fetched'
<1>1. check' \in [Validations -> Checks] /\ check'[v] = c
      /\ \A u \in Validations \ {v} : check'[u] = check[u]
  BY DEF Fetched
<1>2. \A u \in Validations : FetchIsSound(u)'
  BY <1>1 DEF Fetched, FetchIsSound
<1> QED
  BY <1>1, <1>2 DEF Fetched

\* A token turned away is on record with what happened to its entry.
LEMMA TurnedAway ==
  ASSUME Fetched, NEW v, NEW kid, kid \in listed => v \in crossed,
         turned' = TurnAway(v, kid)
  PROVE  ListedKeyIsFound'
<1> DEFINE x == [kid |-> kid, crossed |-> v \in crossed]
<1>1. \A t \in turned : t.crossed
  BY Zenon DEF Fetched, ListedKeyIsFound
<1>2. kid \in listed => x.crossed
  OBVIOUS
<1>3. turned' = IF kid \in listed THEN turned \union {x} ELSE turned
  BY DEF TurnAway
<1> HIDE DEF x
<1> QED
  BY <1>1, <1>2, <1>3, Zenon DEF ListedKeyIsFound

\* A request with a set of keys in hand goes on as Judge says.
LEMMA JudgeFetched ==
  ASSUME Fetched, NEW v \in Validations, NEW kid \in Keys, NEW keys \in SUBSET Keys,
         NEW again \in BOOLEAN, kid <= newest,
         again /\ v \notin crossed => kid \in keys \/ kid \notin listed,
         Judge(v, kid, keys, again), UNCHANGED <<newest, listed>>
  PROVE  Fetched'
<1>1. Unused \in Checks /\ Unused.phase \notin {"answered", "stored"}
  BY DEF Checks, Unused
<1>2. CASE kid \in keys
  <2>1. check' = [check EXCEPT ![v] = Unused] /\ UNCHANGED <<jwks, crossed, turned>>
    BY <1>2 DEF Judge
  <2>2. ListedKeyIsFound'
    BY <2>1 DEF Fetched, ListedKeyIsFound
  <2> QED
    BY <1>1, <2>1, <2>2, CheckMoves
<1>3. CASE kid \notin keys /\ ~again
  <2> DEFINE c == [phase |-> "fetch", kid |-> kid, again |-> TRUE]
  <2>1. /\ jwks' = Unloaded /\ crossed' = crossed \union (Closing \ {v})
        /\ check' = [check EXCEPT ![v] = c] /\ UNCHANGED turned
    BY <1>3 DEF Judge, LooksAgain
  <2>2. c \in Checks /\ c.phase = "fetch" /\ c.kid = kid
    BY DEF Checks
  <2> HIDE DEF c
  <2>3. /\ check' \in [Validations -> Checks] /\ check'[v] = c
        /\ \A u \in Validations \ {v} : check'[u] = check[u]
    BY <2>1, <2>2 DEF Fetched
  <2>4. \A u \in Validations : FetchIsSound(u)'
    <3> SUFFICES ASSUME NEW u \in Validations PROVE FetchIsSound(u)'
      OBVIOUS
    <3>1. CASE u = v
      BY <2>2, <2>3, <3>1 DEF FetchIsSound
    <3>2. CASE u # v
      <4>1. check'[u].phase = "stored" => u \in crossed'
        BY <2>1, <2>3, <3>2 DEF Closing
      <4> QED
        BY <2>3, <3>2, <4>1 DEF FetchIsSound, Fetched
    <3> QED
      BY <3>1, <3>2
  <2>5. ListedKeyIsFound' /\ jwks' \subseteq Keys
    BY <2>1 DEF Fetched, ListedKeyIsFound, Unloaded
  <2> QED
    BY <2>2, <2>3, <2>4, <2>5 DEF Fetched
<1>4. CASE kid \notin keys /\ again
  <2>1. /\ check' = [check EXCEPT ![v] = Unused] /\ turned' = TurnAway(v, kid)
        /\ UNCHANGED <<jwks, crossed>>
    BY <1>4 DEF Judge, LooksAgain
  <2>2. ListedKeyIsFound'
    BY <1>4, <2>1, TurnedAway
  <2> QED
    BY <1>1, <2>1, <2>2, CheckMoves
<1> QED
  BY <1>2, <1>3, <1>4

LEMMA FetchedStep ==
  ASSUME Fetched, [KeysNext]_keyVars
  PROVE  Fetched'
<1>1. /\ newest \in Nat /\ newest <= MaxRotations /\ MaxRotations \in Nat
      /\ listed \subseteq 0 .. newest /\ newest \in listed
      /\ jwks \subseteq Keys /\ listed \subseteq Keys /\ listed # Unloaded
  BY SigningAssumption DEF Fetched, Keys, Unloaded
<1>2. Unused \in Checks /\ Unused.phase \notin {"fetch", "answered", "stored"}
  BY DEF Checks, Unused
<1>3. ASSUME NEW v \in Validations, NEW kid \in Keys, Validate(v, kid)
      PROVE  Fetched'
  <2>1. kid <= newest
    BY <1>1, <1>3 DEF Validate, Keys
  <2>2. CASE jwks = Unloaded
    <3> DEFINE c == [phase |-> "fetch", kid |-> kid, again |-> FALSE]
    <3>1. c \in Checks /\ c.phase = "fetch" /\ c.kid = kid
      BY DEF Checks
    <3>2. /\ check' = [check EXCEPT ![v] = c]
          /\ UNCHANGED <<newest, listed, jwks, crossed, turned>>
      BY <1>3, <2>2 DEF Validate
    <3>3. ListedKeyIsFound'
      BY <3>2 DEF Fetched, ListedKeyIsFound
    <3> HIDE DEF c
    <3> QED
      BY <2>1, <3>1, <3>2, <3>3, CheckMoves
  <2>3. CASE jwks # Unloaded
    <3>1. Judge(v, kid, jwks, FALSE) /\ UNCHANGED <<newest, listed>>
      BY <1>3, <2>3 DEF Validate
    <3> QED
      BY <1>1, <2>1, <3>1, JudgeFetched
  <2> QED
    BY <2>2, <2>3
<1>4. ASSUME NEW v \in Validations, Answer(v)
      PROVE  Fetched'
  <2> DEFINE c == [phase |-> "answered", kid |-> check[v].kid, again |-> check[v].again,
                   keys |-> listed]
  <2>1. check[v] \in [phase : {"fetch"}, kid : Keys, again : BOOLEAN]
        /\ check[v] # Unused
    BY <1>4, CheckForms DEF Answer
  <2>2. check[v].kid <= newest
    BY <2>1 DEF Fetched, FetchIsSound
  <2>3. c \in Checks /\ c.phase = "answered" /\ c.kid = check[v].kid /\ c.keys = listed
    BY <1>1, <2>1 DEF Checks
  <2>4. /\ check' = [check EXCEPT ![v] = c]
        /\ UNCHANGED <<newest, listed, jwks, crossed, turned>>
    BY <1>4 DEF Answer
  <2>5. ListedKeyIsFound'
    BY <2>4 DEF Fetched, ListedKeyIsFound
  <2> HIDE DEF c
  <2> QED
    BY <1>1, <2>2, <2>3, <2>4, <2>5, CheckMoves
\* Whoever else had written is crossed; this request has just written.
<1>5. ASSUME NEW v \in Validations, Arrive(v)
      PROVE  Fetched'
  <2> DEFINE c == [check[v] EXCEPT !.phase = "stored"]
  <2>1. /\ check[v] \in [phase : {"answered", "stored"}, kid : Keys, again : BOOLEAN,
                         keys : SUBSET Keys]
        /\ check[v].phase = "answered" /\ check[v] # Unused
    BY <1>5, CheckForms DEF Arrive
  <2>2. /\ c \in Checks /\ c.phase = "stored" /\ c.kid = check[v].kid
        /\ c.keys = check[v].keys
    BY <2>1 DEF Checks
  <2>3. /\ check' = [check EXCEPT ![v] = c] /\ jwks' = c.keys
        /\ crossed' = (crossed \union Closing) \ {v}
        /\ UNCHANGED <<newest, listed, turned>>
    BY <1>5, <2>1, <2>2 DEF Arrive
  <2> HIDE DEF c
  <2>4. /\ c.kid <= newest /\ (c.kid \in c.keys \/ c.kid \notin listed) /\ c.keys # Unloaded
    BY <2>1, <2>2 DEF Fetched, FetchIsSound
  <2>5. /\ check' \in [Validations -> Checks] /\ check'[v] = c
        /\ \A u \in Validations \ {v} : check'[u] = check[u]
    BY <2>2, <2>3 DEF Fetched
  <2>6. \A u \in Validations : FetchIsSound(u)'
    <3> SUFFICES ASSUME NEW u \in Validations PROVE FetchIsSound(u)'
      OBVIOUS
    <3>1. CASE u = v
      BY <2>3, <2>4, <2>5, <3>1 DEF FetchIsSound
    <3>2. CASE u # v
      <4>1. check'[u].phase = "stored" => u \in crossed'
        BY <2>3, <2>5, <3>2 DEF Closing
      <4> QED
        BY <2>3, <2>5, <3>2, <4>1 DEF FetchIsSound, Fetched
    <3> QED
      BY <3>1, <3>2
  <2>7. \A u \in Validations : check'[u].phase \in {"answered", "stored"} =>
                                 check'[u].keys # Unloaded
    BY <2>4, <2>5 DEF Fetched
  <2>8. jwks' \subseteq Keys /\ ListedKeyIsFound'
    BY <2>1, <2>2, <2>3 DEF Fetched, ListedKeyIsFound
  <2> QED
    BY <2>3, <2>5, <2>6, <2>7, <2>8 DEF Fetched
<1>6. ASSUME NEW v \in Validations, Reread(v)
      PROVE  Fetched'
  <2>1. /\ check[v] \in [phase : {"answered", "stored"}, kid : Keys, again : BOOLEAN,
                         keys : SUBSET Keys]
        /\ check[v].phase = "stored" /\ check[v] # Unused
    BY <1>6, CheckForms DEF Reread
  <2>2. /\ check[v].kid <= newest
        /\ v \notin crossed =>
             /\ jwks # Unloaded
             /\ check[v].kid \in jwks \/ check[v].kid \notin listed
    BY <2>1 DEF Fetched, FetchIsSound
  <2>3. CASE jwks = Unloaded
    <3>1. /\ check' = [check EXCEPT ![v] = Unused] /\ turned' = TurnAway(v, check[v].kid)
          /\ UNCHANGED <<newest, listed, jwks, crossed>>
      BY <1>6, <2>3 DEF Reread
    <3>2. ListedKeyIsFound'
      BY <2>2, <2>3, <3>1, TurnedAway
    <3> QED
      BY <1>2, <3>1, <3>2, CheckMoves
  <2>4. CASE jwks # Unloaded
    <3> DEFINE kid == check[v].kid
               again == check[v].again
    <3>1. Judge(v, kid, jwks, again) /\ UNCHANGED <<newest, listed>>
      BY <1>6, <2>4 DEF Reread
    <3>2. kid \in Keys /\ again \in BOOLEAN /\ kid <= newest /\ jwks \in SUBSET Keys
      BY <1>1, <2>1, <2>2
    <3>3. v \notin crossed => kid \in jwks \/ kid \notin listed
      BY <2>2
    <3> HIDE DEF kid, again
    <3> QED
      BY <3>1, <3>2, <3>3, JudgeFetched
  <2> QED
    BY <2>3, <2>4
<1>7. ASSUME NEW v \in Validations, NoAnswer(v)
      PROVE  Fetched'
  <2>1. ListedKeyIsFound'
    BY <1>7 DEF NoAnswer, Fetched, ListedKeyIsFound
  <2> QED
    BY <1>2, <1>7, <2>1, CheckMoves DEF NoAnswer
\* A key that is not listed has never been the newest one to come.
<1>8. CASE RotateKey
  <2>1. /\ newest' = newest + 1 /\ listed' = listed \union {newest + 1} /\ newest' \in Keys
        /\ UNCHANGED <<jwks, check, crossed, turned>>
    BY <1>1, <1>8 DEF RotateKey, Keys
  <2>2. \A v \in Validations : FetchIsSound(v)'
    <3> SUFFICES ASSUME NEW v \in Validations PROVE FetchIsSound(v)'
      OBVIOUS
    <3>1. check[v] # Unused => check[v].kid \in Nat /\ check[v].kid <= newest
      BY DEF Fetched, FetchIsSound, Checks, Keys
    <3>2. check[v].phase \in {"answered", "stored"} => check[v] # Unused
      BY <1>2
    <3> QED
      BY <1>1, <2>1, <3>1, <3>2 DEF Fetched, FetchIsSound
  <2>3. listed' \subseteq 0 .. newest' /\ newest' \in listed'
    BY <1>1, <2>1
  <2> QED
    BY <2>1, <2>2, <2>3 DEF Fetched, ListedKeyIsFound
<1>9. ASSUME NEW k \in Keys, WithdrawKey(k)
      PROVE  Fetched'
  BY <1>1, <1>9 DEF WithdrawKey, Fetched, FetchIsSound, ListedKeyIsFound
<1>10. CASE UNCHANGED keyVars
  BY <1>10 DEF keyVars, Fetched, FetchIsSound, ListedKeyIsFound
<1> QED
  BY <1>3, <1>4, <1>5, <1>6, <1>7, <1>8, <1>9, <1>10 DEF KeysNext

\* A token is turned away for want of a key that Keycloak lists all along only if
\* another request touched the entry between the write and the second read, for
\* any number of requests that share the cache, and of rotations
\* (security.py:188-201, 218-241).
THEOREM ListedKeysAreFound == KeysSpec => []ListedKeyIsFound
<1>1. Fetched => ListedKeyIsFound
  BY DEF Fetched
<1> QED
  BY <1>1, FetchedInit, FetchedStep, PTL DEF KeysSpec

(***************************************************************************)
(* RateLimit                                                               *)
(***************************************************************************)

\* When a counter of window w may lapse: one that was first raised in w lives on for
\* Ttl.
Lapses(w) == w * Window + Ttl

CallStates ==
  {Done}
  \union [phase : {"limited"}, layer : Layers \union {"middleware"}, limit : 1 .. HighestLimit]
  \union [phase : {"named"}, layer : Layers \union {"middleware"}, limit : 1 .. HighestLimit,
          named : 0 .. MaxClock]
  \union [phase : {"first"}, layer : Layers \union {"middleware"}, window : Windows]

\* What is inductive: before it may lapse, a window's counter has counted all that
\* passed; and a request that has named its window came after the window began.
Counted ==
  /\ clock \in 0 .. MaxClock
  /\ counter \in [Windows -> Nat] /\ passed \in [Windows -> Nat]
  /\ expiry \in [Windows -> Nat]
  /\ tenantCap \in {0, PlanLimit}
  /\ call \in [Calls -> CallStates]
  /\ \A c \in Calls : call[c].phase = "named" => call[c].named <= clock
  /\ \A c \in Calls : call[c].phase = "first" => call[c].window * Window <= clock
  /\ \A w \in Windows : expiry[w] > 0 => Lapses(w) <= expiry[w]
  /\ \A w \in Windows : clock < Lapses(w) => passed[w] <= counter[w]
  /\ WindowHolds

LEMMA RateFacts ==
  /\ HighestLimit \in Nat /\ PlanLimit \in 1 .. HighestLimit /\ Default \in 1 .. HighestLimit
  /\ Windows \subseteq Nat
  BY RateAssumption DEF HighestLimit, Windows

\* A window begins before the times that are in it, and ends after them.
LEMMA WindowOfTime ==
  ASSUME NEW t \in 0 .. MaxClock
  PROVE  /\ WindowAt(t) \in Windows
         /\ WindowAt(t) * Window \in Nat
         /\ WindowAt(t) * Window <= t /\ t < WindowAt(t) * Window + Window
<1>1. t \in Nat /\ Window \in Nat /\ Window > 0 /\ MaxClock \in Nat /\ t <= MaxClock
  BY RateAssumption
<1>2. /\ WindowAt(t) \in Nat /\ WindowAt(MaxClock) \in Nat
      /\ WindowAt(t) * Window <= t /\ t < WindowAt(t) * Window + Window
      /\ WindowAt(MaxClock) * Window <= MaxClock
      /\ MaxClock < WindowAt(MaxClock) * Window + Window
  BY <1>1, Z3T(30) DEF WindowAt
<1>3. WindowAt(t) <= WindowAt(MaxClock)
  BY <1>1, <1>2, Z3T(30)
<1>4. WindowAt(t) * Window \in Nat
  BY <1>1, <1>2
<1> QED
  BY <1>2, <1>3, <1>4 DEF Windows

LEMMA LapsesLater ==
  ASSUME NEW w \in Windows
  PROVE  w * Window \in Nat /\ Lapses(w) \in Nat /\ Lapses(w) = w * Window + Ttl
  BY RateAssumption, RateFacts DEF Lapses

LEMMA CountedInit == RateInit => Counted
<1> SUFFICES ASSUME RateInit PROVE Counted
  OBVIOUS
<1>1. call \in [Calls -> CallStates] /\ \A c \in Calls : call[c].phase = "done"
  BY DEF RateInit, CallStates, Done
<1>2. /\ clock = 0 /\ tenantCap = 0
      /\ \A w \in Windows : counter[w] = 0 /\ passed[w] = 0 /\ expiry[w] = 0
      /\ counter \in [Windows -> Nat] /\ passed \in [Windows -> Nat]
      /\ expiry \in [Windows -> Nat]
  BY DEF RateInit
<1> QED
  BY <1>1, <1>2, RateFacts, RateAssumption DEF Counted, WindowHolds

\* A request that goes on without counting leaves everything else alone.
LEMMA CallMoves ==
  ASSUME Counted, NEW c \in Calls, NEW state \in CallStates,
         call' = [call EXCEPT ![c] = state],
         state.phase = "named" => state.named <= clock,
         state.phase # "first",
         UNCHANGED <<clock, counter, expiry, tenantCap, passed, late>>
  PROVE  Counted'
<1>1. /\ call' \in [Calls -> CallStates] /\ call'[c] = state
      /\ \A d \in Calls \ {c} : call'[d] = call[d]
  BY DEF Counted
<1>2. /\ \A d \in Calls : call'[d].phase = "named" => call'[d].named <= clock'
      /\ \A d \in Calls : call'[d].phase = "first" => call'[d].window * Window <= clock'
  BY <1>1 DEF Counted
<1>3. \A w : Lapses(w)' = Lapses(w)
  BY DEF Lapses
<1> QED
  BY <1>1, <1>2, <1>3 DEF Counted, WindowHolds, HighestLimit

\* Where a request goes once it is let through.
LEMMA OnwardIs ==
  ASSUME Counted, NEW l
  PROVE  Onward(l) \in CallStates /\ Onward(l).phase \in {"done", "limited"}
<1>1. Limit \in 1 .. HighestLimit
  BY RateFacts DEF Limit, Counted
<1>2. At("middleware") \in CallStates /\ At("middleware").phase = "limited"
  BY <1>1 DEF At, CallStates
<1>3. Done \in CallStates /\ Done.phase = "done"
  BY DEF Done, CallStates
<1> QED
  BY <1>2, <1>3 DEF Onward

LEMMA CountedStep ==
  ASSUME Counted, [RateNext]_rateVars
  PROVE  Counted'
<1>1. /\ Done \in CallStates /\ Done.phase = "done" /\ Limit \in 1 .. HighestLimit
      /\ clock \in Nat /\ clock <= MaxClock /\ MaxClock \in Nat
      /\ Window \in Nat /\ Ttl \in Nat /\ Window <= Ttl
  BY RateFacts, RateAssumption DEF CallStates, Done, Limit, Counted
<1>2. ASSUME NEW c \in Calls, NEW l \in Layers, Enter(c, l)
      PROVE  Counted'
  <2>1. At(l) \in CallStates /\ At(l).phase = "limited"
    BY <1>1 DEF At, CallStates
  <2> QED
    BY <1>2, <2>1, CallMoves DEF Enter
<1>3. ASSUME NEW c \in Calls, NameBucket(c)
      PROVE  Counted'
  <2> DEFINE state == [phase |-> "named", layer |-> call[c].layer, limit |-> call[c].limit,
                       named |-> clock]
  <2>1. call[c] \in [phase : {"limited"}, layer : Layers \union {"middleware"},
                     limit : 1 .. HighestLimit]
    BY <1>3 DEF NameBucket, Counted, CallStates, Done
  <2>2. state \in CallStates /\ state.phase = "named" /\ state.named = clock
    BY <1>1, <2>1 DEF CallStates, Counted
  <2>3. /\ call' = [call EXCEPT ![c] = state]
        /\ UNCHANGED <<clock, counter, expiry, tenantCap, passed, late>>
    BY <1>3 DEF NameBucket
  <2> HIDE DEF state
  <2>4. state.named <= clock /\ state.phase # "first"
    BY <1>1, <2>2
  <2> QED
    BY <2>2, <2>3, <2>4, CallMoves
\* A counter that may have lapsed decides only for a request that is late.
<1>4. ASSUME NEW c \in Calls, Count(c)
      PROVE  Counted'
  <2> DEFINE l == call[c].layer
             w == WindowAt(call[c].named)
             ok == counter[w] + 1 <= call[c].limit
             state == IF counter[w] + 1 = 1 THEN [phase |-> "first", layer |-> l, window |-> w]
                      ELSE IF ok THEN Onward(l) ELSE Done
             slow == clock - call[c].named > Ttl - Window
  <2>1. /\ call[c] \in [phase : {"named"}, layer : Layers \union {"middleware"},
                        limit : 1 .. HighestLimit, named : 0 .. MaxClock]
        /\ call[c].named <= clock
    BY <1>4 DEF Count, Counted, CallStates, Done
  <2>2. /\ w \in Windows /\ w * Window \in Nat
        /\ w * Window <= call[c].named /\ call[c].named < w * Window + Window
    BY <2>1, WindowOfTime
  <2>3. /\ counter' = [counter EXCEPT ![w] = counter[w] + 1]
        /\ passed' = IF ok THEN [passed EXCEPT ![w] = passed[w] + 1] ELSE passed
        /\ late' = IF slow THEN late \union {w} ELSE late
        /\ call' = [call EXCEPT ![c] = state]
        /\ UNCHANGED <<clock, expiry, tenantCap>>
    BY <1>4 DEF Count, Allowed
  <2>4. /\ counter[w] \in Nat /\ passed[w] \in Nat /\ call[c].limit \in 1 .. HighestLimit
        /\ clock < Lapses(w) => passed[w] <= counter[w]
        /\ w \notin late => passed[w] <= HighestLimit
        /\ HighestLimit \in Nat
    BY <2>1, <2>2, RateFacts DEF Counted, WindowHolds
  <2>5. ~slow => clock < Lapses(w)
    <3>1. Lapses(w) = w * Window + Ttl /\ call[c].named \in Nat
      BY <2>1, <2>2, LapsesLater
    <3> QED
      BY <1>1, <2>2, <3>1
  <2>6. /\ state \in CallStates /\ state.phase # "named"
        /\ state.phase = "first" => state.window = w
    <3> DEFINE first == [phase |-> "first", layer |-> l, window |-> w]
    <3>1. first \in CallStates /\ first.phase = "first" /\ first.window = w
      BY <2>1, <2>2 DEF CallStates
    <3>2. Onward(l) \in CallStates /\ Onward(l).phase \in {"done", "limited"}
      BY OnwardIs
    <3> HIDE DEF first, w, l, ok
    <3>3. state \in {first, Onward(l), Done}
      BY DEF first
    <3> QED
      BY <1>1, <3>1, <3>2, <3>3
  <2> HIDE DEF state, w, ok, slow, l
  <2>7. /\ counter' \in [Windows -> Nat] /\ passed' \in [Windows -> Nat]
        /\ counter'[w] = counter[w] + 1
        /\ passed'[w] = IF ok THEN passed[w] + 1 ELSE passed[w]
        /\ \A v \in Windows \ {w} : counter'[v] = counter[v] /\ passed'[v] = passed[v]
    BY <2>2, <2>3, <2>4 DEF Counted
  <2>8. /\ clock < Lapses(w) => passed'[w] <= counter'[w]
        /\ w \notin late' => passed'[w] <= HighestLimit
    <3>1. clock < Lapses(w) => passed'[w] <= counter'[w]
      BY <2>4, <2>7
    <3>2. ASSUME w \notin late' PROVE passed'[w] <= HighestLimit
      <4>1. w \notin late /\ clock < Lapses(w)
        BY <2>3, <2>5, <3>2
      <4>2. CASE ok
        <5>1. counter[w] + 1 <= call[c].limit
          BY <4>2 DEF ok
        <5> QED
          BY <2>4, <2>7, <4>1, <5>1
      <4>3. CASE ~ok
        BY <2>4, <2>7, <4>1, <4>3
      <4> QED
        BY <4>2, <4>3
    <3> QED
      BY <3>1, <3>2
  <2>9. /\ call' \in [Calls -> CallStates] /\ call'[c] = state
        /\ \A d \in Calls \ {c} : call'[d] = call[d]
    BY <2>3, <2>6 DEF Counted
  <2>10. /\ \A d \in Calls : call'[d].phase = "named" => call'[d].named <= clock'
         /\ \A d \in Calls : call'[d].phase = "first" => call'[d].window * Window <= clock'
    <3>1. w * Window <= clock
      BY <1>1, <2>1, <2>2
    <3> QED
      BY <2>3, <2>6, <2>9, <3>1 DEF Counted
  <2>11. /\ \A v \in Windows : clock' < Lapses(v)' => passed'[v] <= counter'[v]
         /\ \A v \in Windows : expiry'[v] > 0 => Lapses(v)' <= expiry'[v]
    BY <2>3, <2>7, <2>8 DEF Counted, Lapses
  <2>12. WindowHolds'
    BY <2>3, <2>7, <2>8 DEF Counted, WindowHolds, HighestLimit
  <2> QED
    BY <2>3, <2>7, <2>9, <2>10, <2>11, <2>12 DEF Counted
<1>5. ASSUME NEW c \in Calls, SetExpiry(c)
      PROVE  Counted'
  <2> DEFINE w == call[c].window
             state == Onward(call[c].layer)
  <2>1. /\ call[c] \in [phase : {"first"}, layer : Layers \union {"middleware"},
                        window : Windows]
        /\ w \in Windows /\ w * Window <= clock
    BY <1>5 DEF SetExpiry, Counted, CallStates, Done
  <2>2. state \in CallStates /\ state.phase \in {"done", "limited"}
    BY OnwardIs
  <2>3. /\ expiry' = [expiry EXCEPT ![w] = clock + Ttl]
        /\ call' = [call EXCEPT ![c] = state]
        /\ UNCHANGED <<clock, counter, tenantCap, passed, late>>
    BY <1>5 DEF SetExpiry, Deadline
  <2> HIDE DEF w, state
  <2>4. Lapses(w) <= clock + Ttl /\ clock + Ttl \in Nat
    BY <1>1, <2>1, LapsesLater
  <2>5. /\ expiry' \in [Windows -> Nat]
        /\ \A v \in Windows : expiry'[v] > 0 => Lapses(v)' <= expiry'[v]
    BY <2>1, <2>3, <2>4 DEF Counted, Lapses
  <2>6. /\ call' \in [Calls -> CallStates]
        /\ \A d \in Calls : call'[d].phase = "named" => call'[d].named <= clock'
        /\ \A d \in Calls : call'[d].phase = "first" => call'[d].window * Window <= clock'
    BY <2>2, <2>3 DEF Counted
  <2>7. /\ \A v \in Windows : clock' < Lapses(v)' => passed'[v] <= counter'[v]
        /\ WindowHolds'
    BY <2>3 DEF Counted, Lapses, WindowHolds, HighestLimit
  <2> QED
    BY <2>3, <2>5, <2>6, <2>7 DEF Counted
<1>6. ASSUME NEW c \in Calls, FailOpen(c)
      PROVE  Counted'
  <2>1. /\ Onward(call[c].layer) \in CallStates
        /\ Onward(call[c].layer).phase \in {"done", "limited"}
    BY OnwardIs
  <2> QED
    BY <1>6, <2>1, CallMoves DEF FailOpen
<1>7. ASSUME NEW w \in Windows, ExpireCounter(w)
      PROVE  Counted'
  <2>1. /\ counter' = [counter EXCEPT ![w] = 0] /\ expiry' = [expiry EXCEPT ![w] = 0]
        /\ expiry[w] > 0 /\ clock >= expiry[w]
        /\ UNCHANGED <<clock, tenantCap, call, passed, late>>
    BY <1>7 DEF ExpireCounter
  <2>2. Lapses(w) <= clock
    BY <1>1, <2>1, LapsesLater DEF Counted
  <2>3. /\ counter' \in [Windows -> Nat] /\ counter'[w] = 0
        /\ expiry' \in [Windows -> Nat] /\ expiry'[w] = 0
        /\ \A v \in Windows \ {w} : counter'[v] = counter[v] /\ expiry'[v] = expiry[v]
    BY <2>1 DEF Counted
  <2>4. \A v \in Windows : Lapses(v)' = Lapses(v) /\ Lapses(v) \in Nat
    BY LapsesLater DEF Lapses
  <2>5. /\ \A v \in Windows : clock' < Lapses(v)' => passed'[v] <= counter'[v]
        /\ \A v \in Windows : expiry'[v] > 0 => Lapses(v)' <= expiry'[v]
    BY <1>1, <2>1, <2>2, <2>3, <2>4 DEF Counted
  <2> QED
    BY <2>1, <2>3, <2>5 DEF Counted, WindowHolds, HighestLimit
<1>8. CASE Tick
  <2>1. /\ clock' \in 0 .. MaxClock /\ clock' = clock + 1
        /\ UNCHANGED <<counter, expiry, tenantCap, call, passed, late>>
    BY <1>1, <1>8 DEF Tick
  <2>2. /\ \A c \in Calls : call[c].phase = "named" => call[c].named \in Nat
        /\ \A c \in Calls : call[c].phase = "first" => call[c].window \in Windows
    BY DEF Counted, CallStates, Done
  <2>3. /\ \A c \in Calls : call'[c].phase = "named" => call'[c].named <= clock'
        /\ \A c \in Calls : call'[c].phase = "first" => call'[c].window * Window <= clock'
    BY <1>1, <2>1, <2>2, LapsesLater DEF Counted
  <2>4. \A w \in Windows : clock' < Lapses(w)' => passed'[w] <= counter'[w]
    BY <1>1, <2>1, LapsesLater DEF Counted, Lapses
  <2>5. \A w \in Windows : expiry'[w] > 0 => Lapses(w)' <= expiry'[w]
    BY <2>1 DEF Counted, Lapses
  <2> QED
    BY <2>1, <2>3, <2>4, <2>5 DEF Counted, WindowHolds, HighestLimit
<1>9. CASE Hydrate \/ ExpireLimit \/ UNCHANGED rateVars
  BY <1>9 DEF Hydrate, ExpireLimit, rateVars, Counted, WindowHolds, HighestLimit, Lapses
<1> QED
  BY <1>2, <1>3, <1>4, <1>5, <1>6, <1>7, <1>8, <1>9 DEF RateNext

\* Gateway and middleware together let no more requests through the counters of a
\* window than the highest limit in force, unless one counts later than a counter
\* outlives its window - for any number of requests and windows, any limits, and
\* any lengths of the window and of the counter's life (edge_rate_limit.py:108-153).
THEOREM WindowsHold == RateSpec => []WindowHolds
<1>1. Counted => WindowHolds
  BY DEF Counted
<1> QED
  BY <1>1, CountedInit, CountedStep, PTL DEF RateSpec

(***************************************************************************)
(* ScimUsers                                                               *)
(***************************************************************************)

ScimStates ==
  {Quiet}
  \union [phase : {"create"}, u : Users, row : [email : Emails, status : {"active", "suspended"}]]
  \union [phase : {"patch"}, u : Users, status : {"active", "suspended"}]
  \union [phase : {"key"}, u : Users, key : KeyRows]
  \union [phase : {"suspend"}, u : Users, had : SUBSET KeyRows]
  \union [phase : {"list"}, u : Users, had : SUBSET KeyRows, keys : SUBSET KeyRows]
  \union [phase : {"revoke", "close"}, u : Users, had : SUBSET KeyRows, keys : SUBSET KeyRows,
          listed : SUBSET Logins, todo : SUBSET Logins]

Suspending(state) == state.phase \in {"suspend", "list", "revoke", "close"}
Ending(state) == state.phase \in {"revoke", "close"}

\* A key on its way to be committed is nobody's, and was nobody's when a
\* deprovisioning began.
KeyOnItsWay(r) ==
  scimRequest[r].phase = "key" =>
    /\ scimRequest[r].key \in spent
    /\ \A e \in suspensions : scimRequest[r].key \notin e.keys
    /\ \A u \in Users : scimRequest[r].key \notin ownKeys[u]
    /\ \A q \in ScimRequests :
         /\ Suspending(scimRequest[q]) => scimRequest[r].key \notin scimRequest[q].had
         /\ q # r /\ scimRequest[q].phase = "key" => scimRequest[q].key # scimRequest[r].key

\* The keys a deprovisioning has in its hands, ...
KeysInHand(state) ==
  Suspending(state) =>
    /\ state.had \subseteq spent
    /\ state.phase # "suspend" => state.had \intersect ownKeys[state.u] \subseteq state.keys

\* ... and the sessions it has ended, or will.
SessionsInHand(state) ==
  Ending(state) =>
    /\ state.listed \subseteq spent
    /\ state.phase = "revoke" =>
         state.listed \intersect ownFamilies[state.u] \subseteq state.todo \union revived
    /\ state.phase = "close" =>
         state.listed \intersect ownFamilies[state.u] \subseteq revived

\* What is inductive, of the keys ...
KeysEnd ==
  /\ ownKeys \in [Users -> SUBSET KeyRows]
  /\ \A u \in Users : ownKeys[u] \subseteq spent
  /\ \A e \in suspensions : e.keys \subseteq spent /\ ownKeys[e.u] \intersect e.keys = {}
  /\ \A r \in ScimRequests : KeyOnItsWay(r) /\ KeysInHand(scimRequest[r])

\* ... and of the sessions.
SessionsEnd ==
  /\ ownFamilies \in [Users -> SUBSET Logins] /\ familyList \in [Users -> SUBSET Logins]
  /\ \A u \in Users : ownFamilies[u] \subseteq spent /\ familyList[u] \subseteq spent
  /\ \A m \in rotating : m[2] \in spent
  /\ \A e \in suspensions : /\ e.families \subseteq spent
                            /\ ownFamilies[e.u] \intersect e.families \subseteq revived
  /\ \A r \in ScimRequests : SessionsInHand(scimRequest[r])

Deprovisioning ==
  /\ scimRequest \in [ScimRequests -> ScimStates]
  /\ \A e \in suspensions : e.u \in Users
  /\ KeysEnd /\ SessionsEnd

LEMMA DeprovisioningInit == ScimInit => Deprovisioning
<1> SUFFICES ASSUME ScimInit PROVE Deprovisioning
  OBVIOUS
<1>1. /\ scimRequest \in [ScimRequests -> ScimStates]
      /\ \A r \in ScimRequests : scimRequest[r].phase = "quiet"
  BY DEF ScimInit, ScimStates, Quiet
<1>2. KeysEnd
  BY <1>1 DEF ScimInit, KeysEnd, KeyOnItsWay, KeysInHand, Suspending
<1>3. SessionsEnd
  BY <1>1 DEF ScimInit, SessionsEnd, SessionsInHand, Ending
<1> QED
  BY <1>1, <1>2, <1>3 DEF Deprovisioning, ScimInit

\* What a request in a phase holds.
LEMMA ScimForms ==
  ASSUME Deprovisioning, NEW r \in ScimRequests
  PROVE  /\ scimRequest[r].phase = "key" =>
              scimRequest[r] \in [phase : {"key"}, u : Users, key : KeyRows]
         /\ scimRequest[r].phase = "suspend" =>
              scimRequest[r] \in [phase : {"suspend"}, u : Users, had : SUBSET KeyRows]
         /\ scimRequest[r].phase = "list" =>
              scimRequest[r] \in [phase : {"list"}, u : Users, had : SUBSET KeyRows,
                                  keys : SUBSET KeyRows]
         /\ Ending(scimRequest[r]) =>
              scimRequest[r] \in [phase : {"revoke", "close"}, u : Users, had : SUBSET KeyRows,
                                  keys : SUBSET KeyRows, listed : SUBSET Logins,
                                  todo : SUBSET Logins]
         /\ Suspending(scimRequest[r]) => scimRequest[r].u \in Users
  BY DEF Deprovisioning, ScimStates, Quiet, Ending, Suspending

\* A request changes to a state that has its keys in hand; the keys stay.
LEMMA KeysStay ==
  ASSUME Deprovisioning, NEW r \in ScimRequests, NEW state \in ScimStates,
         scimRequest' = [scimRequest EXCEPT ![r] = state], state.phase # "key",
         UNCHANGED <<ownKeys, spent, suspensions>>,
         Suspending(state) =>
           \A q \in ScimRequests : scimRequest[q].phase = "key" => scimRequest[q].key \notin state.had,
         KeysInHand(state)
  PROVE  KeysEnd'
<1>1. /\ scimRequest'[r] = state
      /\ \A q \in ScimRequests \ {r} : scimRequest'[q] = scimRequest[q]
  BY DEF Deprovisioning
<1>2. \A q \in ScimRequests : KeyOnItsWay(q)'
  BY <1>1 DEF Deprovisioning, KeysEnd, KeyOnItsWay
<1>3. \A q \in ScimRequests : KeysInHand(scimRequest[q])'
  BY <1>1 DEF Deprovisioning, KeysEnd, KeysInHand
<1> QED
  BY <1>2, <1>3 DEF Deprovisioning, KeysEnd

\* A request changes to a state that has its sessions in hand; the sessions stay.
LEMMA SessionsStay ==
  ASSUME Deprovisioning, NEW r \in ScimRequests, NEW state \in ScimStates,
         scimRequest' = [scimRequest EXCEPT ![r] = state],
         UNCHANGED <<ownFamilies, familyList, rotating, revived, suspensions>>,
         spent \subseteq spent', SessionsInHand(state)
  PROVE  SessionsEnd'
<1>1. /\ scimRequest'[r] = state
      /\ \A q \in ScimRequests \ {r} : scimRequest'[q] = scimRequest[q]
  BY DEF Deprovisioning
<1>2. \A q \in ScimRequests : SessionsInHand(scimRequest[q])'
  BY <1>1 DEF Deprovisioning, SessionsEnd, SessionsInHand
<1> QED
  BY <1>2 DEF Deprovisioning, SessionsEnd

LEMMA RequestsStayTyped ==
  ASSUME Deprovisioning, NEW r \in ScimRequests, NEW state \in ScimStates,
         scimRequest' = [scimRequest EXCEPT ![r] = state]
  PROVE  scimRequest' \in [ScimRequests -> ScimStates]
  BY DEF Deprovisioning

\* A request that neither suspends nor brings a key, and writes no key or session.
LEMMA ScimMoves ==
  ASSUME Deprovisioning, NEW r \in ScimRequests, NEW state \in ScimStates,
         scimRequest' = [scimRequest EXCEPT ![r] = state], state.phase # "key",
         ~Suspending(state), UNCHANGED <<ownKeys, sessionVars, spent, suspensions>>
  PROVE  Deprovisioning'
<1>1. ~Ending(state)
  BY DEF Ending, Suspending
<1>2. KeysEnd'
  BY KeysStay DEF KeysInHand, sessionVars
<1>3. SessionsEnd'
  BY <1>1, SessionsStay DEF SessionsInHand, sessionVars
<1> QED
  BY <1>2, <1>3, RequestsStayTyped DEF Deprovisioning

LEMMA DeprovisioningStep ==
  ASSUME Deprovisioning, [ScimNext]_scimVars
  PROVE  Deprovisioning'
<1>1. /\ \A u \in Users : /\ ownKeys[u] \subseteq spent /\ ownKeys[u] \subseteq KeyRows
                          /\ ownFamilies[u] \subseteq spent /\ ownFamilies[u] \subseteq Logins
                          /\ familyList[u] \subseteq spent /\ familyList[u] \subseteq Logins
      /\ \A r \in ScimRequests : /\ KeyOnItsWay(r) /\ KeysInHand(scimRequest[r])
                                 /\ SessionsInHand(scimRequest[r])
  BY DEF Deprovisioning, KeysEnd, SessionsEnd
<1>2. Quiet \in ScimStates /\ Quiet.phase = "quiet" /\ ~Suspending(Quiet) /\ ~Ending(Quiet)
  BY DEF ScimStates, Quiet, Suspending, Ending
<1>3. ASSUME NEW r \in ScimRequests, NEW u \in Users, NEW e \in Emails, NEW active \in BOOLEAN,
             BeginCreateUser(r, u, e, active)
      PROVE  Deprovisioning'
  <2> DEFINE state == [phase |-> "create", u |-> u,
                row |-> [email |-> e, status |-> IF active THEN "active" ELSE "suspended"]]
  <2>1. state \in ScimStates /\ state.phase # "key" /\ ~Suspending(state)
    BY DEF ScimStates, Suspending
  <2>2. /\ scimRequest' = [scimRequest EXCEPT ![r] = state]
        /\ UNCHANGED <<ownKeys, sessionVars, spent, suspensions>>
    BY <1>3 DEF BeginCreateUser, Enters
  <2> HIDE DEF state
  <2> QED
    BY <2>1, <2>2, ScimMoves
<1>4. ASSUME NEW r \in ScimRequests, NEW u \in Users, NEW status \in {"active", "suspended"},
             BeginPatch(r, u, status)
      PROVE  Deprovisioning'
  <2> DEFINE state == [phase |-> "patch", u |-> u, status |-> status]
  <2>1. state \in ScimStates /\ state.phase # "key" /\ ~Suspending(state)
    BY DEF ScimStates, Suspending
  <2>2. /\ scimRequest' = [scimRequest EXCEPT ![r] = state]
        /\ UNCHANGED <<ownKeys, sessionVars, spent, suspensions>>
    BY <1>4 DEF BeginPatch, Enters
  <2> HIDE DEF state
  <2> QED
    BY <2>1, <2>2, ScimMoves
<1>5. ASSUME NEW r \in ScimRequests,
             CommitCreateUser(r) \/ CommitPatch(r) \/ AbandonRequest(r)
      PROVE  Deprovisioning'
  <2>1. /\ scimRequest' = [scimRequest EXCEPT ![r] = Quiet]
        /\ UNCHANGED <<ownKeys, sessionVars, spent, suspensions>>
    BY <1>5 DEF CommitCreateUser, CommitPatch, AbandonRequest, Proceeds
  <2> QED
    BY <1>2, <2>1, ScimMoves
<1>6. ASSUME NEW r \in ScimRequests, NEW u \in Users, BeginSuspend(r, u)
      PROVE  Deprovisioning'
  <2> DEFINE state == [phase |-> "suspend", u |-> u, had |-> ownKeys[u]]
  <2>1. state \in ScimStates /\ state.phase = "suspend" /\ state.had = ownKeys[u]
    BY <1>1 DEF ScimStates
  <2>2. /\ scimRequest' = [scimRequest EXCEPT ![r] = state]
        /\ UNCHANGED <<ownKeys, sessionVars, spent, suspensions>>
    BY <1>6 DEF BeginSuspend, Enters
  <2> HIDE DEF state
  <2>3. /\ KeysInHand(state) /\ SessionsInHand(state)
        /\ \A q \in ScimRequests : scimRequest[q].phase = "key" => scimRequest[q].key \notin state.had
    BY <1>1, <2>1 DEF KeysInHand, SessionsInHand, Ending, KeyOnItsWay
  <2>4. KeysEnd'
    BY <2>1, <2>2, <2>3, KeysStay
  <2>5. SessionsEnd'
    BY <2>1, <2>2, <2>3, SessionsStay DEF sessionVars
  <2> QED
    BY <2>1, <2>2, <2>4, <2>5, RequestsStayTyped DEF Deprovisioning
<1>7. ASSUME NEW r \in ScimRequests, NEW e \in Emails, BeginDeprovision(r, e)
      PROVE  Deprovisioning'
  BY <1>6, <1>7 DEF BeginDeprovision, WithEmail
\* What a deprovisioning has in its hands is nobody's key on its way.
<1>8. ASSUME NEW r \in ScimRequests, Suspending(scimRequest[r])
      PROVE  /\ scimRequest[r].had \subseteq spent
             /\ \A q \in ScimRequests : scimRequest[q].phase = "key" =>
                                          scimRequest[q].key \notin scimRequest[r].had
  BY <1>1, <1>8 DEF KeyOnItsWay, KeysInHand
<1>9. ASSUME NEW r \in ScimRequests, RevokeKeys(r)
      PROVE  Deprovisioning'
  <2> DEFINE q == scimRequest[r]
             state == [phase |-> "list", u |-> q.u, had |-> q.had, keys |-> ownKeys[q.u]]
  <2>1. q \in [phase : {"suspend"}, u : Users, had : SUBSET KeyRows] /\ Suspending(q)
    BY <1>9, ScimForms DEF RevokeKeys, Proceeds, Suspending
  <2>2. /\ state \in ScimStates /\ state.phase = "list" /\ state.u = q.u
        /\ state.had = q.had /\ state.keys = ownKeys[q.u]
    BY <1>1, <2>1 DEF ScimStates
  <2>3. /\ scimRequest' = [scimRequest EXCEPT ![r] = state]
        /\ UNCHANGED <<ownKeys, sessionVars, spent, suspensions>>
    BY <1>9 DEF RevokeKeys, Proceeds
  <2> HIDE DEF state
  <2>4. KeysInHand(state) /\ SessionsInHand(state)
    BY <1>8, <2>1, <2>2 DEF KeysInHand, SessionsInHand, Ending
  <2>5. KeysEnd'
    BY <1>8, <2>1, <2>2, <2>3, <2>4, KeysStay
  <2>6. SessionsEnd'
    BY <2>2, <2>3, <2>4, SessionsStay DEF sessionVars
  <2> QED
    BY <2>2, <2>3, <2>5, <2>6, RequestsStayTyped DEF Deprovisioning
<1>10. ASSUME NEW r \in ScimRequests, ListFamilies(r)
       PROVE  Deprovisioning'
  <2> DEFINE q == scimRequest[r]
             state == [phase |-> "revoke", u |-> q.u, had |-> q.had, keys |-> q.keys,
                       listed |-> familyList[q.u], todo |-> familyList[q.u]]
  <2>1. q \in [phase : {"list"}, u : Users, had : SUBSET KeyRows, keys : SUBSET KeyRows]
        /\ Suspending(q) /\ q.phase = "list"
    BY <1>10, ScimForms DEF ListFamilies, Proceeds, Suspending
  <2>2. /\ state \in ScimStates /\ state.phase = "revoke" /\ state.u = q.u
        /\ state.had = q.had /\ state.keys = q.keys
        /\ state.listed = familyList[q.u] /\ state.todo = familyList[q.u]
    BY <1>1, <2>1 DEF ScimStates
  <2>3. /\ scimRequest' = [scimRequest EXCEPT ![r] = state]
        /\ UNCHANGED <<ownKeys, sessionVars, spent, suspensions>>
    BY <1>10 DEF ListFamilies, Proceeds
  <2>4. KeysInHand(q)
    BY <1>1
  <2> HIDE DEF state
  <2>5. KeysInHand(state)
    BY <2>1, <2>2, <2>4 DEF KeysInHand
  <2>6. SessionsInHand(state)
    BY <1>1, <2>1, <2>2 DEF SessionsInHand
  <2>7. KeysEnd'
    BY <1>8, <2>1, <2>2, <2>3, <2>5, KeysStay
  <2>8. SessionsEnd'
    BY <2>2, <2>3, <2>6, SessionsStay DEF sessionVars
  <2> QED
    BY <2>2, <2>3, <2>7, <2>8, RequestsStayTyped DEF Deprovisioning
<1>11. ASSUME NEW r \in ScimRequests, NEW f \in Logins, EndFamily(r, f)
       PROVE  Deprovisioning'
  <2> DEFINE q == scimRequest[r]
             state == [q EXCEPT !.todo = q.todo \ {f}]
             U == q.u
  <2>1. /\ q \in [phase : {"revoke", "close"}, u : Users, had : SUBSET KeyRows,
                  keys : SUBSET KeyRows, listed : SUBSET Logins, todo : SUBSET Logins]
        /\ q.phase = "revoke" /\ Suspending(q) /\ U \in Users
    BY <1>11, ScimForms DEF EndFamily, Ending, Suspending
  <2>2. /\ state \in ScimStates /\ state.phase = "revoke" /\ state.u = U
        /\ state.had = q.had /\ state.keys = q.keys
        /\ state.listed = q.listed /\ state.todo = q.todo \ {f}
    BY <2>1 DEF ScimStates
  <2>3. /\ scimRequest' = [scimRequest EXCEPT ![r] = state]
        /\ ownFamilies' = [ownFamilies EXCEPT ![U] = ownFamilies[U] \ {f}]
        /\ UNCHANGED <<ownKeys, familyList, rotating, spent, suspensions, revived>>
    BY <1>11 DEF EndFamily
  <2>4. KeysInHand(q) /\ SessionsInHand(q)
    BY <1>1
  <2> HIDE DEF state, U
  <2>5. KeysInHand(state)
    BY <2>1, <2>2, <2>4 DEF KeysInHand, U
  <2>6. KeysEnd'
    BY <1>8, <2>1, <2>2, <2>3, <2>5, KeysStay
  <2>7. /\ ownFamilies' \in [Users -> SUBSET Logins]
        /\ \A u \in Users : ownFamilies'[u] \subseteq ownFamilies[u]
        /\ f \notin ownFamilies'[U]
    BY <1>1, <2>1, <2>3 DEF Deprovisioning, SessionsEnd
  <2>8. /\ scimRequest'[r] = state
        /\ \A p \in ScimRequests \ {r} : scimRequest'[p] = scimRequest[p]
    BY <2>3 DEF Deprovisioning
  <2>9. SessionsInHand(scimRequest[r])'
    <3>1. q.listed \subseteq spent /\ q.listed \intersect ownFamilies[U] \subseteq q.todo \union revived
      BY <2>1, <2>4 DEF SessionsInHand, Ending, U
    <3>2. state.listed \intersect ownFamilies'[state.u] \subseteq state.todo \union revived'
      BY <2>1, <2>2, <2>3, <2>7, <3>1
    <3> QED
      BY <2>2, <2>3, <2>8, <3>1, <3>2 DEF SessionsInHand
  <2>10. \A p \in ScimRequests \ {r} : SessionsInHand(scimRequest[p])'
    <3> SUFFICES ASSUME NEW p \in ScimRequests \ {r}, Ending(scimRequest[p])
                 PROVE  SessionsInHand(scimRequest[p])'
      BY <2>8 DEF SessionsInHand
    <3>1. scimRequest[p].u \in Users
      BY ScimForms DEF Ending, Suspending
    <3> QED
      BY <1>1, <2>3, <2>7, <2>8, <3>1 DEF SessionsInHand
  <2>11. SessionsEnd'
    BY <2>3, <2>7, <2>9, <2>10 DEF Deprovisioning, SessionsEnd
  <2> QED
    BY <2>2, <2>3, <2>6, <2>11, RequestsStayTyped DEF Deprovisioning
<1>12. ASSUME NEW r \in ScimRequests, PublishSuspended(r)
       PROVE  Deprovisioning'
  <2> DEFINE q == scimRequest[r]
             state == [q EXCEPT !.phase = "close"]
             U == q.u
  <2>1. /\ q \in [phase : {"revoke", "close"}, u : Users, had : SUBSET KeyRows,
                  keys : SUBSET KeyRows, listed : SUBSET Logins, todo : SUBSET Logins]
        /\ q.phase = "revoke" /\ q.todo = {} /\ Suspending(q) /\ U \in Users
    BY <1>12, ScimForms
       DEF PublishSuspended, Proceeds, SessionsEnded, Ending, Suspending
  <2>2. /\ state \in ScimStates /\ state.phase = "close" /\ state.u = U
        /\ state.had = q.had /\ state.keys = q.keys /\ state.listed = q.listed
    BY <2>1 DEF ScimStates
  <2>3. /\ scimRequest' = [scimRequest EXCEPT ![r] = state]
        /\ familyList' = IF q.listed = {} THEN familyList ELSE [familyList EXCEPT ![U] = {}]
        /\ UNCHANGED <<ownKeys, ownFamilies, rotating, spent, suspensions, revived>>
    BY <1>12 DEF PublishSuspended, Proceeds
  <2>4. KeysInHand(q) /\ SessionsInHand(q)
    BY <1>1
  <2> HIDE DEF state, U
  <2>5. KeysInHand(state)
    BY <2>1, <2>2, <2>4 DEF KeysInHand, U
  <2>6. KeysEnd'
    BY <1>8, <2>1, <2>2, <2>3, <2>5, KeysStay
  <2>7. SessionsInHand(state)
    BY <2>1, <2>2, <2>4 DEF SessionsInHand, Ending, U
  <2>8. /\ scimRequest'[r] = state
        /\ \A p \in ScimRequests \ {r} : scimRequest'[p] = scimRequest[p]
    BY <2>3 DEF Deprovisioning
  <2>9. \A p \in ScimRequests : SessionsInHand(scimRequest[p])'
    BY <1>1, <2>3, <2>7, <2>8 DEF SessionsInHand
  <2>10. /\ familyList' \in [Users -> SUBSET Logins]
         /\ \A u \in Users : familyList'[u] \subseteq spent
    BY <1>1, <2>1, <2>3 DEF Deprovisioning, SessionsEnd
  <2>11. SessionsEnd'
    BY <2>3, <2>9, <2>10 DEF Deprovisioning, SessionsEnd
  <2> QED
    BY <2>2, <2>3, <2>6, <2>11, RequestsStayTyped DEF Deprovisioning
<1>13. ASSUME NEW r \in ScimRequests, CommitSuspend(r)
       PROVE  Deprovisioning'
  <2> DEFINE q == scimRequest[r]
             U == q.u
             event == [u |-> U, keys |-> q.had, families |-> q.listed]
  <2>1. /\ q \in [phase : {"revoke", "close"}, u : Users, had : SUBSET KeyRows,
                  keys : SUBSET KeyRows, listed : SUBSET Logins, todo : SUBSET Logins]
        /\ q.phase = "close" /\ Suspending(q) /\ Ending(q) /\ U \in Users
    BY <1>13, ScimForms DEF CommitSuspend, Proceeds, Ending, Suspending
  <2>2. /\ scimRequest' = [scimRequest EXCEPT ![r] = Quiet]
        /\ ownKeys' = [ownKeys EXCEPT ![U] = ownKeys[U] \ q.keys]
        /\ suspensions' = suspensions \union {event}
        /\ UNCHANGED <<ownFamilies, familyList, rotating, revived, spent>>
    BY <1>13 DEF CommitSuspend, Proceeds, sessionVars
  <2>3. /\ q.had \subseteq spent /\ q.had \intersect ownKeys[U] \subseteq q.keys
        /\ q.listed \subseteq spent /\ q.listed \intersect ownFamilies[U] \subseteq revived
    BY <1>1, <2>1 DEF KeysInHand, SessionsInHand
  <2>4. event.u = U /\ event.keys = q.had /\ event.families = q.listed
    OBVIOUS
  <2>5. \A p \in ScimRequests : scimRequest[p].phase = "key" => scimRequest[p].key \notin q.had
    BY <1>8, <2>1
  <2> HIDE DEF U, event
  <2>6. /\ scimRequest' \in [ScimRequests -> ScimStates] /\ scimRequest'[r] = Quiet
        /\ \A p \in ScimRequests \ {r} : scimRequest'[p] = scimRequest[p]
    BY <1>2, <2>2 DEF Deprovisioning
  <2>7. /\ ownKeys' \in [Users -> SUBSET KeyRows]
        /\ \A u \in Users : ownKeys'[u] \subseteq ownKeys[u]
        /\ q.had \intersect ownKeys'[U] = {}
    BY <1>1, <2>1, <2>2, <2>3 DEF Deprovisioning, KeysEnd
  <2>8. \A p \in ScimRequests : KeyOnItsWay(p)'
    BY <1>1, <1>2, <2>2, <2>4, <2>5, <2>6, <2>7 DEF KeyOnItsWay
  <2>9. \A p \in ScimRequests : KeysInHand(scimRequest[p])'
    <3> SUFFICES ASSUME NEW p \in ScimRequests, Suspending(scimRequest'[p])
                 PROVE  KeysInHand(scimRequest[p])'
      BY DEF KeysInHand
    <3>1. p # r /\ scimRequest'[p] = scimRequest[p]
      BY <1>2, <2>6
    <3>2. Suspending(scimRequest[p]) /\ scimRequest[p].u \in Users
      BY <3>1, ScimForms
    <3> QED
      BY <1>1, <2>2, <2>7, <3>1, <3>2 DEF KeysInHand
  <2>10. \A e \in suspensions' : /\ e.u \in Users
                                 /\ e.keys \subseteq spent /\ ownKeys'[e.u] \intersect e.keys = {}
                                 /\ e.families \subseteq spent
                                 /\ ownFamilies[e.u] \intersect e.families \subseteq revived
    <3> SUFFICES ASSUME NEW e \in suspensions'
                 PROVE  /\ e.u \in Users
                        /\ e.keys \subseteq spent /\ ownKeys'[e.u] \intersect e.keys = {}
                        /\ e.families \subseteq spent
                        /\ ownFamilies[e.u] \intersect e.families \subseteq revived
      OBVIOUS
    <3>1. CASE e = event
      BY <2>1, <2>3, <2>4, <2>7, <3>1
    <3>2. CASE e \in suspensions
      BY <2>7, <3>2 DEF Deprovisioning, KeysEnd, SessionsEnd
    <3> QED
      BY <2>2, <3>1, <3>2
  <2>11. KeysEnd'
    BY <1>1, <2>2, <2>7, <2>8, <2>9, <2>10 DEF KeysEnd
  <2>12. \A p \in ScimRequests : SessionsInHand(scimRequest[p])'
    BY <1>1, <1>2, <2>2, <2>6 DEF SessionsInHand
  <2>13. SessionsEnd'
    BY <2>2, <2>10, <2>12 DEF Deprovisioning, SessionsEnd
  <2> QED
    BY <2>6, <2>10, <2>11, <2>13 DEF Deprovisioning
<1>14. ASSUME NEW u \in Users, NEW k \in KeyRows, NEW r \in ScimRequests, BeginKey(r, u, k)
       PROVE  Deprovisioning'
  <2> DEFINE state == [phase |-> "key", u |-> u, key |-> k]
  <2>1. /\ state \in ScimStates /\ ~Suspending(state) /\ ~Ending(state)
        /\ state.phase = "key" /\ state.key = k
    BY DEF ScimStates, Suspending, Ending
  <2>2. /\ scimRequest' = [scimRequest EXCEPT ![r] = state]
        /\ k \notin spent /\ spent' = spent \union {k}
        /\ UNCHANGED <<ownKeys, ownFamilies, familyList, rotating, revived, suspensions>>
    BY <1>14 DEF BeginKey, Enters, sessionVars
  <2> HIDE DEF state
  <2>3. /\ scimRequest' \in [ScimRequests -> ScimStates] /\ scimRequest'[r] = state
        /\ \A q \in ScimRequests \ {r} : scimRequest'[q] = scimRequest[q]
    BY <2>1, <2>2 DEF Deprovisioning
  <2>4. /\ \A e \in suspensions : k \notin e.keys
        /\ \A v \in Users : k \notin ownKeys[v]
        /\ \A q \in ScimRequests : Suspending(scimRequest[q]) => k \notin scimRequest[q].had
        /\ \A q \in ScimRequests : scimRequest[q].phase = "key" => scimRequest[q].key # k
    BY <1>1, <1>8, <2>2 DEF Deprovisioning, KeysEnd, KeyOnItsWay
  <2>5. \A q \in ScimRequests : KeyOnItsWay(q)'
    <3> SUFFICES ASSUME NEW q \in ScimRequests PROVE KeyOnItsWay(q)'
      OBVIOUS
    <3>1. CASE q = r
      BY <2>1, <2>2, <2>3, <2>4, <3>1 DEF KeyOnItsWay
    <3>2. CASE q # r
      BY <1>1, <2>1, <2>2, <2>3, <2>4, <3>2 DEF KeyOnItsWay
    <3> QED
      BY <3>1, <3>2
  <2>6. \A q \in ScimRequests : KeysInHand(scimRequest[q])'
    BY <1>1, <2>1, <2>2, <2>3 DEF KeysInHand
  <2>7. KeysEnd'
    BY <2>2, <2>5, <2>6 DEF Deprovisioning, KeysEnd
  <2>8. SessionsInHand(state)
    BY <2>1 DEF SessionsInHand
  <2>9. SessionsEnd'
    BY <2>1, <2>2, <2>8, SessionsStay
  <2> QED
    BY <2>2, <2>3, <2>7, <2>9 DEF Deprovisioning
<1>15. ASSUME NEW r \in ScimRequests, CommitKey(r)
       PROVE  Deprovisioning'
  <2> DEFINE U == scimRequest[r].u
             k == scimRequest[r].key
  <2>1. /\ scimRequest[r] \in [phase : {"key"}, u : Users, key : KeyRows]
        /\ scimRequest' = [scimRequest EXCEPT ![r] = Quiet]
        /\ ownKeys' = [ownKeys EXCEPT ![U] = ownKeys[U] \union {k}]
        /\ UNCHANGED <<ownFamilies, familyList, rotating, revived, spent, suspensions>>
    BY <1>15, ScimForms DEF CommitKey, Proceeds, sessionVars
  <2>2. U \in Users /\ k \in KeyRows /\ scimRequest[r].phase = "key"
    BY <2>1
  <2>3. /\ k \in spent /\ \A e \in suspensions : k \notin e.keys
        /\ \A q \in ScimRequests : Suspending(scimRequest[q]) => k \notin scimRequest[q].had
        /\ \A q \in ScimRequests \ {r} : scimRequest[q].phase = "key" => scimRequest[q].key # k
    BY <1>1, <2>2 DEF KeyOnItsWay
  <2> HIDE DEF U, k
  <2>4. /\ scimRequest' \in [ScimRequests -> ScimStates] /\ scimRequest'[r] = Quiet
        /\ \A q \in ScimRequests \ {r} : scimRequest'[q] = scimRequest[q]
    BY <1>2, <2>1 DEF Deprovisioning
  <2>5. /\ ownKeys' \in [Users -> SUBSET KeyRows]
        /\ \A u \in Users : ownKeys'[u] \subseteq ownKeys[u] \union {k}
    BY <1>1, <2>1, <2>2 DEF Deprovisioning, KeysEnd
  <2>6. \A q \in ScimRequests : KeyOnItsWay(q)'
    BY <1>1, <1>2, <2>1, <2>3, <2>4, <2>5 DEF KeyOnItsWay
  <2>7. \A q \in ScimRequests : KeysInHand(scimRequest[q])'
    <3> SUFFICES ASSUME NEW q \in ScimRequests, Suspending(scimRequest'[q])
                 PROVE  KeysInHand(scimRequest[q])'
      BY DEF KeysInHand
    <3>1. q # r /\ scimRequest'[q] = scimRequest[q]
      BY <1>2, <2>4
    <3>2. Suspending(scimRequest[q]) /\ scimRequest[q].u \in Users /\ k \notin scimRequest[q].had
      BY <2>3, <3>1, ScimForms
    <3> QED
      BY <1>1, <2>1, <2>5, <3>1, <3>2 DEF KeysInHand
  <2>8. \A e \in suspensions : ownKeys'[e.u] \intersect e.keys = {}
    BY <2>3, <2>5 DEF Deprovisioning, KeysEnd
  <2>9. \A u \in Users : ownKeys'[u] \subseteq spent
    BY <1>1, <2>3, <2>5
  <2>10. KeysEnd'
    BY <2>1, <2>5, <2>6, <2>7, <2>8, <2>9 DEF Deprovisioning, KeysEnd
  <2>11. SessionsInHand(Quiet)
    BY <1>2 DEF SessionsInHand
  <2>12. SessionsEnd'
    BY <1>2, <2>1, <2>11, SessionsStay
  <2> QED
    BY <2>1, <2>4, <2>10, <2>12 DEF Deprovisioning
\* A new family is on nobody's record.
<1>16. ASSUME NEW u \in Users, NEW f \in Logins, OpenSession(u, f)
       PROVE  Deprovisioning'
  <2>1. /\ f \notin spent /\ spent' = spent \union {f}
        /\ ownFamilies' = [ownFamilies EXCEPT ![u] = ownFamilies[u] \union {f}]
        /\ familyList' = [familyList EXCEPT ![u] = familyList[u] \union {f}]
        /\ UNCHANGED <<ownKeys, rotating, scimRequest, suspensions, revived>>
    BY <1>16 DEF OpenSession
  <2>2. /\ ownFamilies' \in [Users -> SUBSET Logins] /\ familyList' \in [Users -> SUBSET Logins]
        /\ \A v \in Users : /\ ownFamilies'[v] \subseteq ownFamilies[v] \union {f}
                            /\ familyList'[v] \subseteq familyList[v] \union {f}
    BY <1>1, <2>1 DEF Deprovisioning, SessionsEnd
  <2>3. \A r \in ScimRequests : SessionsInHand(scimRequest[r])'
    <3> SUFFICES ASSUME NEW r \in ScimRequests, Ending(scimRequest[r])
                 PROVE  SessionsInHand(scimRequest[r])'
      BY <2>1 DEF SessionsInHand
    <3>1. scimRequest[r].u \in Users /\ f \notin scimRequest[r].listed
      BY <1>1, <2>1, ScimForms DEF SessionsInHand, Ending, Suspending
    <3> QED
      BY <1>1, <2>1, <2>2, <3>1 DEF SessionsInHand
  <2>4. \A e \in suspensions : e.u \in Users /\ f \notin e.families
    BY <2>1 DEF Deprovisioning, SessionsEnd
  <2>5. SessionsEnd'
    BY <1>1, <2>1, <2>2, <2>3, <2>4 DEF Deprovisioning, SessionsEnd
  <2>6. KeysEnd'
    BY <2>1 DEF Deprovisioning, KeysEnd, KeyOnItsWay, KeysInHand
  <2> QED
    BY <2>1, <2>5, <2>6 DEF Deprovisioning
<1>17. ASSUME NEW u \in Users, NEW f \in Logins, StartRotation(u, f)
       PROVE  Deprovisioning'
  <2>1. /\ f \in spent /\ rotating' = rotating \union {<<u, f>>}
        /\ UNCHANGED <<ownKeys, ownFamilies, familyList, spent, scimRequest, suspensions, revived>>
    BY <1>1, <1>17 DEF StartRotation
  <2>2. SessionsEnd'
    BY <2>1 DEF Deprovisioning, SessionsEnd, SessionsInHand
  <2>3. KeysEnd'
    BY <2>1 DEF Deprovisioning, KeysEnd, KeyOnItsWay, KeysInHand
  <2> QED
    BY <2>1, <2>2, <2>3 DEF Deprovisioning
\* A family is in force again, and if it had ended that is on record.
<1>18. ASSUME NEW u \in Users, NEW f \in Logins, FinishRotation(u, f)
       PROVE  Deprovisioning'
  <2>1. /\ <<u, f>> \in rotating /\ rotating' = rotating \ {<<u, f>>}
        /\ ownFamilies' = [ownFamilies EXCEPT ![u] = ownFamilies[u] \union {f}]
        /\ familyList' = [familyList EXCEPT ![u] = familyList[u] \union {f}]
        /\ revived' = IF f \in ownFamilies[u] THEN revived ELSE revived \union {f}
        /\ UNCHANGED <<ownKeys, spent, scimRequest, suspensions>>
    BY <1>18 DEF FinishRotation
  <2>2. f \in spent
    BY <2>1 DEF Deprovisioning, SessionsEnd
  <2>3. /\ ownFamilies' \in [Users -> SUBSET Logins] /\ familyList' \in [Users -> SUBSET Logins]
        /\ \A v \in Users : ownFamilies'[v] \subseteq ownFamilies[v] \union revived'
        /\ \A v \in Users : /\ ownFamilies'[v] \subseteq ownFamilies[v] \union {f}
                            /\ familyList'[v] \subseteq familyList[v] \union {f}
        /\ revived \subseteq revived'
    BY <1>1, <2>1 DEF Deprovisioning, SessionsEnd
  <2>4. \A r \in ScimRequests : SessionsInHand(scimRequest[r])'
    <3> SUFFICES ASSUME NEW r \in ScimRequests, Ending(scimRequest[r])
                 PROVE  SessionsInHand(scimRequest[r])'
      BY <2>1 DEF SessionsInHand
    <3>1. scimRequest[r].u \in Users
      BY ScimForms DEF Ending, Suspending
    <3> QED
      BY <1>1, <2>1, <2>3, <3>1 DEF SessionsInHand
  <2>5. \A e \in suspensions : ownFamilies'[e.u] \intersect e.families \subseteq revived'
    BY <2>3 DEF Deprovisioning, SessionsEnd
  <2>6. SessionsEnd'
    BY <1>1, <2>1, <2>2, <2>3, <2>4, <2>5 DEF Deprovisioning, SessionsEnd
  <2>7. KeysEnd'
    BY <2>1 DEF Deprovisioning, KeysEnd, KeyOnItsWay, KeysInHand
  <2> QED
    BY <2>1, <2>6, <2>7 DEF Deprovisioning
<1>19. ASSUME NEW u \in Users, NEW f \in Logins, ForgetEntry(u, f)
       PROVE  Deprovisioning'
  <2>1. /\ familyList' = [familyList EXCEPT ![u] = familyList[u] \ {f}]
        /\ UNCHANGED <<ownKeys, ownFamilies, rotating, spent, scimRequest, suspensions, revived>>
    BY <1>19 DEF ForgetEntry
  <2>2. SessionsEnd'
    BY <1>1, <2>1 DEF Deprovisioning, SessionsEnd, SessionsInHand
  <2>3. KeysEnd'
    BY <2>1 DEF Deprovisioning, KeysEnd, KeyOnItsWay, KeysInHand
  <2> QED
    BY <2>1, <2>2, <2>3 DEF Deprovisioning
<1>20. CASE UNCHANGED scimVars
  BY <1>20 DEF scimVars, Deprovisioning, KeysEnd, SessionsEnd, KeyOnItsWay, KeysInHand,
               SessionsInHand
<1> QED
  BY <1>3, <1>4, <1>5, <1>6, <1>7, <1>9, <1>10, <1>11, <1>12, <1>13, <1>14, <1>15, <1>16,
     <1>17, <1>18, <1>19, <1>20 DEF ScimNext

\* Once a deprovisioning is on record, the keys its user held when it began are gone
\* and so are the sessions it found on the list, but for those that a rotation under
\* way brought back - for any number of users, keys, sessions and overlapping
\* requests (scim_service.py, suspend_user; refresh_service.py:90-122).
THEOREM DeprovisioningIsWhole == ScimSpec => []DeprovisionIsWhole
<1>1. Deprovisioning => DeprovisionIsWhole
  BY DEF Deprovisioning, KeysEnd, SessionsEnd, DeprovisionIsWhole
<1> QED
  BY <1>1, DeprovisioningInit, DeprovisioningStep, PTL DEF ScimSpec
=============================================================================
