---------------------------- MODULE DoorsProofs -----------------------------
(***************************************************************************)
(* Proofs about what comes in at the platform's doors: uploaded files, new *)
(* tenants, usage events and what connectors fetch, for any number of      *)
(* requests, workers and outages.                                          *)
(***************************************************************************)
EXTENDS UploadDoors, TenantProvisioning, UsageRollup, SourcePlugins, FiniteSetTheorems, TLAPS

(***************************************************************************)
(* UploadDoors                                                             *)
(***************************************************************************)

ServerStates ==
  {Serving}
  \union [phase : {"put", "delay", "look"}, u : Uploads]
  \union [phase : {"copy", "queue"}, u : Uploads, copied : BOOLEAN]

ConsumerStates == {Resting} \union [phase : {"skip", "run"}, u : Uploads]

\* What is inductive: a request that is about to enqueue has its file in storage.
Stored ==
  /\ server \in [Servers -> ServerStates]
  /\ consumer \in [Consumers -> ConsumerStates]
  /\ ready \in [Uploads -> Nat]
  /\ \A s \in Servers : server[s].phase \in {"delay", "queue"} => server[s].u \in objects
  /\ AcceptedIsQueued

LEMMA StoredInit == DoorsInit => Stored
  BY DEF DoorsInit, Stored, ServerStates, ConsumerStates, Serving, Resting,
         AcceptedIsQueued

\* Steps that touch neither messages nor what was promised.
LEMMA RequestMoves ==
  ASSUME Stored, NEW s \in Servers, NEW state \in ServerStates,
         server' = [server EXCEPT ![s] = state] \/ UNCHANGED server,
         objects \subseteq objects',
         state.phase \in {"delay", "queue"} => state.u \in objects',
         UNCHANGED <<ready, consumer, accepted, handled>>
  PROVE  Stored'
<1>1. /\ server' \in [Servers -> ServerStates]
      /\ \A r \in Servers : server'[r].phase \in {"delay", "queue"} => server'[r].u \in objects'
  BY DEF Stored
<1>2. AcceptedIsQueued'
  BY DEF Stored, AcceptedIsQueued, InHand
<1> QED
  BY <1>1, <1>2 DEF Stored

LEMMA StoredEnqueue ==
  ASSUME Stored, NEW s \in Servers, server[s].phase \in {"delay", "queue"},
         server' = [server EXCEPT ![s] = Serving], Enqueue(server[s].u),
         UNCHANGED <<objects, consumer, handled>>
  PROVE  Stored'
<1>1. server[s].u \in objects /\ server[s].u \in Uploads
  BY DEF Stored, ServerStates, Serving
<1>2. /\ server' \in [Servers -> ServerStates]
      /\ \A r \in Servers : server'[r].phase \in {"delay", "queue"} => server'[r].u \in objects'
  BY DEF Stored, ServerStates, Serving
<1>3. ready' \in [Uploads -> Nat] /\ \A u \in Uploads : ready[u] > 0 => ready'[u] > 0
  BY <1>1 DEF Stored, Enqueue
<1>4. ready'[server[s].u] > 0
  BY <1>1 DEF Stored, Enqueue
<1>5. AcceptedIsQueued'
  <2> SUFFICES ASSUME NEW u \in accepted'
               PROVE  u \in objects' /\ (InHand(u)' \/ u \in handled')
    BY DEF AcceptedIsQueued
  <2>1. CASE u = server[s].u
    BY <1>1, <1>4, <2>1 DEF InHand
  <2>2. CASE u \in accepted
    BY <1>3, <2>2 DEF Stored, AcceptedIsQueued, InHand, Enqueue
  <2> QED
    BY <2>1, <2>2 DEF Enqueue
<1> QED
  BY <1>2, <1>3, <1>5 DEF Stored

LEMMA StoredStep ==
  ASSUME Stored, [DoorsNext]_doorVars
  PROVE  Stored'
<1> USE DEF brokerVars
<1>1. Serving \in ServerStates /\ Serving.phase \notin {"delay", "queue"}
  BY DEF ServerStates, Serving
<1>2. Resting \in ConsumerStates /\ Resting.phase \notin {"skip", "run"}
  BY DEF ConsumerStates, Resting
<1>3. \A s \in Servers : server[s] \in ServerStates
  BY DEF Stored
<1>4. ASSUME NEW s \in Servers, NEW u \in Uploads, NEW sample \in Samples,
             BeginUpload(s, u, sample)
      PROVE  Stored'
  <2> DEFINE state == [phase |-> "put", u |-> u]
  <2>1. state \in ServerStates /\ state.phase \notin {"delay", "queue"}
    BY DEF ServerStates
  <2>2. server' = [server EXCEPT ![s] = state]
    BY <1>4 DEF BeginUpload, Serves
  <2> HIDE DEF state
  <2> QED
    BY <1>4, <2>1, <2>2, RequestMoves DEF BeginUpload
<1>5. ASSUME NEW s \in Servers, StoreUpload(s)
      PROVE  Stored'
  <2> DEFINE state == [phase |-> "delay", u |-> server[s].u]
  <2>1. server[s].u \in Uploads
    BY <1>3, <1>5 DEF StoreUpload, Serves, ServerStates, Serving
  <2>2. state \in ServerStates /\ state.u \in objects'
    BY <1>5, <2>1 DEF StoreUpload, ServerStates
  <2>3. server' = [server EXCEPT ![s] = state] /\ objects \subseteq objects'
    BY <1>5 DEF StoreUpload, Serves
  <2> HIDE DEF state
  <2> QED
    BY <1>5, <2>2, <2>3, RequestMoves DEF StoreUpload
<1>6. ASSUME NEW s \in Servers, EnqueueUpload(s) \/ AnswerHook(s)
      PROVE  Stored'
  BY <1>6, StoredEnqueue DEF EnqueueUpload, AnswerHook, Serves
<1>7. ASSUME NEW s \in Servers, DropRequest(s)
      PROVE  Stored'
  BY <1>1, <1>7, RequestMoves DEF DropRequest
<1>8. ASSUME NEW u \in Uploads, NEW sample \in Samples, CreateTusSession(u, sample)
      PROVE  Stored'
  BY <1>8 DEF CreateTusSession, Stored, AcceptedIsQueued, InHand
<1>9. ASSUME NEW u \in Uploads, FinishTus(u)
      PROVE  Stored'
  BY <1>9 DEF FinishTus, Stored, AcceptedIsQueued, InHand
<1>10. ASSUME NEW s \in Servers, NEW u \in Uploads, BeginHook(s, u)
       PROVE  Stored'
  <2> DEFINE state == [phase |-> "look", u |-> u]
  <2>1. state \in ServerStates /\ state.phase \notin {"delay", "queue"}
    BY DEF ServerStates
  <2>2. server' = [server EXCEPT ![s] = state] \/ UNCHANGED server
    BY <1>10 DEF BeginHook
  <2> HIDE DEF state
  <2> QED
    BY <1>10, <2>1, <2>2, RequestMoves DEF BeginHook
<1>11. ASSUME NEW s \in Servers, LookForObject(s)
       PROVE  Stored'
  <2> DEFINE copied == server[s].u \notin objects
             state == [phase |-> IF copied THEN "copy" ELSE "queue", u |-> server[s].u,
                       copied |-> copied]
  <2>1. server[s].u \in Uploads
    BY <1>3, <1>11 DEF LookForObject, Serves, ServerStates, Serving
  <2>2. copied \in BOOLEAN
    OBVIOUS
  <2>3. state \in ServerStates
    <3> HIDE DEF copied
    <3> QED
      BY <2>1, <2>2 DEF ServerStates
  <2>4. state.phase \in {"delay", "queue"} => state.u \in objects
    OBVIOUS
  <2>5. server' = [server EXCEPT ![s] = state]
    BY <1>11 DEF LookForObject, Serves
  <2> HIDE DEF state
  <2> QED
    BY <1>11, <2>3, <2>4, <2>5, RequestMoves DEF LookForObject
<1>12. ASSUME NEW s \in Servers, CopyUpload(s)
       PROVE  Stored'
  <2> DEFINE state == [server[s] EXCEPT !.phase = "queue"]
  <2>1. server[s] \in [phase : {"copy", "queue"}, u : Uploads, copied : BOOLEAN]
    BY <1>3, <1>12 DEF CopyUpload, Serves, ServerStates, Serving
  <2>2. state \in ServerStates /\ state.u = server[s].u
    BY <2>1 DEF ServerStates
  <2>3. /\ server' = [server EXCEPT ![s] = state]
        /\ objects' = objects \union {server[s].u}
    BY <1>12 DEF CopyUpload, Serves
  <2> HIDE DEF state
  <2> QED
    BY <1>12, <2>2, <2>3, RequestMoves DEF CopyUpload
<1>13. ASSUME NEW w \in Consumers, NEW u \in Uploads, Take(w, u)
       PROVE  Stored'
  <2> DEFINE state == [phase |-> IF u \in done THEN "skip" ELSE "run", u |-> u]
  <2>1. state \in ConsumerStates /\ state # Resting /\ state.u = u
    BY DEF ConsumerStates, Resting
  <2>2. /\ consumer[w] = Resting /\ consumer' = [consumer EXCEPT ![w] = state]
        /\ ready' = [ready EXCEPT ![u] = ready[u] - 1] /\ ready[u] > 0
        /\ UNCHANGED <<objects, server, accepted, handled>>
    BY <1>13 DEF Take
  <2> HIDE DEF state
  <2>3. consumer' \in [Consumers -> ConsumerStates] /\ ready' \in [Uploads -> Nat]
    BY <2>1, <2>2 DEF Stored
  <2>4. InHand(u)'
    BY <2>1, <2>2 DEF InHand, Stored
  <2>5. \A v \in accepted : v # u /\ InHand(v) => InHand(v)'
    BY <2>2 DEF InHand, Stored
  <2>6. AcceptedIsQueued'
    BY <2>2, <2>4, <2>5 DEF Stored, AcceptedIsQueued
  <2> QED
    BY <2>2, <2>3, <2>6 DEF Stored
<1>14. ASSUME NEW w \in Consumers, Skip(w) \/ Ingests(w) \/ GiveUp(w)
       PROVE  Stored'
  <2>1. /\ consumer' = [consumer EXCEPT ![w] = Resting]
        /\ handled' = handled \union {consumer[w].u}
        /\ UNCHANGED <<objects, server, ready, accepted>>
    BY <1>14 DEF Skip, Ingests, GiveUp, Acknowledges
  <2>2. \A v \in accepted : InHand(v) => InHand(v)' \/ v \in handled'
    BY <2>1 DEF InHand, Stored
  <2>3. AcceptedIsQueued'
    BY <2>1, <2>2 DEF Stored, AcceptedIsQueued
  <2> QED
    BY <1>2, <2>1, <2>3 DEF Stored
<1>15. ASSUME NEW w \in Consumers, LoseConsumer(w)
       PROVE  Stored'
  <2>1. consumer[w].u \in Uploads
    BY <1>15 DEF LoseConsumer, Stored, ConsumerStates
  <2>2. /\ consumer' = [consumer EXCEPT ![w] = Resting]
        /\ ready' = [ready EXCEPT ![consumer[w].u] = ready[consumer[w].u] + 1]
        /\ UNCHANGED <<objects, server, accepted, handled>>
    BY <1>15 DEF LoseConsumer
  <2>3. ready' \in [Uploads -> Nat] /\ ready'[consumer[w].u] > 0
    BY <2>1, <2>2 DEF Stored
  <2>4. \A v \in accepted : InHand(v) => InHand(v)'
    BY <2>1, <2>2, <2>3 DEF InHand, Stored
  <2>5. AcceptedIsQueued'
    BY <2>2, <2>4 DEF Stored, AcceptedIsQueued
  <2> QED
    BY <1>2, <2>2, <2>3, <2>5 DEF Stored
<1>16. CASE UNCHANGED doorVars
  BY <1>16 DEF doorVars, Stored, AcceptedIsQueued, InHand
<1> QED
  BY <1>4, <1>5, <1>6, <1>7, <1>8, <1>9, <1>10, <1>11, <1>12, <1>13, <1>14, <1>15,
     <1>16 DEF DoorsNext

\* What somebody was told is queued is stored, and a message of it is ready, at
\* a worker or handled, whatever requests and workers are lost and however often
\* tusd repeats a hook (internal.py:115-140, datasets.py:298-323).
THEOREM AcceptedStaysQueued == DoorsSpec => []AcceptedIsQueued
<1>1. Stored => AcceptedIsQueued
  BY DEF Stored
<1> QED
  BY <1>1, StoredInit, StoredStep, PTL DEF DoorsSpec

\* The queue that the pipeline is relied upon to keep.
InQueue == {u \in objects : InHand(u)}
Made == {u \in Uploads : ingested[u] > 0}

\* What has a message has its file, so a step that only stores one adds nothing.
HandedIsStored == \A u \in Uploads : InHand(u) => u \in objects

Keeping ==
  /\ Stored /\ HandedIsStored
  /\ ingested \in [Uploads -> Nat] /\ objects \subseteq Uploads

View == <<accepted, InQueue, handled, Made>>

LEMMA KeptTypes ==
  ASSUME Keeping, [DoorsNext]_doorVars
  PROVE  ingested' \in [Uploads -> Nat] /\ objects' \subseteq Uploads
<1>1. ASSUME NEW w \in Consumers, Ingests(w)
      PROVE  ingested' \in [Uploads -> Nat] /\ objects' = objects
  <2>1. consumer[w].u \in Uploads
    BY <1>1 DEF Ingests, Acknowledges, Keeping, Stored, ConsumerStates, Resting
  <2> QED
    BY <1>1, <2>1 DEF Ingests, Keeping
<1>2. ASSUME NEW s \in Servers, StoreUpload(s) \/ CopyUpload(s)
      PROVE  ingested' = ingested /\ objects' \subseteq Uploads
  <2>1. server[s].u \in Uploads
    BY <1>2 DEF StoreUpload, CopyUpload, Serves, Keeping, Stored, ServerStates, Serving
  <2> QED
    BY <1>2, <2>1 DEF StoreUpload, CopyUpload, brokerVars, Keeping
<1>3. ASSUME UNCHANGED <<ingested, objects>>
      PROVE  ingested' \in [Uploads -> Nat] /\ objects' \subseteq Uploads
  BY <1>3 DEF Keeping
<1> QED
  BY <1>1, <1>2, <1>3 DEF Keeping, DoorsNext, BeginUpload, EnqueueUpload, DropRequest,
     CreateTusSession, FinishTus, BeginHook, LookForObject, AnswerHook, Take,
     Skip, GiveUp, LoseConsumer, doorVars, brokerVars

\* Requests that only move on, or store a file.
LEMMA RequestsOffQueue ==
  ASSUME Keeping, objects \subseteq objects', objects' \subseteq Uploads,
         UNCHANGED <<ready, consumer, ingested, accepted, handled>>
  PROVE  HandedIsStored' /\ UNCHANGED View
<1>1. \A u : InHand(u)' = InHand(u)
  BY DEF InHand
<1>2. HandedIsStored'
  BY <1>1 DEF Keeping, HandedIsStored
<1>3. InQueue' = InQueue
  BY <1>1 DEF Keeping, HandedIsStored, InQueue
<1>4. Made' = Made
  BY DEF Made
<1> QED
  BY <1>2, <1>3, <1>4 DEF View

LEMMA EnqueueAccepts ==
  ASSUME Keeping, NEW u \in Uploads, u \in objects, Enqueue(u),
         UNCHANGED <<objects, consumer, ingested, handled>>
  PROVE  HandedIsStored' /\ Handed!Accept(u)
<1>1. /\ ready'[u] > 0
      /\ \A v \in Uploads : v # u => ready'[v] = ready[v]
  BY DEF Keeping, Stored, Enqueue
<1>2. InHand(u)' /\ \A v \in Uploads : v # u => InHand(v)' = InHand(v)
  BY <1>1 DEF InHand
<1>3. HandedIsStored'
  BY <1>2 DEF Keeping, HandedIsStored
<1>4. InQueue' = InQueue \union {u}
  BY <1>2 DEF InQueue, Keeping
<1>5. Made' = Made /\ accepted' = accepted \union {u}
  BY DEF Made, Enqueue
<1> QED
  BY <1>3, <1>4, <1>5 DEF Handed!Accept, InQueue, Made

\* The upload of a worker that comes to rest.
LEMMA RestSettles ==
  ASSUME Keeping, NEW w \in Consumers, consumer[w] # Resting,
         consumer' = [consumer EXCEPT ![w] = Resting],
         handled' = handled \union {consumer[w].u}, UNCHANGED <<ready, objects, accepted>>,
         \/ ingested' = ingested
         \/ ingested' = [ingested EXCEPT ![consumer[w].u] = ingested[consumer[w].u] + 1]
  PROVE  HandedIsStored' /\ \E u \in Uploads : Handed!Settle(u)
<1>0. PICK u \in Uploads : u = consumer[w].u
  BY DEF Keeping, Stored, ConsumerStates
<1>1. InHand(u) /\ u \in InQueue
  BY <1>0 DEF Keeping, HandedIsStored, InQueue, InHand
<1>2. \A v \in Uploads : InHand(v)' => InHand(v)
  BY DEF Keeping, Stored, InHand
<1>3. \A v \in Uploads : v # u /\ InHand(v) => InHand(v)'
  BY <1>0 DEF Keeping, Stored, InHand
<1>4. Made' \in {Made, Made \union {u}}
  BY <1>0 DEF Keeping, Made
<1>5. InQueue' \in {InQueue, InQueue \ {u}}
  BY <1>2, <1>3 DEF InQueue, Keeping
<1>6. HandedIsStored'
  BY <1>2 DEF Keeping, HandedIsStored
<1>7. Handed!Settle(u)
  BY <1>0, <1>1, <1>4, <1>5 DEF Handed!Settle, InQueue, Made
<1> QED
  BY <1>6, <1>7

\* A message that passes between the broker and a worker.
LEMMA PassedStaysPending ==
  ASSUME Keeping, NEW u \in Uploads, InHand(u), InHand(u)',
         \A v \in Uploads : v # u => InHand(v)' = InHand(v),
         UNCHANGED <<objects, ingested, accepted, handled>>
  PROVE  HandedIsStored' /\ UNCHANGED View
<1>1. InQueue' = InQueue /\ HandedIsStored'
  BY DEF Keeping, HandedIsStored, InQueue
<1> QED
  BY <1>1 DEF View, Made

LEMMA HandedStep ==
  ASSUME Keeping, [DoorsNext]_doorVars
  PROVE  Keeping' /\ [Handed!Next]_View
<1> USE DEF brokerVars
<1>0. Stored' /\ ingested' \in [Uploads -> Nat] /\ objects' \subseteq Uploads
  BY StoredStep, KeptTypes DEF Keeping
<1>1. ASSUME NEW s \in Servers, EnqueueUpload(s) \/ AnswerHook(s)
      PROVE  HandedIsStored' /\ \E u \in Uploads : Handed!Accept(u)
  <2>1. PICK u \in Uploads : u = server[s].u /\ u \in objects
    BY <1>1 DEF EnqueueUpload, AnswerHook, Serves, Keeping, Stored, ServerStates, Serving
  <2>2. Enqueue(u)
    BY <1>1, <2>1 DEF EnqueueUpload, AnswerHook, Enqueue
  <2>3. HandedIsStored' /\ Handed!Accept(u)
    BY <1>1, <2>1, <2>2, EnqueueAccepts DEF EnqueueUpload, AnswerHook
  <2> QED
    BY <2>3
<1>2. ASSUME NEW w \in Consumers, NEW u \in Uploads, Take(w, u)
      PROVE  HandedIsStored' /\ UNCHANGED View
  <2> DEFINE state == [phase |-> IF u \in done THEN "skip" ELSE "run", u |-> u]
  <2>1. state # Resting /\ state.u = u
    BY DEF Resting
  <2>2. /\ consumer[w] = Resting /\ consumer' = [consumer EXCEPT ![w] = state]
        /\ ready' = [ready EXCEPT ![u] = ready[u] - 1] /\ ready[u] > 0
        /\ UNCHANGED <<objects, accepted, handled, ingested>>
    BY <1>2 DEF Take
  <2> HIDE DEF state
  <2>3. InHand(u) /\ InHand(u)'
    BY <2>1, <2>2 DEF InHand, Keeping, Stored
  <2>4. \A v \in Uploads : v # u => InHand(v)' = InHand(v)
    BY <2>1, <2>2 DEF InHand, Keeping, Stored
  <2> QED
    BY <2>2, <2>3, <2>4, PassedStaysPending
<1>3. ASSUME NEW w \in Consumers, Skip(w) \/ Ingests(w) \/ GiveUp(w)
      PROVE  HandedIsStored' /\ \E u \in Uploads : Handed!Settle(u)
  <2>1. consumer[w] # Resting
    BY <1>3 DEF Skip, Ingests, GiveUp, Acknowledges, Resting
  <2>2. /\ consumer' = [consumer EXCEPT ![w] = Resting]
        /\ handled' = handled \union {consumer[w].u} /\ UNCHANGED <<ready, objects, accepted>>
        /\ \/ ingested' = ingested
           \/ ingested' = [ingested EXCEPT ![consumer[w].u] = ingested[consumer[w].u] + 1]
    BY <1>3 DEF Skip, Ingests, GiveUp, Acknowledges
  <2> QED
    BY <2>1, <2>2, RestSettles
<1>4. ASSUME NEW w \in Consumers, LoseConsumer(w)
      PROVE  HandedIsStored' /\ UNCHANGED View
  <2>1. PICK u \in Uploads : u = consumer[w].u
    BY <1>4 DEF LoseConsumer, Keeping, Stored, ConsumerStates
  <2>2. /\ consumer[w] # Resting /\ consumer' = [consumer EXCEPT ![w] = Resting]
        /\ ready' = [ready EXCEPT ![u] = ready[u] + 1]
        /\ UNCHANGED <<objects, accepted, handled, ingested>>
    BY <1>4, <2>1 DEF LoseConsumer
  <2>3. ready'[u] > 0 /\ \A v \in Uploads : v # u => ready'[v] = ready[v]
    BY <2>2 DEF Keeping, Stored
  <2>4. InHand(u) /\ InHand(u)'
    BY <2>1, <2>2, <2>3 DEF InHand
  <2>5. \A v \in Uploads : v # u => InHand(v)' = InHand(v)
    BY <2>1, <2>2, <2>3 DEF InHand, Keeping, Stored
  <2> QED
    BY <2>2, <2>4, <2>5, PassedStaysPending
<1>5. ASSUME NEW s \in Servers,
             \/ \E u \in Uploads, sample \in Samples : BeginUpload(s, u, sample)
             \/ StoreUpload(s) \/ DropRequest(s)
             \/ \E u \in Uploads : BeginHook(s, u)
             \/ LookForObject(s) \/ CopyUpload(s)
      PROVE  HandedIsStored' /\ UNCHANGED View
  BY <1>0, <1>5, RequestsOffQueue
     DEF BeginUpload, StoreUpload, DropRequest, BeginHook, LookForObject, CopyUpload
<1>6. ASSUME NEW u \in Uploads,
             FinishTus(u) \/ \E sample \in Samples : CreateTusSession(u, sample)
      PROVE  HandedIsStored' /\ UNCHANGED View
  BY <1>0, <1>6, RequestsOffQueue DEF FinishTus, CreateTusSession
<1>7. ASSUME UNCHANGED doorVars
      PROVE  HandedIsStored' /\ UNCHANGED View
  BY <1>0, <1>7, RequestsOffQueue DEF doorVars
<1>8. (\E u \in Uploads : Handed!Accept(u) \/ Handed!Settle(u)) => Handed!Next
  BY DEF Handed!Next
<1>9. HandedIsStored' /\ [Handed!Next]_View
  BY <1>1, <1>2, <1>3, <1>4, <1>5, <1>6, <1>7, <1>8, Zenon DEF DoorsNext
<1> QED
  BY <1>0, <1>9 DEF Keeping

\* Through either door, and whatever is lost or sent again, an upload is pending
\* from when it is enqueued until a message of it is settled.
THEOREM DoorsImplementQueue == DoorsSpec => DoorsKeepQueue
<1>1. DoorsInit => Keeping /\ Handed!Init
  BY StoredInit DEF DoorsInit, Keeping, HandedIsStored, Handed!Init, InHand, Resting
<1>2. Keeping /\ [DoorsNext]_doorVars => Keeping' /\ [Handed!Next]_View
  BY HandedStep
<1> QED
  BY <1>1, <1>2, PTL DEF DoorsSpec, DoorsKeepQueue, Handed!Spec, View, InQueue, Made

(***************************************************************************)
(* TenantProvisioning implements TenantOnce                                *)
(***************************************************************************)

Phases == {"new", "begin", "check", "plans", "insertPlans", "tenant", "licence", "prefix",
           "limit", "commit", "settle", "done", "refused"}

RequestStates ==
  {NotSent}
  \union [phase : Phases \ {"new"}, channel : {"task", "admin"}, slug : TenantSlugs,
          seeds : BOOLEAN, id : Nat]

\* A transaction has a tenant row.
Holds(state) == state.phase \in {"licence", "prefix", "limit", "commit"}

\* A request may have been handed an id since it last began.
Came(state) == Holds(state) \/ state.phase \in {"settle", "done", "refused"}

Past == {r \in Provisions : Came(provisioning[r])}

\* What is inductive: two open transactions never hold one slug, none holds a
\* committed one, and each has the default plans or brings them.
Provisioned ==
  /\ provisioning \in [Provisions -> RequestStates]
  /\ rows \subseteq [id : Nat, slug : TenantSlugs]
  /\ lostTasks \in 0 .. MaxRedelivery
  /\ minted \in Nat /\ minted <= lostTasks + Cardinality(Past)
  /\ plans \in BOOLEAN
  /\ ~plans => licensed = {}
  /\ \A r \in Provisions :
       /\ Holds(provisioning[r]) => /\ provisioning[r].id \in 1 .. minted
                                    /\ \A t \in rows : t.slug # provisioning[r].slug
       /\ Holds(provisioning[r]) \/ provisioning[r].phase = "tenant" => plans \/ provisioning[r].seeds
  /\ \A q, r \in Provisions :
       q # r /\ Holds(provisioning[q]) /\ Holds(provisioning[r]) => provisioning[q].slug # provisioning[r].slug

LEMMA ProvisionedInit == ProvisionInit => Provisioned
<1> SUFFICES ASSUME ProvisionInit PROVE Provisioned
  OBVIOUS
<1>1. /\ provisioning \in [Provisions -> RequestStates]
      /\ \A r \in Provisions : ~Came(provisioning[r]) /\ ~Holds(provisioning[r])
                               /\ provisioning[r].phase # "tenant"
  BY DEF ProvisionInit, RequestStates, NotSent, Came, Holds
<1>2. Past = {} /\ Cardinality(Past) = 0
  BY <1>1, FS_EmptySet DEF Past
<1>3. plans \in BOOLEAN
  BY Zenon DEF ProvisionInit
<1>4. rows = {} /\ licensed = {} /\ minted = 0 /\ lostTasks = 0
  BY DEF ProvisionInit
<1> QED
  BY <1>1, <1>2, <1>3, <1>4, ProvisionAssumption DEF Provisioned

\* Cardinalities are numbers, and grow with the set.
LEMMA PastCounts ==
  /\ IsFiniteSet(Past) /\ Cardinality(Past) \in Nat
  /\ Cardinality(Past) <= Cardinality(Provisions)
<1>1. Past \in SUBSET Provisions
  BY DEF Past
<1> QED
  BY <1>1, FS_Subset, FS_CardinalityType, ProvisionAssumption

\* The same one step later.
LEMMA PastCountsNext ==
  /\ IsFiniteSet(Past') /\ Cardinality(Past') \in Nat
<1>1. Past' \in SUBSET Provisions
  BY DEF Past
<1> QED
  BY <1>1, FS_Subset, FS_CardinalityType, ProvisionAssumption

\* A request that goes on, or ends, without taking or committing a slug.
LEMMA OnePhaseOn ==
  ASSUME Provisioned, NEW r \in Provisions, NEW state \in RequestStates,
         provisioning' = [provisioning EXCEPT ![r] = state],
         Came(provisioning[r]) => Came(state),
         Holds(state) => /\ Holds(provisioning[r])
                         /\ state.id = provisioning[r].id /\ state.slug = provisioning[r].slug
                         /\ state.seeds = provisioning[r].seeds,
         state.phase = "tenant" => plans \/ state.seeds,
         UNCHANGED <<tenantRowVars, minted, lostTasks>>
  PROVE  Provisioned'
<1>1. /\ provisioning' \in [Provisions -> RequestStates]
      /\ provisioning'[r] = state
      /\ \A q \in Provisions \ {r} : provisioning'[q] = provisioning[q]
  BY DEF Provisioned
<1>2. Cardinality(Past) <= Cardinality(Past')
  <2>1. Past \in SUBSET Past'
    BY <1>1 DEF Past
  <2> QED
    BY <2>1, PastCountsNext, FS_Subset
<1>3. minted <= lostTasks + Cardinality(Past')
  BY <1>2, PastCounts, PastCountsNext DEF Provisioned
<1>4. UNCHANGED <<rows, licensed, plans, minted, lostTasks>>
  BY DEF tenantRowVars
<1>5. \A q \in Provisions :
        Holds(provisioning'[q]) => /\ Holds(provisioning[q])
                                   /\ provisioning'[q].id = provisioning[q].id
                                   /\ provisioning'[q].slug = provisioning[q].slug
                                   /\ provisioning'[q].seeds = provisioning[q].seeds
  BY <1>1
<1>6. \A q \in Provisions :
        Holds(provisioning'[q]) => /\ provisioning'[q].id \in 1 .. minted'
                                   /\ \A t \in rows' : t.slug # provisioning'[q].slug
  BY <1>4, <1>5 DEF Provisioned
<1>7. \A q \in Provisions :
        Holds(provisioning'[q]) \/ provisioning'[q].phase = "tenant" => plans' \/ provisioning'[q].seeds
  BY <1>1, <1>4, <1>5 DEF Provisioned
<1>8. \A q, p \in Provisions :
        q # p /\ Holds(provisioning'[q]) /\ Holds(provisioning'[p])
          => provisioning'[q].slug # provisioning'[p].slug
  BY <1>5 DEF Provisioned
<1> QED
  BY <1>1, <1>3, <1>4, <1>6, <1>7, <1>8 DEF Provisioned

SubmittedStates ==
  [phase : Phases \ {"new"}, channel : {"task", "admin"}, slug : TenantSlugs,
   seeds : BOOLEAN, id : Nat]

LEMMA SubmittedState ==
  ASSUME Provisioned, NEW r \in Provisions, provisioning[r].phase # "new"
  PROVE  provisioning[r] \in SubmittedStates
  BY DEF Provisioned, RequestStates, SubmittedStates, NotSent

LEMMA GoesTo ==
  ASSUME Provisioned, NEW r \in Provisions, provisioning[r].phase # "new",
         NEW p \in Phases \ {"new"}, GoTo(r, p),
         Came(provisioning[r]) => p \in {"licence", "prefix", "limit", "commit", "settle",
                                    "done", "refused"},
         p \in {"licence", "prefix", "limit", "commit"} => Holds(provisioning[r]),
         p = "tenant" => plans,
         UNCHANGED <<tenantRowVars, minted, lostTasks>>
  PROVE  Provisioned'
<1> DEFINE state == [provisioning[r] EXCEPT !.phase = p]
<1>1. provisioning[r] \in SubmittedStates
  BY SubmittedState
<1>2. /\ state \in RequestStates /\ state.phase = p
      /\ state.id = provisioning[r].id /\ state.slug = provisioning[r].slug
      /\ state.seeds = provisioning[r].seeds
  BY <1>1 DEF SubmittedStates, RequestStates
<1>3. provisioning' = [provisioning EXCEPT ![r] = state]
  BY DEF GoTo
<1> HIDE DEF state
<1>4. Came(provisioning[r]) => Came(state)
  BY <1>2 DEF Came, Holds
<1>5. Holds(state) => Holds(provisioning[r])
  BY <1>2 DEF Holds
<1>6. state.phase = "tenant" => plans \/ state.seeds
  BY <1>2
<1> QED
  BY <1>2, <1>3, <1>4, <1>5, <1>6, OnePhaseOn

LEMMA CommitFacts ==
  ASSUME Provisioned, NEW r \in Provisions, CommitTenant(r)
  PROVE  /\ provisioning[r] \in SubmittedStates /\ Holds(provisioning[r])
         /\ provisioning[r].id \in NewIds /\ provisioning[r].slug \in TenantSlugs
         /\ \A t \in rows : t.slug # provisioning[r].slug
         /\ plans' = TRUE
         /\ \E p \in {"settle", "done"} :
              provisioning' = [provisioning EXCEPT ![r] = [provisioning[r] EXCEPT !.phase = p]]
<1>1. provisioning[r] \in SubmittedStates /\ Holds(provisioning[r])
  BY SubmittedState DEF CommitTenant, Holds
<1>2. provisioning[r].id \in 1 .. minted /\ \A t \in rows : t.slug # provisioning[r].slug
  BY <1>1 DEF Provisioned
<1>3. minted <= Cardinality(Provisions) + MaxRedelivery
  BY PastCounts, ProvisionAssumption, FS_CardinalityType DEF Provisioned
<1>4. provisioning[r].id \in NewIds
  BY <1>2, <1>3, ProvisionAssumption, FS_CardinalityType DEF NewIds, Provisioned
<1>5. plans \/ provisioning[r].seeds
  BY <1>1 DEF Provisioned
<1>6. plans' = TRUE
  BY <1>5, Zenon DEF CommitTenant
<1>7. \E p \in {"settle", "done"} :
        provisioning' = [provisioning EXCEPT ![r] = [provisioning[r] EXCEPT !.phase = p]]
  BY DEF CommitTenant, GoTo
<1> QED
  BY <1>1, <1>2, <1>4, <1>6, <1>7 DEF SubmittedStates

LEMMA ProvisionedStep ==
  ASSUME Provisioned, [ProvisionNext]_provisionVars
  PROVE  Provisioned'
<1>1. /\ Cardinality(Past) \in Nat /\ Cardinality(Past') \in Nat
      /\ minted \in Nat /\ lostTasks \in Nat /\ MaxRedelivery \in Nat
  BY PastCounts, PastCountsNext, ProvisionAssumption DEF Provisioned
<1>2. ASSUME NEW r \in Provisions, NEW channel \in {"task", "admin"},
             NEW s \in TenantSlugs, Submit(r, channel, s)
      PROVE  Provisioned'
  <2> DEFINE state == [phase |-> "begin", channel |-> channel, slug |-> s,
                       seeds |-> FALSE, id |-> 0]
  <2>1. state \in RequestStates /\ ~Holds(state) /\ state.phase # "tenant"
    BY DEF RequestStates, Phases, Holds
  <2>2. /\ provisioning' = [provisioning EXCEPT ![r] = state] /\ ~Came(provisioning[r])
        /\ UNCHANGED <<tenantRowVars, minted, lostTasks>>
    BY <1>2 DEF Submit, NotSent, Came, Holds
  <2> HIDE DEF state
  <2> QED
    BY <2>1, <2>2, OnePhaseOn
<1>3. ASSUME NEW r \in Provisions, LookUpKey(r) \/ CheckSlug(r) \/ ReadPlans(r)
      PROVE  Provisioned'
  <2>1. PICK p \in {"done", "check", "refused", "plans", "tenant", "insertPlans"} :
          GoTo(r, p) /\ (p = "tenant" => plans)
    BY <1>3 DEF LookUpKey, CheckSlug, ReadPlans
  <2>2. /\ provisioning[r].phase # "new" /\ ~Came(provisioning[r])
        /\ UNCHANGED <<tenantRowVars, minted, lostTasks>>
    BY <1>3 DEF LookUpKey, CheckSlug, ReadPlans, Came, Holds
  <2> QED
    BY <2>1, <2>2, GoesTo DEF Phases
<1>4. ASSUME NEW r \in Provisions, InsertPlans(r)
      PROVE  Provisioned'
  <2>1. provisioning[r] \in SubmittedStates /\ ~Came(provisioning[r])
    BY <1>4, SubmittedState DEF InsertPlans, Came, Holds
  <2>2. CASE plans
    <3> DEFINE state == [provisioning[r] EXCEPT !.phase = "refused", !.seeds = FALSE]
    <3>1. state \in RequestStates /\ ~Holds(state) /\ state.phase # "tenant"
      BY <2>1 DEF SubmittedStates, RequestStates, Phases, Holds
    <3>2. /\ provisioning' = [provisioning EXCEPT ![r] = state]
          /\ UNCHANGED <<tenantRowVars, minted, lostTasks>>
      <4>1. ~plans = FALSE
        BY <2>2
      <4> QED
        BY <1>4, <2>2, <4>1 DEF InsertPlans
    <3> HIDE DEF state
    <3> QED
      BY <2>1, <3>1, <3>2, OnePhaseOn
  <2>3. CASE ~plans
    <3> DEFINE state == [provisioning[r] EXCEPT !.phase = "tenant", !.seeds = TRUE]
    <3>1. state \in RequestStates /\ ~Holds(state) /\ state.seeds
      BY <2>1 DEF SubmittedStates, RequestStates, Phases, Holds
    <3>2. /\ provisioning' = [provisioning EXCEPT ![r] = state]
          /\ UNCHANGED <<tenantRowVars, minted, lostTasks>>
      <4>1. ~plans = TRUE
        BY <2>3
      <4> QED
        BY <1>4, <2>3, <4>1 DEF InsertPlans
    <3> HIDE DEF state
    <3> QED
      BY <2>1, <3>1, <3>2, OnePhaseOn
  <2> QED
    BY <2>2, <2>3
<1>5. ASSUME NEW r \in Provisions, SeedLicence(r) \/ EnsurePrefix(r) \/ HydrateTenantLimit(r)
      PROVE  Provisioned'
  <2>1. PICK p \in {"prefix", "limit", "commit"} : GoTo(r, p)
    BY <1>5 DEF SeedLicence, EnsurePrefix, HydrateTenantLimit
  <2>2. /\ provisioning[r].phase # "new" /\ Holds(provisioning[r])
        /\ UNCHANGED <<tenantRowVars, minted, lostTasks>>
    BY <1>5 DEF SeedLicence, EnsurePrefix, HydrateTenantLimit, Holds
  <2> QED
    BY <2>1, <2>2, GoesTo DEF Phases
<1>6. ASSUME NEW r \in Provisions, Settle(r) \/ RollbackTenant(r)
      PROVE  Provisioned'
  <2>1. PICK p \in {"done", "refused"} : GoTo(r, p)
    BY <1>6 DEF Settle, RollbackTenant
  <2>2. provisioning[r].phase # "new" /\ UNCHANGED <<tenantRowVars, minted, lostTasks>>
    BY <1>6 DEF Settle, RollbackTenant, InTransaction
  <2> QED
    BY <2>1, <2>2, GoesTo DEF Phases
<1>7. ASSUME NEW r \in Provisions, InsertTenant(r)
      PROVE  Provisioned'
  <2>1. /\ provisioning[r] \in SubmittedStates /\ ~Came(provisioning[r]) /\ ~Holds(provisioning[r])
        /\ UNCHANGED <<tenantRowVars, lostTasks>>
    BY <1>7, SubmittedState DEF InsertTenant, Came, Holds
  <2>2. CASE Collides(r)
    <3> DEFINE state == [provisioning[r] EXCEPT !.phase = "refused"]
    <3>1. state \in RequestStates /\ ~Holds(state) /\ state.phase # "tenant"
      BY <2>1 DEF SubmittedStates, RequestStates, Phases, Holds
    <3>2. provisioning' = [provisioning EXCEPT ![r] = state] /\ UNCHANGED minted
      BY <1>7, <2>2 DEF InsertTenant
    <3> HIDE DEF state
    <3> QED
      BY <2>1, <3>1, <3>2, OnePhaseOn
  \* A row of this slug is neither committed nor held by an open transaction.
  <2>3. CASE ~Collides(r)
    <3> DEFINE n == minted + 1
               state == [provisioning[r] EXCEPT !.phase = "licence", !.id = n]
    <3>1. /\ state \in RequestStates /\ Holds(state) /\ Came(state)
          /\ state.phase # "tenant" /\ state.id = n
          /\ state.slug = provisioning[r].slug /\ state.seeds = provisioning[r].seeds
      <4>1. n \in Nat
        BY <1>1
      <4> HIDE DEF n
      <4> QED
        BY <2>1, <4>1 DEF SubmittedStates, RequestStates, Phases, Holds, Came
    <3>2. /\ provisioning' = [provisioning EXCEPT ![r] = state] /\ minted' = minted + 1
          /\ ~SlugLocked(r)
      BY <1>7, <2>3 DEF InsertTenant
    <3> HIDE DEF state
    <3>3. /\ provisioning' \in [Provisions -> RequestStates] /\ provisioning'[r] = state
          /\ \A q \in Provisions \ {r} : provisioning'[q] = provisioning[q]
      BY <3>1, <3>2 DEF Provisioned
    <3>4. Past' = Past \union {r} /\ r \notin Past
      BY <2>1, <3>1, <3>3 DEF Past
    <3>5. Cardinality(Past') = Cardinality(Past) + 1
      BY <3>4, PastCounts, FS_AddElement
    <3>6. minted' \in Nat /\ minted' <= lostTasks' + Cardinality(Past')
      BY <1>1, <2>1, <3>2, <3>5 DEF Provisioned
    <3>7. UNCHANGED <<rows, licensed, plans, lostTasks>>
      BY <2>1 DEF tenantRowVars
    <3>8. \A q \in Provisions \ {r} :
            Holds(provisioning[q]) => provisioning[q].slug # provisioning[r].slug
      BY <1>1, <3>2 DEF SlugLocked, InTransaction, Holds, Provisioned
    <3>9. \A t \in rows : t.slug # provisioning[r].slug
      BY <2>3 DEF Collides, SlugTaken
    <3>10. plans \/ provisioning[r].seeds
      BY <1>7 DEF InsertTenant, Provisioned
    <3>11. \A q \in Provisions :
             Holds(provisioning'[q]) => /\ provisioning'[q].id \in 1 .. minted'
                                        /\ \A t \in rows' : t.slug # provisioning'[q].slug
      BY <1>1, <3>1, <3>2, <3>3, <3>7, <3>9 DEF Provisioned
    <3>12. \A q \in Provisions :
             Holds(provisioning'[q]) \/ provisioning'[q].phase = "tenant" => plans' \/ provisioning'[q].seeds
      BY <3>1, <3>3, <3>7, <3>10 DEF Provisioned
    <3>13. \A q, p \in Provisions :
             q # p /\ Holds(provisioning'[q]) /\ Holds(provisioning'[p])
               => provisioning'[q].slug # provisioning'[p].slug
      BY <3>1, <3>3, <3>8 DEF Provisioned
    <3> QED
      BY <3>3, <3>6, <3>7, <3>11, <3>12, <3>13 DEF Provisioned
  <2> QED
    BY <2>2, <2>3
<1>8. ASSUME NEW r \in Provisions, CommitTenant(r)
      PROVE  Provisioned'
  <2>1. PICK p \in {"settle", "done"} :
          provisioning' = [provisioning EXCEPT ![r] = [provisioning[r] EXCEPT !.phase = p]]
    BY <1>8, CommitFacts
  <2> DEFINE state == [provisioning[r] EXCEPT !.phase = p]
  <2>2. /\ provisioning[r] \in SubmittedStates /\ Holds(provisioning[r])
        /\ provisioning[r].id \in NewIds /\ provisioning[r].slug \in TenantSlugs
        /\ plans' = TRUE
    BY <1>8, CommitFacts
  <2>3. state \in RequestStates /\ ~Holds(state) /\ Came(state) /\ state.phase # "tenant"
    BY <2>2 DEF SubmittedStates, RequestStates, Phases, Holds, Came
  <2>4. provisioning' = [provisioning EXCEPT ![r] = state]
    BY <2>1
  <2> HIDE DEF state
  <2>5. /\ provisioning' \in [Provisions -> RequestStates] /\ provisioning'[r] = state
        /\ \A q \in Provisions \ {r} : provisioning'[q] = provisioning[q]
    BY <2>3, <2>4 DEF Provisioned
  <2>6. Past' = Past
    BY <2>2, <2>3, <2>5 DEF Past, Came
  <2>7. /\ rows' = rows \union {[id |-> provisioning[r].id, slug |-> provisioning[r].slug]}
        /\ UNCHANGED <<minted, lostTasks>>
    BY <1>8 DEF CommitTenant
  <2>8. rows' \subseteq [id : Nat, slug : TenantSlugs]
    BY <2>2, <2>7, FS_CardinalityType, ProvisionAssumption DEF Provisioned, NewIds
  <2>9. \A q \in Provisions : Holds(provisioning'[q]) =>
          q # r /\ Holds(provisioning[q]) /\ provisioning'[q] = provisioning[q]
    BY <2>3, <2>5
  <2>10. \A q \in Provisions :
           Holds(provisioning'[q]) => /\ provisioning'[q].id \in 1 .. minted'
                                      /\ \A t \in rows' : t.slug # provisioning'[q].slug
    BY <2>2, <2>7, <2>9 DEF Provisioned
  <2>11. \A q, s \in Provisions :
           q # s /\ Holds(provisioning'[q]) /\ Holds(provisioning'[s])
             => provisioning'[q].slug # provisioning'[s].slug
    BY <2>9 DEF Provisioned
  <2>12. minted' <= lostTasks' + Cardinality(Past') /\ minted' \in Nat
         /\ lostTasks' \in 0 .. MaxRedelivery
    BY <2>6, <2>7 DEF Provisioned
  <2> QED
    BY <2>2, <2>5, <2>8, <2>10, <2>11, <2>12 DEF Provisioned
<1>9. ASSUME NEW r \in Provisions, LoseProvisioner(r)
      PROVE  Provisioned'
  <2> DEFINE state == [provisioning[r] EXCEPT !.phase = "begin", !.seeds = FALSE, !.id = 0]
  <2>1. provisioning[r] \in SubmittedStates
    BY <1>9, SubmittedState DEF LoseProvisioner, InTransaction
  <2>2. state \in RequestStates /\ ~Holds(state) /\ ~Came(state) /\ state.phase # "tenant"
    BY <2>1 DEF SubmittedStates, RequestStates, Phases, Holds, Came
  <2>3. /\ provisioning' = [provisioning EXCEPT ![r] = state] /\ lostTasks' = lostTasks + 1
        /\ lostTasks < MaxRedelivery /\ UNCHANGED <<rows, licensed, plans, minted>>
    BY <1>9 DEF LoseProvisioner, tenantRowVars
  <2> HIDE DEF state
  <2>4. /\ provisioning' \in [Provisions -> RequestStates] /\ provisioning'[r] = state
        /\ \A q \in Provisions \ {r} : provisioning'[q] = provisioning[q]
    BY <2>2, <2>3 DEF Provisioned
  <2>5. Past' = Past \ {r}
    BY <2>2, <2>4 DEF Past
  <2>6. Cardinality(Past') >= Cardinality(Past) - 1
    BY <1>1, <2>5, PastCounts, FS_RemoveElement
  <2>7. minted' <= lostTasks' + Cardinality(Past') /\ lostTasks' \in 0 .. MaxRedelivery
    BY <1>1, <2>3, <2>6 DEF Provisioned
  <2>8. \A q \in Provisions : Holds(provisioning'[q]) \/ provisioning'[q].phase = "tenant" =>
          q # r /\ provisioning'[q] = provisioning[q]
    BY <2>2, <2>4
  <2>9. \A q \in Provisions :
          Holds(provisioning'[q]) => /\ provisioning'[q].id \in 1 .. minted'
                                     /\ \A t \in rows' : t.slug # provisioning'[q].slug
    BY <2>3, <2>8 DEF Provisioned
  <2>10. \A q \in Provisions :
           Holds(provisioning'[q]) \/ provisioning'[q].phase = "tenant" => plans' \/ provisioning'[q].seeds
    BY <2>3, <2>8 DEF Provisioned
  <2>11. \A q, s \in Provisions :
           q # s /\ Holds(provisioning'[q]) /\ Holds(provisioning'[s])
             => provisioning'[q].slug # provisioning'[s].slug
    BY <2>8 DEF Provisioned
  <2> QED
    BY <1>1, <2>3, <2>4, <2>7, <2>9, <2>10, <2>11 DEF Provisioned
<1>10. CASE UNCHANGED provisionVars
  <2>1. Past' = Past
    BY <1>10 DEF provisionVars, Past
  <2> QED
    BY <1>10, <2>1 DEF provisionVars, tenantRowVars, Provisioned
<1> QED
  BY <1>2, <1>3, <1>4, <1>5, <1>6, <1>7, <1>8, <1>9, <1>10 DEF ProvisionNext

\* A commit gives a slug that has no tenant its tenant, licensed and with plans;
\* no other step changes what is committed.
LEMMA ProvisionRefines ==
  ASSUME Provisioned, [ProvisionNext]_provisionVars
  PROVE  Tenancy!Next \/ UNCHANGED <<TenantsOf, Usable>>
<1>1. CASE UNCHANGED tenantRowVars
  BY <1>1 DEF tenantRowVars, TenantsOf, Usable
<1>2. ASSUME NEW r \in Provisions, CommitTenant(r)
      PROVE  Tenancy!Next
  <2> DEFINE i == provisioning[r].id
             s == provisioning[r].slug
  <2>1. /\ i \in NewIds /\ s \in TenantSlugs
        /\ \A t \in rows : t.slug # s
        /\ plans' = TRUE
    BY <1>2, CommitFacts
  <2>2. /\ rows' = rows \union {[id |-> i, slug |-> s]}
        /\ licensed' = licensed \union {i}
    BY <1>2 DEF CommitTenant
  <2> HIDE DEF i, s
  <2>3. TenantsOf[s] = {}
    BY <2>1 DEF TenantsOf
  <2>4. \A c \in TenantSlugs :
          {u \in rows' : u.slug = c} = {u \in rows : u.slug = c}
                                         \union (IF c = s THEN {[id |-> i, slug |-> s]} ELSE {})
    BY <2>2
  <2>5. TenantsOf' = [TenantsOf EXCEPT ![s] = {i}]
    <3>1. \A c \in TenantSlugs \ {s} : TenantsOf'[c] = TenantsOf[c]
      BY <2>4 DEF TenantsOf
    <3>2. {u \in rows' : u.slug = s} = {[id |-> i, slug |-> s]}
      BY <2>1, <2>4
    <3>3. TenantsOf'[s] = {i}
      <4> DEFINE row == [id |-> i, slug |-> s]
      <4>1. row.id = i /\ TenantsOf'[s] = {t.id : t \in {row}}
        BY <2>1, <3>2 DEF TenantsOf
      <4> HIDE DEF row
      <4> QED
        BY <4>1
    <3> QED
      BY <2>1, <3>1, <3>3 DEF TenantsOf
  <2>6. Usable' = Usable \union {i}
    <3>1. Usable' = licensed \union {i}
      BY <2>1, <2>2 DEF Usable
    <3>2. Usable = licensed
      BY DEF Usable, Provisioned
    <3> QED
      BY <3>1, <3>2
  <2> QED
    BY <2>1, <2>3, <2>5, <2>6 DEF Tenancy!Next, Tenancy!Provision
<1> QED
  BY <1>1, <1>2
     DEF ProvisionNext, provisionVars, tenantRowVars, Submit, LookUpKey, CheckSlug,
         ReadPlans, InsertPlans, InsertTenant, SeedLicence, EnsurePrefix,
         HydrateTenantLimit, Settle, RollbackTenant, LoseProvisioner

\* Whatever requests overlap, are rolled back or delivered again, a slug gets one
\* tenant, for good, and the tenant its licence and plans with it
\* (tenant_provisioning_service.py:27-70).
THEOREM ProvisioningImplementsTenancy == ProvisionSpec => ImplementsTenancy
<1>1. ProvisionInit => Tenancy!Init
  BY DEF ProvisionInit, Tenancy!Init, TenantsOf, Usable
<1>2. Provisioned /\ [ProvisionNext]_provisionVars
        => [Tenancy!Next]_<<TenantsOf, Usable>>
  BY ProvisionRefines
<1> QED
  BY <1>1, <1>2, ProvisionedInit, ProvisionedStep, PTL
     DEF ProvisionSpec, ImplementsTenancy, Tenancy!Spec
-----------------------------------------------------------------------------
(* The hourly roll-up of usage events.                                       *)

Size(h) == Cardinality(StoredIn(h))

EventRows == {NoRow} \union [at : {"open", "stored", "lost"}, tick : 0 .. MaxTick]

Counted ==
  /\ tick \in 0 .. MaxTick
  /\ event \in [Recorders -> EventRows]
  /\ rollup \in [Hours -> Nat]
  /\ rollJob # NotRolling =>
       /\ rollJob \in [phase : {"read"}, since : SUBSET Hours, cutoff : Nat, count : [Hours -> Nat]]
       /\ \A h \in Hours :
            /\ rollJob.count[h] <= Size(h)
            /\ h \notin rollJob.since /\ 2 * h >= rollJob.cutoff => rollJob.count[h] = Size(h)
            /\ 2 * h + 1 < rollJob.cutoff => rollJob.count[h] = 0
  /\ RollupCounts

LEMMA HalfHours ==
  ASSUME NEW h \in Hours, NEW t \in Nat
  PROVE  /\ h \in Nat
         /\ HourOf(t) = h <=> t = 2 * h \/ t = 2 * h + 1
         /\ t <= MaxTick => HourOf(t) \in Hours
  BY RollupAssumption DEF Hours, HourOf

LEMMA Finite ==
  ASSUME NEW h
  PROVE  IsFiniteSet(StoredIn(h)) /\ Size(h) \in Nat
<1>1. StoredIn(h) \subseteq Recorders
  BY DEF StoredIn
<1> QED
  BY <1>1, RollupAssumption, FS_Subset, FS_CardinalityType DEF Size

\* A step that stores no event leaves every hour's events as they are.
LEMMA SameSizes ==
  ASSUME \A r \in Recorders : event'[r].at = "stored" \/ event[r].at = "stored" => event'[r] = event[r]
  PROVE  \A h : StoredIn(h)' = StoredIn(h) /\ Size(h)' = Size(h)
<1>1. \A h : StoredIn(h)' = StoredIn(h)
  BY DEF StoredIn
<1> QED
  BY <1>1 DEF Size

LEMMA Quiet ==
  ASSUME Counted, tick' \in 0 .. MaxTick, UNCHANGED <<event, rollup, cut, unread>>,
         rollJob' \in {rollJob, NotRolling}
  PROVE  Counted'
<1>1. \A h : StoredIn(h)' = StoredIn(h) /\ Size(h)' = Size(h)
  BY DEF StoredIn, Size
<1>2. RollupCounts'
  BY <1>1 DEF Counted, RollupCounts, Size
<1> QED
  BY <1>1, <1>2 DEF Counted

LEMMA EventStep ==
  ASSUME Counted, NEW r \in Recorders, RecordEvent(r) \/ LoseEvent(r)
  PROVE  Counted'
<1>1. \A x \in Recorders : event'[x].at = "stored" \/ event[x].at = "stored" => event'[x] = event[x]
  <2>1. event[r].at # "stored" /\ event'[r].at # "stored"
    BY DEF Counted, EventRows, RecordEvent, LoseEvent, NoRow
  <2>2. \A x \in Recorders \ {r} : event'[x] = event[x]
    BY DEF Counted, RecordEvent, LoseEvent
  <2> QED
    BY <2>1, <2>2
<1>2. \A h : StoredIn(h)' = StoredIn(h) /\ Size(h)' = Size(h)
  BY <1>1, SameSizes
<1>3. UNCHANGED <<tick, rollup, rollJob, cut, unread>>
  BY DEF RecordEvent, LoseEvent
<1>4. event' \in [Recorders -> EventRows]
  <2>1. CASE RecordEvent(r)
    <3>1. [at |-> "open", tick |-> tick] \in EventRows
      BY DEF Counted, EventRows
    <3> QED
      BY <2>1, <3>1 DEF Counted, RecordEvent
  <2>2. CASE LoseEvent(r)
    <3>1. [event[r] EXCEPT !.at = "lost"] \in EventRows
      BY <2>2 DEF Counted, LoseEvent, EventRows, NoRow
    <3> QED
      BY <2>2, <3>1 DEF Counted, LoseEvent
  <2> QED
    BY <2>1, <2>2
<1>6. RollupCounts'
  BY <1>2, <1>3 DEF Counted, RollupCounts, Size
<1> QED
  BY <1>2, <1>3, <1>4, <1>6 DEF Counted

LEMMA CommitEventStep ==
  ASSUME Counted, NEW r \in Recorders, CommitEvent(r)
  PROVE  Counted'
<1> DEFINE hour == HourOf(event[r].tick)
<1>0. event[r].at = "open" /\ event[r].tick \in 0 .. MaxTick
  BY DEF Counted, EventRows, CommitEvent, NoRow
<1>1. /\ event[r].at = "open" /\ event[r].tick \in 0 .. MaxTick
      /\ event' = [event EXCEPT ![r].at = "stored"]
      /\ unread' = unread \union {hour}
      /\ UNCHANGED <<tick, rollup, cut>>
      /\ rollJob' = IF rollJob = NotRolling THEN rollJob
                    ELSE [rollJob EXCEPT !.since = rollJob.since \union {hour}]
  BY <1>0 DEF CommitEvent
<1>2. /\ event'[r].at = "stored" /\ event'[r].tick = event[r].tick
      /\ \A x \in Recorders \ {r} : event'[x] = event[x]
  BY <1>1 DEF Counted, EventRows, NoRow
<1>3. \A h : StoredIn(h) \subseteq StoredIn(h)'
  BY <1>1, <1>2 DEF StoredIn
<1>4. \A h : h # hour => StoredIn(h)' = StoredIn(h)
  BY <1>1, <1>2 DEF StoredIn
<1>5. \A h : Size(h) <= Size(h)' /\ Size(h) \in Nat /\ Size(h)' \in Nat
  <2> SUFFICES ASSUME NEW h
               PROVE  Size(h) <= Size(h)' /\ Size(h) \in Nat /\ Size(h)' \in Nat
    OBVIOUS
  <2>1. StoredIn(h)' \subseteq Recorders
    BY DEF StoredIn
  <2>2. IsFiniteSet(StoredIn(h)')
    BY <2>1, RollupAssumption, FS_Subset
  <2> QED
    BY <1>3, <2>2, FS_Subset, FS_CardinalityType DEF Size
<1>6. \A h : h # hour => Size(h)' = Size(h)
  BY <1>4 DEF Size
<1>7. RollupCounts'
  <2> SUFFICES ASSUME NEW h \in Hours
               PROVE  /\ rollup[h] <= Size(h)'
                      /\ h \notin cut \union unread' => rollup[h] = Size(h)'
    BY <1>1 DEF RollupCounts, Size
  <2>1. rollup[h] \in Nat /\ rollup[h] <= Size(h)
        /\ (h \notin cut \union unread => rollup[h] = Size(h))
    BY DEF Counted, RollupCounts, Size
  <2> QED
    BY <1>1, <1>5, <1>6, <2>1
<1>8. event' \in [Recorders -> EventRows]
  <2>1. [event[r] EXCEPT !.at = "stored"] \in EventRows
    BY <1>1 DEF Counted, EventRows, NoRow
  <2> QED
    BY <1>1, <2>1 DEF Counted
<1>10. CASE rollJob = NotRolling
  BY <1>1, <1>7, <1>8, <1>10 DEF Counted
<1>11. CASE rollJob # NotRolling
  <2>0. hour \in Hours
    <3>1. event[r].tick \in Nat /\ event[r].tick <= MaxTick
      BY <1>0, RollupAssumption
    <3> QED
      BY <3>1, RollupAssumption DEF Hours, HourOf
  <2>1. /\ rollJob'.since = rollJob.since \union {hour}
        /\ rollJob'.cutoff = rollJob.cutoff /\ rollJob'.count = rollJob.count
        /\ rollJob' \in [phase : {"read"}, since : SUBSET Hours, cutoff : Nat, count : [Hours -> Nat]]
    BY <1>1, <1>11, <2>0 DEF Counted
  <2>2. ASSUME NEW h \in Hours
        PROVE  /\ rollJob.count[h] <= Size(h)'
               /\ h \notin rollJob.since \union {hour} /\ 2 * h >= rollJob.cutoff =>
                    rollJob.count[h] = Size(h)'
               /\ 2 * h + 1 < rollJob.cutoff => rollJob.count[h] = 0
    <3>1. rollJob.count[h] \in Nat /\ rollJob.count[h] <= Size(h)
      BY <1>11 DEF Counted
    <3> QED
      BY <1>5, <1>6, <1>11, <3>1 DEF Counted
  <2> QED
    BY <1>1, <1>7, <1>8, <1>11, <2>1, <2>2 DEF Counted
<1> QED
  BY <1>10, <1>11

LEMMA ReadStep ==
  ASSUME Counted, ReadEvents
  PROVE  Counted'
<1> DEFINE cutoff == IF tick > 2 * Lookback THEN tick - 2 * Lookback ELSE 0
           seen(h) == {r \in StoredIn(h) : event[r].tick >= cutoff}
<1>1. /\ rollJob' = [phase |-> "read", since |-> {}, cutoff |-> cutoff,
                     count |-> [h \in Hours |-> Cardinality(seen(h))]]
      /\ UNCHANGED <<tick, event, rollup, cut, unread>>
  BY DEF ReadEvents
<1>2. \A h : StoredIn(h)' = StoredIn(h) /\ Size(h)' = Size(h)
  BY <1>1 DEF StoredIn, Size
<1>3. RollupCounts'
  BY <1>1, <1>2 DEF Counted, RollupCounts, Size
<1>4. cutoff \in Nat
  BY RollupAssumption DEF Counted
<1>5. ASSUME NEW h \in Hours
      PROVE  /\ Cardinality(seen(h)) \in Nat
             /\ Cardinality(seen(h)) <= Size(h)
             /\ 2 * h >= cutoff => Cardinality(seen(h)) = Size(h)
             /\ 2 * h + 1 < cutoff => Cardinality(seen(h)) = 0
  <2>1. \A r \in StoredIn(h) : event[r].tick = 2 * h \/ event[r].tick = 2 * h + 1
    <3> SUFFICES ASSUME NEW r \in StoredIn(h)
                 PROVE  event[r].tick = 2 * h \/ event[r].tick = 2 * h + 1
      OBVIOUS
    <3>1. event[r].tick \in Nat /\ HourOf(event[r].tick) = h
      BY DEF StoredIn, Counted, EventRows, NoRow
    <3> QED
      BY <3>1, HalfHours
  <2>2. IsFiniteSet(StoredIn(h)) /\ seen(h) \subseteq StoredIn(h)
    BY Finite
  <2>3. h \in Nat
    BY HalfHours
  <2> HIDE DEF cutoff
  <2>4. 2 * h >= cutoff => seen(h) = StoredIn(h)
    BY <1>4, <2>1, <2>3
  <2>5. 2 * h + 1 < cutoff => seen(h) = {}
    BY <1>4, <2>1, <2>3
  <2> HIDE DEF seen
  <2>6. Cardinality(seen(h)) \in Nat /\ Cardinality(seen(h)) <= Size(h)
    BY <2>2, FS_Subset, FS_CardinalityType DEF Size
  <2> QED
    BY <2>4, <2>5, <2>6, FS_EmptySet DEF Size
<1> HIDE DEF cutoff, seen
<1>6. /\ rollJob'.cutoff = cutoff /\ rollJob'.since = {}
      /\ rollJob'.count = [h \in Hours |-> Cardinality(seen(h))]
  BY <1>1
<1>7. rollJob' \in [phase : {"read"}, since : SUBSET Hours, cutoff : Nat, count : [Hours -> Nat]]
  BY <1>1, <1>4, <1>5
<1>8. \A h \in Hours :
        /\ rollJob'.count[h] <= Size(h)
        /\ h \notin rollJob'.since /\ 2 * h >= rollJob'.cutoff => rollJob'.count[h] = Size(h)
        /\ 2 * h + 1 < rollJob'.cutoff => rollJob'.count[h] = 0
  BY <1>5, <1>6
<1> QED
  BY <1>1, <1>2, <1>3, <1>4, <1>6, <1>7, <1>8 DEF Counted

LEMMA CommitRollupStep ==
  ASSUME Counted, CommitRollup
  PROVE  Counted'
<1>1. /\ rollJob # NotRolling /\ rollJob' = NotRolling
      /\ rollup' = [h \in Hours |-> Upserted(rollup[h], rollJob.count[h])]
      /\ UNCHANGED <<tick, event>>
  BY DEF CommitRollup
<1>2. \A h : StoredIn(h)' = StoredIn(h) /\ Size(h)' = Size(h)
  BY <1>1 DEF StoredIn, Size
<1>3. ASSUME NEW h \in Hours
      PROVE  /\ rollup'[h] \in Nat
             /\ rollup'[h] <= Size(h)
             /\ h \notin cut' \union unread' => rollup'[h] = Size(h)
  <2>1. /\ rollup[h] \in Nat /\ rollup[h] <= Size(h)
        /\ h \notin cut \union unread => rollup[h] = Size(h)
    BY DEF Counted, RollupCounts, Size
  <2>2. /\ rollJob.count[h] \in Nat /\ rollJob.count[h] <= Size(h)
        /\ h \notin rollJob.since /\ 2 * h >= rollJob.cutoff => rollJob.count[h] = Size(h)
        /\ 2 * h + 1 < rollJob.cutoff => rollJob.count[h] = 0
        /\ rollJob.cutoff \in Nat
    BY <1>1 DEF Counted
  <2>3. rollup'[h] = IF rollJob.count[h] = 0 THEN rollup[h] ELSE rollJob.count[h]
    BY <1>1 DEF Upserted
  <2>4. Size(h) \in Nat /\ h \in Nat
    BY Finite, HalfHours
  <2>5. ASSUME h \notin cut', h \notin unread'
        PROVE  rollup'[h] = Size(h)
    <3>1. /\ h \notin cut /\ h \notin rollJob.since
          /\ ~(HourOf(rollJob.cutoff) = h /\ 2 * h < rollJob.cutoff)
          /\ ~(h \in unread /\ 2 * h < rollJob.cutoff)
      BY <2>5 DEF CommitRollup
    <3>2. CASE 2 * h >= rollJob.cutoff
      BY <2>1, <2>2, <2>3, <2>4, <3>1, <3>2
    <3>3. CASE 2 * h < rollJob.cutoff
      <4>1. 2 * h + 1 < rollJob.cutoff
        BY <2>2, <2>4, <3>1, <3>3, HalfHours
      <4> QED
        BY <2>1, <2>2, <2>3, <3>1, <3>3, <4>1
    <3> QED
      BY <2>2, <2>4, <3>2, <3>3
  <2> QED
    BY <2>1, <2>2, <2>3, <2>4, <2>5
<1>4. rollup' \in [Hours -> Nat]
  BY <1>1, <1>3
<1>5. RollupCounts'
  BY <1>2, <1>3 DEF RollupCounts, Size
<1> QED
  BY <1>1, <1>4, <1>5 DEF Counted

\* The row of an hour never counts an event twice, and misses one only for the
\* two reasons named, for any number of recorders, any length of time and any
\* look-back (usage_event_repository.py:138-187).
THEOREM RollupsCount == UsageSpec => []RollupCounts
<1>1. UsageInit => Counted
  <2> SUFFICES ASSUME UsageInit
               PROVE  Counted
    OBVIOUS
  <2>1. \A h : StoredIn(h) = {}
    BY DEF UsageInit, StoredIn, NoRow
  <2>2. \A h : Size(h) = 0
    BY <2>1, FS_EmptySet DEF Size
  <2>3. RollupCounts
    BY <2>2 DEF UsageInit, RollupCounts, Size
  <2> QED
    BY <2>3, RollupAssumption DEF UsageInit, Counted, EventRows
<1>2. Counted /\ [UsageNext]_usageVars => Counted'
  <2> SUFFICES ASSUME Counted, [UsageNext]_usageVars
               PROVE  Counted'
    OBVIOUS
  <2>1. ASSUME NEW r \in Recorders,
               RecordEvent(r) \/ CommitEvent(r) \/ LoseEvent(r) \/ BumpCounter(r)
        PROVE  Counted'
    <3>1. CASE BumpCounter(r)
      BY <3>1, Quiet DEF BumpCounter, Counted
    <3> QED
      BY <2>1, <3>1, EventStep, CommitEventStep
  <2>2. CASE AbortRollup \/ PassHalfHour \/ UNCHANGED usageVars
    <3>1. tick' \in 0 .. MaxTick
      BY <2>2, RollupAssumption DEF AbortRollup, PassHalfHour, usageVars, Counted
    <3> QED
      BY <2>2, <3>1, Quiet DEF AbortRollup, PassHalfHour, usageVars
  <2> QED
    BY <2>1, <2>2, ReadStep, CommitRollupStep DEF UsageNext
<1> QED
  BY <1>1, <1>2, PTL DEF UsageSpec, Counted

-----------------------------------------------------------------------------
(* Connector plugins *)

OpNames == {"test", "schema", "pull"}

\* An operation opens no connection, or opens one, closes it later, and can
\* not be cut short between.
NeedsNoConnection(ops) == \A i \in 1 .. Len(ops) : ops[i] \notin {"open", "close"}
OpensAndCloses(ops, o, c) ==
  /\ o < c /\ ops[o] = "open" /\ ops[c] = "close"
  /\ \A i \in 1 .. Len(ops) : /\ ops[i] = "open" => i = o
                              /\ ops[i] = "close" => i = c
                              /\ ops[i] # "list"
Tidy(ops) ==
  /\ Len(ops) \in Nat \ {0}
  /\ \/ NeedsNoConnection(ops)
     \/ \E o, c \in 1 .. Len(ops) : OpensAndCloses(ops, o, c)

\* What an outage can interrupt in a test stands after the beginning of the try.
Answerable == {"open", "probe", "read", "list", "get"}
Shielded(plugin) ==
  \A i \in 1 .. Len(plugin.test) : plugin.test[i] \in Answerable => i >= plugin.guard

TidyPlugin(plugin) ==
  Tidy(plugin.test) /\ Tidy(plugin.schema) /\ Tidy(plugin.pull) /\ Shielded(plugin)

LEMMA PostgresIsTidy == TidyPlugin(Postgres)
<1>1. Tidy(Postgres.test)
  <2>1. OpensAndCloses(Postgres.test, 2, 4) /\ Len(Postgres.test) = 4
    BY DEF Postgres, OpensAndCloses
  <2> QED
    BY <2>1 DEF Tidy
<1>2. Tidy(Postgres.schema)
  <2>1. OpensAndCloses(Postgres.schema, 2, 5) /\ Len(Postgres.schema) = 5
    BY DEF Postgres, OpensAndCloses
  <2> QED
    BY <2>1 DEF Tidy
<1>3. Tidy(Postgres.pull)
  <2>1. OpensAndCloses(Postgres.pull, 2, 6) /\ Len(Postgres.pull) = 6
    BY DEF Postgres, OpensAndCloses
  <2> QED
    BY <2>1 DEF Tidy
<1>4. Shielded(Postgres)
  BY DEF Postgres, Shielded, Answerable
<1> QED
  BY <1>1, <1>2, <1>3, <1>4 DEF TidyPlugin

LEMMA MysqlIsTidy == TidyPlugin(Mysql)
<1>1. Tidy(Mysql.test)
  <2>1. OpensAndCloses(Mysql.test, 3, 5) /\ Len(Mysql.test) = 5
    BY DEF Mysql, OpensAndCloses
  <2> QED
    BY <2>1 DEF Tidy
<1>2. Tidy(Mysql.schema)
  <2>1. OpensAndCloses(Mysql.schema, 3, 6) /\ Len(Mysql.schema) = 6
    BY DEF Mysql, OpensAndCloses
  <2> QED
    BY <2>1 DEF Tidy
<1>3. Tidy(Mysql.pull)
  <2>1. OpensAndCloses(Mysql.pull, 3, 7) /\ Len(Mysql.pull) = 7
    BY DEF Mysql, OpensAndCloses
  <2> QED
    BY <2>1 DEF Tidy
<1>4. Shielded(Mysql)
  BY DEF Mysql, Shielded, Answerable
<1> QED
  BY <1>1, <1>2, <1>3, <1>4 DEF TidyPlugin

LEMMA OracleIsTidy == TidyPlugin(Oracle)
<1>1. Tidy(Oracle.test)
  <2>1. OpensAndCloses(Oracle.test, 3, 5) /\ Len(Oracle.test) = 5
    BY DEF Oracle, Mysql, OpensAndCloses
  <2> QED
    BY <2>1 DEF Tidy
<1>2. Tidy(Oracle.schema)
  <2>1. OpensAndCloses(Oracle.schema, 3, 6) /\ Len(Oracle.schema) = 6
    BY DEF Oracle, Mysql, OpensAndCloses
  <2> QED
    BY <2>1 DEF Tidy
<1>3. Tidy(Oracle.pull)
  <2>1. OpensAndCloses(Oracle.pull, 3, 7) /\ Len(Oracle.pull) = 7
    BY DEF Oracle, Mysql, OpensAndCloses
  <2> QED
    BY <2>1 DEF Tidy
<1>4. Shielded(Oracle)
  BY DEF Oracle, Mysql, Shielded, Answerable
<1> QED
  BY <1>1, <1>2, <1>3, <1>4 DEF TidyPlugin

LEMMA SqliteIsTidy == TidyPlugin(Sqlite)
<1>1. Tidy(Sqlite.test)
  <2>1. OpensAndCloses(Sqlite.test, 3, 5) /\ Len(Sqlite.test) = 5
    BY DEF Sqlite, Mysql, OpensAndCloses
  <2> QED
    BY <2>1 DEF Tidy
<1>2. Tidy(Sqlite.schema)
  <2>1. OpensAndCloses(Sqlite.schema, 3, 6) /\ Len(Sqlite.schema) = 6
    BY DEF Sqlite, Mysql, OpensAndCloses
  <2> QED
    BY <2>1 DEF Tidy
<1>3. Tidy(Sqlite.pull)
  <2>1. OpensAndCloses(Sqlite.pull, 3, 6) /\ Len(Sqlite.pull) = 7
    BY DEF Sqlite, Mysql, OpensAndCloses
  <2> QED
    BY <2>1 DEF Tidy
<1>4. Shielded(Sqlite)
  BY DEF Sqlite, Mysql, Shielded, Answerable
<1> QED
  BY <1>1, <1>2, <1>3, <1>4 DEF TidyPlugin

LEMMA MinioS3IsTidy == TidyPlugin(MinioS3)
<1>1. Tidy(MinioS3.test)
  BY DEF MinioS3, Tidy, NeedsNoConnection
<1>2. Tidy(MinioS3.schema)
  BY DEF MinioS3, Tidy, NeedsNoConnection
<1>3. Tidy(MinioS3.pull)
  BY DEF MinioS3, Tidy, NeedsNoConnection
<1>4. Shielded(MinioS3)
  BY DEF MinioS3, Shielded, Answerable
<1> QED
  BY <1>1, <1>2, <1>3, <1>4 DEF TidyPlugin

LEMMA RestApiIsTidy == TidyPlugin(RestApi)
<1>1. Tidy(RestApi.test)
  <2>1. OpensAndCloses(RestApi.test, 2, 4) /\ Len(RestApi.test) = 4
    BY DEF RestApi, OpensAndCloses
  <2> QED
    BY <2>1 DEF Tidy
<1>2. Tidy(RestApi.schema)
  <2>1. OpensAndCloses(RestApi.schema, 2, 4) /\ Len(RestApi.schema) = 5
    BY DEF RestApi, OpensAndCloses
  <2> QED
    BY <2>1 DEF Tidy
<1>3. Tidy(RestApi.pull)
  <2>1. OpensAndCloses(RestApi.pull, 2, 4) /\ Len(RestApi.pull) = 6
    BY DEF RestApi, OpensAndCloses
  <2> QED
    BY <2>1 DEF Tidy
<1>4. Shielded(RestApi)
  BY DEF RestApi, Shielded, Answerable
<1> QED
  BY <1>1, <1>2, <1>3, <1>4 DEF TidyPlugin

LEMMA EveryPluginIsTidy ==
  ASSUME NEW t \in Types
  PROVE  /\ \A op \in OpNames : Tidy(Plugins[t][op])
         /\ Shielded(Plugins[t])
<1>1. Plugins[t] \in {Postgres, Mysql, Oracle, Sqlite, MinioS3, RestApi}
  BY DEF Types, Plugins, Mssql
<1> DEFINE plugin == Plugins[t]
<1> HIDE DEF plugin
<1>2. TidyPlugin(plugin)
  BY <1>1, PostgresIsTidy, MysqlIsTidy, OracleIsTidy, SqliteIsTidy, MinioS3IsTidy, RestApiIsTidy
  DEF plugin
<1>3. \A op \in OpNames : Tidy(plugin[op])
  BY <1>2 DEF TidyPlugin, OpNames
<1> QED
  BY <1>2, <1>3 DEF TidyPlugin, plugin

\* What is open before step `at` of an operation.
Connected(ops, at, open) ==
  \/ NeedsNoConnection(ops) /\ open = 0
  \/ \E o, c \in 1 .. Len(ops) :
       OpensAndCloses(ops, o, c) /\ open = IF o < at /\ at <= c THEN 1 ELSE 0

OutageIsAnswered ==
  outcome.op = "test" /\ outcome.over = "outage" =>
    outcome.result = IF outcome.sync THEN "counted" ELSE "answered"

Plugged ==
  /\ setup.type \in Types
  /\ run = NoRun => connections = 0
  /\ run # NoRun => /\ run \in [op : OpNames, at : Nat, sync : BOOLEAN]
                    /\ run.at \in 1 .. Len(Ops(run.op))
                    /\ Connected(Ops(run.op), run.at, connections)
  /\ OutageIsAnswered

LEMMA PluggedInit == PluginsInit => Plugged
BY DEF PluginsInit, Plugged, OutageIsAnswered, NoRun

\* An operation begins with no connection.
LEMMA Beginnings ==
  ASSUME NEW ops, Tidy(ops)
  PROVE  1 \in 1 .. Len(ops) /\ Connected(ops, 1, 0)
<1>1. CASE NeedsNoConnection(ops)
  BY <1>1 DEF Tidy, Connected
<1>2. ASSUME NEW o \in 1 .. Len(ops), NEW c \in 1 .. Len(ops), OpensAndCloses(ops, o, c)
      PROVE  Connected(ops, 1, 0)
  <2>1. ~(o < 1)
    BY DEF Tidy
  <2> QED
    BY <1>2, <2>1 DEF Connected
<1> QED
  BY <1>1, <1>2 DEF Tidy

LEMMA PluggedStep == Plugged /\ [PluginsNext]_pluginVars => Plugged'
<1> SUFFICES ASSUME Plugged, [PluginsNext]_pluginVars PROVE Plugged'
  OBVIOUS
<1> DEFINE ops == Ops(run.op)
           step == ops[run.at]
<1>1. ASSUME run # NoRun
      PROVE  /\ Tidy(ops) /\ run \in [op : OpNames, at : Nat, sync : BOOLEAN]
             /\ run.at \in 1 .. Len(ops) /\ Connected(ops, run.at, connections) /\ NextStep = step
  BY <1>1, EveryPluginIsTidy DEF Plugged, Ops, NextStep
<1>2. CASE SourceFlips \/ UNCHANGED pluginVars
  BY <1>2 DEF SourceFlips, pluginVars, Plugged, Connected, OutageIsAnswered, Ops
<1>3. ASSUME NEW op \in {"test", "schema"}, NEW sync \in BOOLEAN, Begin(op, sync)
      PROVE  Plugged'
  <2>1. /\ run = NoRun /\ run' = [op |-> op, at |-> 1, sync |-> sync]
        /\ UNCHANGED <<setup, connections, outcome>>
    BY <1>3 DEF Begin
  <2>2. Tidy(Ops(op)) /\ Ops(op)' = Ops(op) /\ connections' = 0
    BY <2>1, EveryPluginIsTidy DEF Plugged, Ops, OpNames
  <2>3. 1 \in 1 .. Len(Ops(op)) /\ Connected(Ops(op), 1, 0)
    BY <2>2, Beginnings
  <2> QED
    BY <2>1, <2>2, <2>3 DEF Plugged, OpNames, OutageIsAnswered, NoRun, Ops
<1>4. CASE Takes
  <2>1. /\ run # NoRun /\ ~LastStep /\ UNCHANGED <<setup, outcome>>
        /\ run' = [run EXCEPT !.at = @ + 1] /\ connections' = After(step)
    BY <1>1, <1>4 DEF Takes
  <2>2. /\ run' \in [op : OpNames, at : Nat, sync : BOOLEAN] /\ run'.op = run.op
        /\ run'.at = run.at + 1 /\ run.at # Len(ops)
    BY <1>1, <2>1 DEF LastStep
  <2>3. Ops(run.op)' = ops
    BY <2>1, <2>2 DEF Ops
  <2>4. run'.at \in 1 .. Len(ops) /\ Connected(ops, run'.at, connections') => Plugged'
    BY <2>1, <2>2, <2>3 DEF Plugged, OutageIsAnswered, NoRun, OpNames
  <2> HIDE DEF ops
  <2>5. run.at \in 1 .. Len(ops) /\ run'.at \in 1 .. Len(ops) /\ Len(ops) \in Nat
    BY <1>1, <2>1, <2>2 DEF Tidy
  <2>6. CASE NeedsNoConnection(ops) /\ connections = 0
    <3>1. connections' = 0
      BY <2>1, <2>5, <2>6 DEF After, NeedsNoConnection
    <3> QED
      BY <2>5, <2>6, <2>4, <3>1 DEF Connected
  <2>7. ASSUME NEW o \in 1 .. Len(ops), NEW c \in 1 .. Len(ops), OpensAndCloses(ops, o, c),
               connections = IF o < run.at /\ run.at <= c THEN 1 ELSE 0
        PROVE  Plugged'
    <3>1. /\ step = "open" <=> run.at = o
          /\ step = "close" <=> run.at = c
          /\ o < c
      BY <2>5, <2>7 DEF OpensAndCloses
    <3>2. connections' = IF o < run'.at /\ run'.at <= c THEN 1 ELSE 0
      BY <2>1, <2>2, <2>5, <2>7, <3>1 DEF After
    <3>3. Connected(ops, run'.at, connections')
      BY <2>7, <3>2 DEF Connected
    <3> QED
      BY <2>5, <2>4, <3>3
  <2> QED
    BY <1>1, <2>1, <2>6, <2>7 DEF Connected
<1>5. CASE Completes
  <2>1. run # NoRun /\ LastStep /\ connections' = After(step)
    BY <1>1, <1>5 DEF Completes
  <2>2. connections' = 0
    <3> HIDE DEF ops
    <3>1. run.at \in 1 .. Len(ops) /\ Len(ops) \in Nat /\ (run.at = Len(ops) \/ step = "list")
      BY <1>1, <2>1 DEF Tidy, LastStep, CutShort, ops
    <3>2. CASE NeedsNoConnection(ops) /\ connections = 0
      BY <2>1, <3>1, <3>2 DEF After, NeedsNoConnection
    <3>3. ASSUME NEW o \in 1 .. Len(ops), NEW c \in 1 .. Len(ops), OpensAndCloses(ops, o, c),
                 connections = IF o < run.at /\ run.at <= c THEN 1 ELSE 0
          PROVE  connections' = 0
      <4>1. /\ step = "open" <=> run.at = o
            /\ step = "close" <=> run.at = c
            /\ o < c /\ run.at = Len(ops)
        BY <3>1, <3>3 DEF OpensAndCloses
      <4> QED
        BY <2>1, <3>1, <3>3, <4>1 DEF After
    <3> QED
      BY <1>1, <2>1, <3>2, <3>3 DEF Connected
  <2>3. CASE run.sync /\ run.op = "test" /\ setup.linked
    <3>1. run' = [run EXCEPT !.op = "pull", !.at = 1] /\ UNCHANGED <<setup, outcome>>
      BY <1>5, <2>3 DEF Completes
    <3>2. run' = [op |-> "pull", at |-> 1, sync |-> run.sync] /\ run.sync \in BOOLEAN
      BY <1>1, <2>1, <3>1
    <3>3. Tidy(Ops("pull")) /\ Ops("pull")' = Ops("pull")
      BY <3>1, EveryPluginIsTidy DEF Plugged, Ops, OpNames
    <3>4. 1 \in 1 .. Len(Ops("pull")) /\ Connected(Ops("pull"), 1, 0)
      BY <3>3, Beginnings
    <3> QED
      BY <2>2, <3>1, <3>2, <3>3, <3>4 DEF Plugged, OpNames, OutageIsAnswered, NoRun, Ops
  <2>4. CASE ~(run.sync /\ run.op = "test" /\ setup.linked)
    <3>1. run' = NoRun /\ outcome'.over = "nothing" /\ UNCHANGED setup
      BY <1>5, <2>4 DEF Completes, Ends
    <3> QED
      BY <2>2, <3>1 DEF Plugged, OutageIsAnswered
  <2> QED
    BY <2>3, <2>4
<1>6. CASE Fails
  <2>1. /\ run # NoRun /\ Trouble(step) # "nothing" /\ connections' = 0 /\ run' = NoRun
        /\ outcome' = [op |-> run.op, sync |-> run.sync, over |-> Trouble(step),
                       result |-> IF ~Guarded THEN "raised"
                                  ELSE IF run.sync THEN "counted" ELSE "answered"]
        /\ UNCHANGED setup
    BY <1>1, <1>6 DEF Fails, Ends, Released
  <2>2. ASSUME run.op = "test", Trouble(step) = "outage"
        PROVE  Guarded
    <3>1. step \in Answerable
      BY <2>2 DEF Trouble, Answerable
    <3>2. ops = Plugins[setup.type].test /\ Shielded(Plugins[setup.type])
      BY <2>2, EveryPluginIsTidy DEF Ops, Plugged
    <3>3. run.at >= Plugins[setup.type].guard
      BY <1>1, <2>1, <3>1, <3>2 DEF Shielded
    <3> QED
      BY <2>2, <3>3 DEF Guarded
  <2>3. OutageIsAnswered'
    BY <2>1, <2>2 DEF OutageIsAnswered
  <2> QED
    BY <2>1, <2>3 DEF Plugged
<1> QED
  BY <1>2, <1>3, <1>4, <1>5, <1>6 DEF PluginsNext

\* A source that stops answering during a test is an answer of every plugin, and
\* no operation leaves a connection behind, however often the source comes and
\* goes (services/connectors; connector_sync_service.py:31-37).
THEOREM OutagesAreContained == PluginsSpec => []OutageIsContained
<1>1. Plugged => OutageIsContained
  BY DEF Plugged, OutageIsAnswered, OutageIsContained
<1> QED
  BY <1>1, PluggedInit, PluggedStep, PTL DEF PluginsSpec

=============================================================================
