-------------------------- MODULE ConnectorProofs --------------------------
(***************************************************************************)
(* Proofs about the circuit breaker, for any threshold and any number of   *)
(* overlapping tasks.                                                      *)
(***************************************************************************)
EXTENDS ConnectorProperties, TLAPS

\* The two columns of a connectors row agree.
Agrees(row) == row.circuit = "open" <=> row.failures = Threshold

\* What is inductive: the row agrees, and so does every row a task holds, which
\* is what a failed test writes back.
Breaker ==
  /\ ConnTypeOK
  /\ Agrees(connector)
  /\ \A w \in SyncWorkers : worker[w].task # "idle" => Agrees(worker[w].loaded)

LEMMA CountedType ==
  ASSUME NEW n \in 0 .. Threshold
  PROVE  /\ OneMore(n) \in 0 .. Threshold
         /\ OneMore(n) = Threshold <=> n + 1 >= Threshold
  BY ConnectorAssumption DEF OneMore

LEMMA BreakerInit == ConnInit => Breaker
  BY ConnectorAssumption
     DEF ConnInit, Breaker, ConnTypeOK, Agrees, ConnectorRow, Circuits, TaskStates,
         AtRest, Remotes, Answering

LEMMA LoadedRow ==
  ASSUME Breaker, NEW w \in SyncWorkers, worker[w].task # "idle"
  PROVE  worker[w].loaded \in ConnectorRow /\ Agrees(worker[w].loaded)
<1>1. worker[w] \in TaskStates
  BY DEF Breaker, ConnTypeOK
<1> QED
  BY <1>1 DEF Breaker, TaskStates, AtRest

\* mark_sync_failure keeps the columns in agreement from whatever row was loaded.
LEMMA FailedAgrees ==
  ASSUME Breaker, NEW loaded \in ConnectorRow, Agrees(loaded)
  PROVE  Failed(loaded) \in ConnectorRow /\ Agrees(Failed(loaded))
<1>1. connector \in ConnectorRow
  BY DEF Breaker, ConnTypeOK
<1>2. /\ OneMore(loaded.failures) \in 0 .. Threshold
      /\ OneMore(loaded.failures) = Threshold <=> loaded.failures + 1 >= Threshold
  BY CountedType DEF ConnectorRow
<1> DEFINE circuit == IF loaded.failures + 1 >= Threshold THEN "open"
                                                          ELSE loaded.circuit
<1>3. circuit \in Circuits /\ (circuit = "open" <=> loaded.failures + 1 >= Threshold)
  BY ConnectorAssumption DEF Agrees, ConnectorRow, Circuits
<1>4. /\ Failed(loaded) \in ConnectorRow
      /\ Failed(loaded).failures = OneMore(loaded.failures)
      /\ Failed(loaded).circuit = circuit
  BY <1>1, <1>2, <1>3 DEF Failed, ConnectorRow
<1> QED
  BY <1>2, <1>3, <1>4 DEF Agrees

\* So do mark_sync_success, close_circuit and the clock.
LEMMA ResetAgrees ==
  ASSUME Breaker
  PROVE  /\ Succeeded \in ConnectorRow /\ Agrees(Succeeded)
         /\ Probed \in ConnectorRow /\ Agrees(Probed)
         /\ [connector EXCEPT !.due = TRUE] \in ConnectorRow
         /\ Agrees([connector EXCEPT !.due = TRUE])
<1>1. connector \in ConnectorRow /\ Agrees(connector)
  BY DEF Breaker, ConnTypeOK
<1>2. Succeeded \in ConnectorRow /\ Agrees(Succeeded)
  BY ConnectorAssumption DEF Succeeded, ConnectorRow, Circuits, Agrees
<1>3. Probed \in ConnectorRow /\ Agrees(Probed)
  BY <1>1, ConnectorAssumption DEF Probed, ConnectorRow, Circuits, Agrees
<1>4. /\ [connector EXCEPT !.due = TRUE] \in ConnectorRow
      /\ Agrees([connector EXCEPT !.due = TRUE])
  BY <1>1 DEF ConnectorRow, Agrees
<1> QED
  BY <1>2, <1>3, <1>4

LEMMA AtRestType == AtRest \in TaskStates /\ AtRest.task = "idle"
  BY DEF TaskStates, AtRest

\* A step that leaves worker w idle, or lets it go on with the row it holds.
LEMMA WorkerMoves ==
  ASSUME Breaker, NEW w \in SyncWorkers, NEW s \in TaskStates,
         s.task # "idle" => Agrees(s.loaded), worker' = [worker EXCEPT ![w] = s]
  PROVE  /\ worker' \in [SyncWorkers -> TaskStates]
         /\ \A x \in SyncWorkers :
              worker'[x].task # "idle" => Agrees(worker'[x].loaded)
  BY DEF Breaker, ConnTypeOK

LEMMA NextTask ==
  ASSUME Breaker, NEW w \in SyncWorkers, worker[w].task # "idle", NEW t \in Tasks
  PROVE  /\ [worker[w] EXCEPT !.task = t] \in TaskStates
         /\ Agrees([worker[w] EXCEPT !.task = t].loaded)
<1>1. worker[w] \in [task : Tasks, loaded : ConnectorRow]
  BY DEF Breaker, ConnTypeOK, TaskStates, AtRest
<1>2. Agrees(worker[w].loaded)
  BY LoadedRow
<1>3. [worker[w] EXCEPT !.task = t].loaded = worker[w].loaded
  BY <1>1
<1> QED
  BY <1>1, <1>2, <1>3 DEF TaskStates

LEMMA BreakerStep ==
  ASSUME Breaker, [ConnNext]_connVars
  PROVE  Breaker'
<1>1. CASE RemoteChanges \/ NeighboursChange \/ Trigger \/ SyncNow
  BY <1>1, ConnectorAssumption
     DEF RemoteChanges, NeighboursChange, Trigger, SyncNow, Breaker, ConnTypeOK, Agrees
<1>2. CASE BecomeDue
  BY <1>2, ResetAgrees DEF BecomeDue, Breaker, ConnTypeOK
<1>3. ASSUME NEW w \in SyncWorkers, BeginSync(w) \/ BeginProbe(w)
      PROVE  Breaker'
  <2>1. PICK t \in Tasks :
          worker' = [worker EXCEPT ![w] = [task |-> t, loaded |-> connector]]
    BY <1>3 DEF BeginSync, BeginProbe, Task, Tasks
  <2>2. [task |-> t, loaded |-> connector] \in TaskStates
    BY DEF Breaker, ConnTypeOK, TaskStates
  <2>3. /\ worker' \in [SyncWorkers -> TaskStates]
        /\ \A x \in SyncWorkers :
             worker'[x].task # "idle" => Agrees(worker'[x].loaded)
    BY <2>1, <2>2, WorkerMoves DEF Breaker
  <2>4. syncs' \in Nat
    BY <1>3 DEF BeginSync, BeginProbe, Breaker, ConnTypeOK
  <2> QED
    BY <1>3, <2>3, <2>4 DEF BeginSync, BeginProbe, Breaker, ConnTypeOK, Agrees
<1>4. ASSUME NEW w \in SyncWorkers, worker' = [worker EXCEPT ![w] = AtRest],
             connector' \in ConnectorRow, Agrees(connector'),
             UNCHANGED <<remote, neighbours>>,
             syncs' \in Nat, syncLosses' \in 0 .. MaxSyncLosses
      PROVE  Breaker'
  <2>1. /\ worker' \in [SyncWorkers -> TaskStates]
        /\ \A x \in SyncWorkers :
             worker'[x].task # "idle" => Agrees(worker'[x].loaded)
    BY <1>4, AtRestType, WorkerMoves
  <2> QED
    BY <1>4, <2>1 DEF Breaker, ConnTypeOK, Agrees
<1>5. ASSUME NEW w \in SyncWorkers, LoseSync(w)
      PROVE  Breaker'
  <2>1. syncLosses' \in 0 .. MaxSyncLosses /\ syncs' \in Nat
    BY <1>5, ConnectorAssumption DEF LoseSync, Breaker, ConnTypeOK
  <2> QED
    BY <1>4, <1>5, <2>1 DEF LoseSync, Breaker, ConnTypeOK
<1>6. ASSUME NEW w \in SyncWorkers, TestFails(w)
      PROVE  Breaker'
  <2>1. Failed(worker[w].loaded) \in ConnectorRow /\ Agrees(Failed(worker[w].loaded))
    BY <1>6, LoadedRow, FailedAgrees DEF TestFails
  <2> QED
    BY <1>4, <1>6, <2>1 DEF TestFails, Breaker, ConnTypeOK
<1>7. ASSUME NEW w \in SyncWorkers, NothingToPull(w) \/ MarkSuccess(w) \/ CommitProbe(w)
      PROVE  Breaker'
  BY <1>4, <1>7, ResetAgrees
     DEF NothingToPull, MarkSuccess, CommitProbe, Breaker, ConnTypeOK
<1>8. ASSUME NEW w \in SyncWorkers, SyncRaises(w) \/ ProbeUnanswered(w) \/ ProbeRaises(w)
      PROVE  Breaker'
  BY <1>4, <1>8 DEF SyncRaises, ProbeUnanswered, ProbeRaises, Breaker, ConnTypeOK
<1>9. ASSUME NEW w \in SyncWorkers, TestPasses(w) \/ SyncIngests(w) \/ ProbeAnswered(w)
      PROVE  Breaker'
  <2>1. PICK t \in Tasks :
          worker' = [worker EXCEPT ![w] = [worker[w] EXCEPT !.task = t]]
    BY <1>9 DEF TestPasses, SyncIngests, ProbeAnswered, Tasks
  <2>2. worker[w].task # "idle"
    BY <1>9 DEF TestPasses, SyncIngests, ProbeAnswered
  <2>3. /\ worker' \in [SyncWorkers -> TaskStates]
        /\ \A x \in SyncWorkers :
             worker'[x].task # "idle" => Agrees(worker'[x].loaded)
    <3>1. /\ [worker[w] EXCEPT !.task = t] \in TaskStates
          /\ Agrees([worker[w] EXCEPT !.task = t].loaded)
      BY <2>2, NextTask
    <3> QED
      BY <2>1, <3>1, WorkerMoves
  <2> QED
    BY <1>9, <2>3
       DEF TestPasses, SyncIngests, ProbeAnswered, Breaker, ConnTypeOK, Agrees
<1>10. CASE UNCHANGED connVars
  BY <1>10 DEF connVars, Breaker, ConnTypeOK, Agrees
<1> QED
  BY <1>1, <1>2, <1>3, <1>5, <1>6, <1>7, <1>8, <1>9, <1>10
     DEF ConnNext, SyncStep, ProbeStep

LEMMA BreakerInvariant == ConnSpec => []Breaker
  BY BreakerInit, BreakerStep, PTL DEF ConnSpec

\* The row, the tasks and the counters are well typed.
THEOREM TypeCorrect == ConnSpec => []ConnTypeOK
<1>1. Breaker => ConnTypeOK
  BY DEF Breaker
<1> QED
  BY <1>1, BreakerInvariant, PTL

\* The circuit's state and its failure count never disagree, for any threshold
\* and any number of tasks writing rows they loaded earlier.
THEOREM CircuitAgreesWithCount == ConnSpec => []CircuitMatchesCount
<1>1. Breaker => CircuitMatchesCount
  BY DEF Breaker, Agrees, CircuitMatchesCount
<1> QED
  BY <1>1, BreakerInvariant, PTL

\* What a failed test writes is the next failure after those its task loaded.
LEMMA FailedIsMissAfter ==
  ASSUME Breaker, NEW w \in SyncWorkers, TestFails(w)
  PROVE  MissAfter(worker[w].loaded)
<1> DEFINE row == worker[w].loaded
<1>1. connector \in ConnectorRow
  BY DEF Breaker, ConnTypeOK
<1>2. row \in ConnectorRow /\ Agrees(row)
  BY LoadedRow DEF TestFails
<1>3. /\ connector'.failures = OneMore(row.failures)
      /\ connector'.circuit = IF row.failures + 1 >= Threshold THEN "open" ELSE row.circuit
  BY <1>1 DEF TestFails, Failed, ConnectorRow
<1>4. row.failures \in 0 .. Threshold /\ row.circuit \in Circuits
  BY <1>2 DEF ConnectorRow
<1> HIDE DEF row
<1>5. connector'.failures = IF row.failures < Threshold THEN row.failures + 1 ELSE Threshold
  BY <1>3, <1>4, ConnectorAssumption DEF OneMore
<1>6. connector'.failures = Threshold <=> row.failures + 1 >= Threshold
  BY <1>4, <1>5, ConnectorAssumption
<1>7. row.failures + 1 < Threshold => row.circuit = "closed"
  BY <1>2, <1>4, ConnectorAssumption DEF Agrees, Circuits
<1>8. row.failures + 1 >= Threshold \/ row.failures + 1 < Threshold
  BY <1>4, ConnectorAssumption
<1>9. connector'.circuit = IF connector'.failures = Threshold THEN "open" ELSE "closed"
  BY <1>3, <1>6, <1>7, <1>8
<1> QED
  BY <1>5, <1>9 DEF MissAfter, row

\* A failed test that finds the columns as the task loaded them.
LEMMA FailedIsMiss ==
  ASSUME Breaker, NEW w \in SyncWorkers, ~Overtaken(w), TestFails(w)
  PROVE  Tripping!Next
<1> DEFINE row == worker[w].loaded
<1>1. /\ connector \in ConnectorRow /\ Agrees(connector)
      /\ row.failures = connector.failures /\ row.circuit = connector.circuit
  BY DEF Breaker, ConnTypeOK, Overtaken, TestFails
<1>2. /\ connector'.failures = IF connector.failures < Threshold
                               THEN connector.failures + 1 ELSE Threshold
      /\ connector'.circuit = IF connector'.failures = Threshold THEN "open" ELSE "closed"
  BY <1>1, FailedIsMissAfter DEF MissAfter
<1>3. connector.failures \in 0 .. Threshold /\ connector.circuit \in Circuits
  BY <1>1 DEF ConnectorRow
<1>4. Heard' \in BOOLEAN
  BY DEF Heard
<1> HIDE DEF row
<1>5. CASE connector.failures < Threshold
  <2>1. connector'.failures = connector.failures + 1
    BY <1>2, <1>5
  <2>2. (connector'.circuit = "open") = (connector.failures + 1 = Threshold)
    BY <1>2, <2>1
  <2> QED
    BY <1>4, <1>5, <2>1, <2>2 DEF Tripping!Miss, Tripping!Next
<1>6. CASE connector.failures = Threshold
  <2>1. connector'.failures = connector.failures
    BY <1>2, <1>6, ConnectorAssumption
  <2>2. connector'.circuit = "open" /\ connector.circuit = "open"
    BY <1>1, <1>2, <1>6, <2>1 DEF Agrees
  <2> QED
    BY <1>4, <2>1, <2>2 DEF Tripping!Listen, Tripping!Next
<1> QED
  BY <1>3, <1>5, <1>6, ConnectorAssumption

LEMMA TrippingStep ==
  ASSUME Breaker, [ConnNext]_connVars
  PROVE  \/ Tripping!Next
         \/ \E w \in SyncWorkers :
              /\ worker[w].task = "testing" /\ Overtaken(w)
              /\ worker'[w].task = "idle" /\ MissAfter(worker[w].loaded)
<1>0. /\ connector \in ConnectorRow /\ worker \in [SyncWorkers -> TaskStates]
      /\ Heard' \in BOOLEAN
  BY DEF Breaker, ConnTypeOK, Heard
\* A step that leaves the two columns alone.
<1>1. ASSUME connector'.failures = connector.failures, connector'.circuit = connector.circuit
      PROVE  Tripping!Next
  BY <1>0, <1>1 DEF Tripping!Listen, Tripping!Next
<1>2. CASE RemoteChanges \/ NeighboursChange \/ Trigger \/ SyncNow \/ UNCHANGED connVars
  BY <1>1, <1>2 DEF RemoteChanges, NeighboursChange, Trigger, SyncNow, connVars
<1>3. CASE BecomeDue
  BY <1>0, <1>1, <1>3 DEF BecomeDue, ConnectorRow
<1>4. ASSUME NEW w \in SyncWorkers, TestFails(w)
      PROVE  \/ Tripping!Next
             \/ /\ worker[w].task = "testing" /\ Overtaken(w)
                /\ worker'[w].task = "idle" /\ MissAfter(worker[w].loaded)
  <2>1. CASE Overtaken(w)
    <3>1. worker[w].task = "testing" /\ worker'[w].task = "idle"
      BY <1>0, <1>4 DEF TestFails, AtRest
    <3> QED
      BY <1>4, <2>1, <3>1, FailedIsMissAfter
  <2>2. CASE ~Overtaken(w)
    BY <1>4, <2>2, FailedIsMiss
  <2> QED
    BY <2>1, <2>2
<1>5. ASSUME NEW w \in SyncWorkers, NothingToPull(w) \/ MarkSuccess(w) \/ CommitProbe(w)
      PROVE  Tripping!Next
  <2>1. Heard
    BY <1>5 DEF NothingToPull, MarkSuccess, CommitProbe, Heard
  <2>2. connector'.failures = 0 /\ connector'.circuit = "closed"
    BY <1>0, <1>5
       DEF NothingToPull, MarkSuccess, CommitProbe, Succeeded, Probed, ConnectorRow
  <2> QED
    BY <1>0, <2>1, <2>2 DEF Tripping!Answer, Tripping!Next
<1>6. ASSUME NEW w \in SyncWorkers,
             \/ BeginSync(w) \/ BeginProbe(w) \/ LoseSync(w)
             \/ TestPasses(w) \/ SyncRaises(w) \/ SyncIngests(w)
             \/ ProbeAnswered(w) \/ ProbeUnanswered(w) \/ ProbeRaises(w)
      PROVE  Tripping!Next
  BY <1>1, <1>6
     DEF BeginSync, BeginProbe, LoseSync, TestPasses, SyncRaises, SyncIngests,
         ProbeAnswered, ProbeUnanswered, ProbeRaises
<1> QED
  BY <1>2, <1>3, <1>4, <1>5, <1>6 DEF ConnNext, SyncStep, ProbeStep

\* Whatever tasks overlap, are lost or raise: the circuit opens at the failure that
\* completes a run of Threshold and at no other, only an answer of the source ends
\* a run, and a task that was overtaken counts on from what it had loaded.
THEOREM TrippingOnTime == ConnSpec => TripsOnTime
<1>1. Breaker /\ [ConnNext]_connVars =>
        [\/ Tripping!Next
         \/ \E w \in SyncWorkers :
              /\ worker[w].task = "testing" /\ Overtaken(w)
              /\ worker'[w].task = "idle" /\ MissAfter(worker[w].loaded)]_Columns
  BY TrippingStep
<1> QED
  BY <1>1, BreakerInvariant, PTL DEF ConnSpec, TripsOnTime

-----------------------------------------------------------------------------
(* While no task is overtaken *)

\* No task finds, when it writes, other columns than it loaded.
Unovertaken == \A w \in SyncWorkers : ~Overtaken(w)

\* In every behaviour in which no task is overtaken, however tasks overlap, are
\* lost or raise, the columns are those of a breaker that opens exactly at the
\* failure that completes a run of Threshold and that only an answer resets. The
\* premise is about the behaviour: the code lets tasks overtake each other, and
\* TripsOnTime says what they write then.
THEOREM UnovertakenImplementsBreaker ==
  ConnSpec /\ []Unovertaken => ImplementsBreaker
<1>1. ConnInit => Tripping!Init
  BY DEF ConnInit, AtRest, Heard, Tripping!Init
<1>2. Breaker /\ Unovertaken /\ [ConnNext]_connVars => [Tripping!Next]_Columns
  BY TrippingStep DEF Unovertaken
<1> QED
  BY <1>1, <1>2, BreakerInvariant, PTL
     DEF ConnSpec, ImplementsBreaker, Tripping!Spec, Columns
=============================================================================
