------------------------ MODULE ConnectorProperties ------------------------
(***************************************************************************)
(* What the connector's circuit breaker and schedule promise.              *)
(***************************************************************************)
EXTENDS ConnectorSync

ConnectorRow ==
  [failures : 0 .. Threshold, circuit : Circuits, due : BOOLEAN]

Tasks == {"testing", "pulling", "ingested", "probing", "closing"}

TaskStates == {AtRest} \union [task : Tasks, loaded : ConnectorRow]

\* Every variable has its type.
ConnTypeOK ==
  /\ connector \in ConnectorRow
  /\ remote \in Remotes
  /\ neighbours \in [ahead : BOOLEAN, raises : BOOLEAN]
  /\ syncs \in Nat
  /\ worker \in [SyncWorkers -> TaskStates]
  /\ syncLosses \in 0 .. MaxSyncLosses

-----------------------------------------------------------------------------
(* In every interleaving *)

\* The circuit is open exactly when the count has reached the threshold: the two
\* columns never tell different stories, although each sync writes them from a
\* row it loaded before it called the source and the probe resets them meanwhile
\* (mark_sync_failure, mark_sync_success, close_circuit).
CircuitMatchesCount ==
  connector.circuit = "open" <=> connector.failures = Threshold

\* Once the source answers for good, and no other open circuit makes the common
\* probe raise, an open circuit closes (attempt_circuit_reset), whatever syncs
\* write the row, lock it or fail beside the probe.
CircuitRecovers ==
  <>[](remote \in Answering /\ ~neighbours.raises) =>
    [](connector.circuit = "open" => <>(connector.circuit = "closed"))

\* Once the source answers for good with data the ingest takes, and there are no
\* 50 others that have been due longer, a due connector is synced
\* (trigger_due_syncs), although its circuit may be open when that begins.
DueIsSynced ==
  <>[](remote = "serves" /\ ~neighbours.ahead /\ ~neighbours.raises) =>
    [](connector.due => <>~connector.due)

\* A task to which the source has answered and which has not written it yet.
Heard == \E w \in SyncWorkers : worker[w].task \in {"pulling", "ingested", "closing"}

\* The columns of the breaker as an observer sees them.
Tripping == INSTANCE CircuitBreaker WITH
  misses <- connector.failures, open <- connector.circuit = "open", heard <- Heard

Columns == <<connector.failures, connector.circuit = "open", Heard>>

\* Another task has written the columns that this one loaded.
Overtaken(w) ==
  /\ worker[w].task # "idle"
  /\ <<worker[w].loaded.failures, worker[w].loaded.circuit>>
       # <<connector.failures, connector.circuit>>

\* The failure that follows the ones a task loaded, written over whatever others
\* have written since.
MissAfter(loaded) ==
  /\ connector'.failures = IF loaded.failures < Threshold THEN loaded.failures + 1
                                                          ELSE Threshold
  /\ connector'.circuit = IF connector'.failures = Threshold THEN "open" ELSE "closed"

\* The breaker opens at the failed test that makes a run of Threshold, neither
\* sooner nor later, and only an answer of the source ends a run: not a test that
\* raises, not a lost worker, not a sync an administrator asks for while the
\* circuit is open. A failed test that was overtaken counts on from the failures
\* its task had loaded (ConnectorSyncService.run, attempt_circuit_reset). The
\* code counts failures in a row, not within the 60 seconds of
\* OPENCIVIC_PLATFORM_SPEC.md:290.
TripsOnTime ==
  [][\/ Tripping!Next
     \/ \E w \in SyncWorkers :
          /\ worker[w].task = "testing" /\ Overtaken(w)
          /\ worker'[w].task = "idle" /\ MissAfter(worker[w].loaded)]_Columns

\* While no task is overtaken, the columns are a breaker.
ImplementsBreaker == Tripping!Spec
=============================================================================
